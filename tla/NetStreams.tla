----------------------------- MODULE NetStreams -----------------------------
(***************************************************************************)
(* A netOutStream, the connection it ships to and the netInStream at the   *)
(* other end: four threads, two buffers and a link that may break.  Shown  *)
(* to implement ChunkChannel.                                              *)
(***************************************************************************)
EXTENDS NetOutStream, NetInStream

vars == <<net, up, outVars, inVars>>

Init == net = <<>> /\ up = TRUE /\ OutInit /\ InInit

OutStep == User \/ Sender \/ OutSpurious
InStep == Reader \/ Holder \/ InSpurious

Next ==
  \/ OutStep /\ UNCHANGED inVars
  \/ InStep /\ UNCHANGED outVars
  \/ Breaks /\ UNCHANGED <<outVars, inVars>>

Spec == Init /\ [][Next]_vars

(* Both threads are scheduled; a user finishes what it has begun, and the  *)
(* one who reads keeps looking.                                            *)
FairSpec ==
  /\ Spec
  /\ WF_vars(Sender /\ UNCHANGED inVars)
  /\ WF_vars((BufferWakes \/ Fill \/ Send) /\ UNCHANGED inVars)
  /\ WF_vars(Reader /\ UNCHANGED outVars)
  /\ WF_vars(Read /\ UNCHANGED outVars)
  /\ WF_vars(DoneRead /\ UNCHANGED outVars)

-----------------------------------------------------------------------------
(* Offsets stay in the buffers; -1 is a stream that is being freed.        *)
TypeOK ==
  /\ out.start \in 0 .. OutSize /\ out.end \in -1 .. OutSize /\ out.write \in -1 .. OutSize
  /\ in.start \in 0 .. InSize /\ in.end \in 0 .. InSize /\ in.write \in -1 .. InSize
  /\ sender.pc \in {"begin", "wait", "woken", "size", "ship", "ended"}
  /\ sender.at \in 0 .. OutSize
  /\ user.pc \in {"idle", "wait", "woken", "fill", "filled", "freeing", "freed"}
  /\ reader.pc \in {"size", "wait", "woken", "store", "receive", "receiving", "spins", "ended"}
  /\ reader.at \in -1 .. InSize
  /\ holder \in {"idle", "holds", "freeing", "freed"}

(* What is read is what was sent: whole, once and in order, although both  *)
(* buffers are filled and emptied outside their mutexes (netOutStream.c    *)
(* 92-97 and 196-202, netInStream.c 110-113).                              *)
Channel == INSTANCE ChunkChannel
ImplementsChannel == Channel!Spec

(* The reader sleeps for room and there is nothing left to read whose end  *)
(* would wake it: netInStreamDoneRead alone signals, and netInStreamRead,  *)
(* which gives up the whole buffer when it goes to the front, does not     *)
(* (netInStream.c 95, 166-171).  One wake-up is missed here.               *)
Stranded ==
  /\ holder \in {"idle", "holds"} /\ reader.pc = "wait"
  /\ in.start = in.end /\ in.write \in {0, in.end}

(* That it is missed needs a chunk of more than half the buffer: a smaller *)
(* one, however the buffer wraps and the user's calls fall in between,     *)
(* never leaves the reader asleep with everything read (netInStream.c      *)
(* 81-103, 158-200).                                                       *)
LargeSizes == {n \in Sizes : 2 * Extent(n) > InSize}
OnlyLargeStranded == Stranded => reader.size \in LargeSizes

(* Nothing is promised any more.                                           *)
Over == ~up \/ user.pc \in {"freeing", "freed"} \/ holder \in {"freeing", "freed"}
LargeStranded == Stranded /\ reader.size \in LargeSizes

(* Every chunk that was sent is read, and netOutStreamBuffer returns,      *)
(* unless the link breaks, one of the streams is freed or the reader is    *)
(* stranded with a large chunk: that is the only wake-up missed while both *)
(* buffers wrap (netOutStream.c 161-189, netInStream.c 81-103).            *)
ChunksArrive ==
  /\ []<>(Len(received) = sent \/ Over \/ LargeStranded)
  /\ []<>(user.pc # "wait" \/ Over \/ LargeStranded)

-----------------------------------------------------------------------------
(* The inductive invariant.                                                *)

(* What lies in a .. b - 1 of a buffer: whole chunks, one after the other, *)
(* none later than m.                                                      *)
ChunkAt(f, p) ==
  \A q \in 0 .. Extent(f[p].size) - 1 : f[p + q] = Cell(f[p].id, f[p].size, q)
Framed(f, a, b, m) ==
  \A p \in a .. b - 1 :
    LET first == p - f[p].at
        next == first + Extent(f[p].size)
    IN  /\ f[p].id \in 1 .. m /\ f[p].size \in Sizes
        /\ first \in a .. p /\ next \in p + 1 .. b
        /\ ChunkAt(f, first) /\ f[first].id = f[p].id /\ f[first].size = f[p].size
        /\ next < b => f[next].id = f[p].id + 1

(* Where the marks of a buffer are: in front of start .. end only once     *)
(* write has wrapped, and then apart from it.                              *)
Marks(o, size) ==
  /\ o.end \in 0 .. size /\ o.start \in 0 .. o.end
  /\ \/ o.write = o.end
     \/ o.write \in 0 .. o.end - 1 /\ (o.write < o.start \/ o.write = 0)

(* A chunk of n has room at write.                                         *)
Fits(o, n, size) ==
  \/ o.write = o.end /\ o.write + Extent(n) <= size
  \/ o.write < o.end /\ o.write + Extent(n) < o.start

(* The thread that stores a chunk of n at write has stored the first k     *)
(* cells of it.                                                            *)
Begun(f, p, i, n, k) == \A q \in 0 .. k - 1 : f[p + q] = Cell(i, n, q)

Writing == user.pc \notin {"freeing", "freed"}
OutTypes ==
  /\ out \in [start : Int, end : Int, write : Int]
  /\ outBuffer \in [0 .. OutSize - 1 -> [id : Nat, size : Nat, at : Nat]]
  /\ sender \in [pc : {"begin", "wait", "woken", "size", "ship", "ended"},
                 at : 0 .. OutSize, left : Nat]
  /\ user \in [pc : {"idle", "wait", "woken", "fill", "filled", "freeing", "freed"},
               size : Nat]
  /\ sent \in Nat

(* Chunks that were not shipped are there in order; those in front of      *)
(* start .. end are the later ones.                                        *)
OutInOrder(o, f, m) ==
  /\ o.start < o.end /\ o.write \in {0, o.end} => f[o.end - 1].id = m
  /\ o.write \notin {0, o.end} => f[o.write - 1].id = m /\ f[0].id = f[o.end - 1].id + 1
OutStored(o, f, m) ==
  /\ Marks(o, OutSize)
  /\ o.write # o.end => o.start < o.end
  /\ Framed(f, o.start, o.end, m)
  /\ o.write # o.end => Framed(f, 0, o.write, m)
  /\ OutInOrder(o, f, m)

(* The user's room is apart from what the thread ships.                    *)
UserFills ==
  /\ user.pc \in {"wait", "woken", "fill", "filled"} =>
       user.size \in Sizes /\ Extent(user.size) < OutSize
  /\ user.pc \in {"fill", "filled"} => Fits(out, user.size, OutSize)
  /\ user.pc = "filled" => Begun(outBuffer, out.write, sent + 1, user.size, Extent(user.size))
SenderShips ==
  /\ sender.pc \in {"size", "ship"} => out.start < out.end /\ out.start <= sender.at
  /\ sender.pc = "size" => sender.at = out.start
  /\ sender.pc = "ship" =>
       /\ sender.left \in 0 .. Extent(outBuffer[out.start].size)
       /\ sender.at + sender.left = out.start + Extent(outBuffer[out.start].size)
OutInv ==
  /\ OutTypes /\ SenderShips
  /\ Writing => OutStored(out, outBuffer, sent) /\ UserFills
  /\ ~Writing /\ sender.pc # "ended" =>
       /\ out.end \in 0 .. OutSize /\ out.start \in 0 .. out.end
       /\ Framed(outBuffer, out.start, out.end, sent)
  /\ ~Writing => out.write = -1
  /\ out.start \in 0 .. OutSize /\ out.end \in -1 .. OutSize

Reading == holder \in {"idle", "holds"}
InTypes ==
  /\ in \in [start : Int, end : Int, write : Int]
  /\ inBuffer \in [-Header .. InSize - 1 -> [id : Nat, size : Nat, at : Nat]]
  /\ reader \in [pc : {"size", "wait", "woken", "store", "receive", "receiving", "spins",
                       "ended"},
                 id : Nat, size : Nat, at : -1 .. InSize, left : Nat]

(* After k chunks were read: the one that comes after those in start ..    *)
(* end, and the next one to be received.                                   *)
AfterEnd(i, f, k) == IF i.start < i.end THEN f[i.end - 1].id + 1 ELSE k + 1
Coming(i, f, k) ==
  IF i.write \notin {0, i.end} THEN f[i.write - 1].id + 1 ELSE AfterEnd(i, f, k)
InStored(i, f, k, m) ==
  /\ Marks(i, InSize)
  /\ Framed(f, i.start, i.end, m)
  /\ i.write # i.end => Framed(f, 0, i.write, m)
  /\ i.start < i.end => f[i.start].id = k + 1
  /\ i.write \notin {0, i.end} => f[0].id = AfterEnd(i, f, k)
Awaited == Coming(in, inBuffer, Len(received))

(* The thread's room is apart from what the user reads.                    *)
Sized == reader.pc \notin {"size", "ended"} \/ (reader.pc = "size" /\ reader.left < Header)
ReaderStores ==
  /\ Sized => reader.id = Awaited /\ reader.id <= sent /\ reader.size \in Sizes
  /\ reader.pc = "size" => reader.left <= Header
  /\ reader.pc \in {"store", "receive", "receiving"} => Fits(in, reader.size, InSize)
  /\ reader.pc = "receive" => Begun(inBuffer, in.write, reader.id, reader.size, Header)
  /\ reader.pc = "receiving" =>
       /\ reader.left <= reader.size
       /\ reader.at + reader.left = in.write + Extent(reader.size)
       /\ Begun(inBuffer, in.write, reader.id, reader.size, Extent(reader.size) - reader.left)
InInv ==
  /\ received \in Seq(Nat)
  /\ holder \in {"idle", "holds", "freeing", "freed"}
  /\ Reading => /\ InTypes /\ ReaderStores
                /\ InStored(in, inBuffer, Len(received), sent)
                /\ holder = "holds" => in.start < in.end
  /\ ~Reading /\ ~FreeMidChunk =>
       /\ InTypes
       /\ in.start \in 0 .. InSize /\ in.end \in 0 .. InSize /\ in.write = -1
       /\ reader.pc \in {"size", "wait", "woken", "ended"}

(* A place in the stream: a chunk, and how far into it; its size counts    *)
(* only once it is begun.                                                  *)
Place(c) == IF c.at = 0 THEN Cell(c.id, 0, 0) ELSE c
After(c) == IF c.at + 1 < Extent(c.size) THEN Cell(c.id, c.size, c.at + 1)
                                         ELSE Cell(c.id + 1, 0, 0)
ToShip(o, f, m) == IF o.start < o.end THEN f[o.start].id ELSE m + 1
SendPlace ==
  IF sender.pc = "ship" /\ sender.left < Extent(outBuffer[out.start].size)
  THEN After(outBuffer[sender.at - 1]) ELSE Cell(ToShip(out, outBuffer, sent), 0, 0)
Taken ==
  CASE reader.pc = "size"      -> Header - reader.left
    [] reader.pc = "receiving" -> Extent(reader.size) - reader.left
    [] OTHER                   -> Header
ReadPlace ==
  IF Taken = 0 THEN Cell(Awaited, 0, 0) ELSE After(Cell(reader.id, reader.size, Taken - 1))

(* What is in flight goes on where the reader is, and the sender goes on   *)
(* where it ends, while there is a sender and a reader.                    *)
Shipping == up /\ sender.pc # "ended" /\ (Writing \/ sender.pc \in {"size", "ship"})
Takes == Reading /\ reader.pc # "ended"
LinkInv ==
  /\ up \in BOOLEAN
  /\ net \in Seq([id : 1 .. sent, size : Sizes, at : Nat])
  /\ \A i \in 1 .. Len(net) : net[i].at < Extent(net[i].size)
  /\ \A i \in 1 .. Len(net) - 1 : Place(net[i + 1]) = After(net[i])
  /\ Takes /\ net # <<>> => Place(net[1]) = ReadPlace
  /\ Shipping /\ net # <<>> => SendPlace = After(net[Len(net)])
  /\ Shipping /\ Takes /\ net = <<>> => SendPlace = ReadPlace

IInv == OutInv /\ InInv /\ LinkInv

(* A reader that went to the front and waits there did so for the chunk it *)
(* waits with; only then is there anything behind a write of 0.            *)
WaitsAtFront ==
  Reading =>
    /\ reader.pc = "size" /\ in.write = 0 => in.end = 0
    /\ reader.pc \in {"wait", "woken"} /\ in.write = 0 /\ in.end > 0 =>
         in.end + Extent(reader.size) > InSize
RoomInv == WaitsAtFront /\ OnlyLargeStranded
=============================================================================
