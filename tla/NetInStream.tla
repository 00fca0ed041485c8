----------------------------- MODULE NetInStream ----------------------------
(***************************************************************************)
(* netInStream.c: a thread receives chunks into a circular buffer, and the *)
(* user reads them in place between netInStreamRead and                    *)
(* netInStreamDoneRead.                                                    *)
(*                                                                         *)
(* What can be read lies in start .. end; once the thread has wrapped,     *)
(* what it has received since lies in 0 .. write, and the user follows     *)
(* when it has read up to end.  What happens while r_mutex is held is one  *)
(* action.                                                                 *)
(***************************************************************************)
EXTENDS NetLink

CONSTANTS
  InSize,    (* nBuffSize of the netInStream *)
  FreeMidChunk (* bound: whether it is freed while a chunk is being stored *)

ASSUME InAssumption ==
  InSize \in Nat /\ InSize > Header /\ FreeMidChunk \in BOOLEAN

VARIABLES
  in,        (* nBuffStart, nBuffEnd and nBuffWrite *)
  inBuffer,  (* r_buffer, and the cells before it *)
  reader,    (* the thread: where it is, the size it was sent (and of which
                chunk), where it stores, what is left *)
  holder,    (* the user's thread *)
  received   (* the chunks it has read *)

inVars == <<in, inBuffer, reader, holder, received>>

Waiting == [pc |-> "size", id |-> 0, size |-> 0, at |-> 0, left |-> Header]

InInit ==
  /\ in = [start |-> 0, end |-> 0, write |-> 0]
  /\ inBuffer = [i \in -Header .. InSize - 1 |-> Junk]
  /\ reader = Waiting
  /\ holder = "idle"
  /\ received = <<>>

-----------------------------------------------------------------------------
(* The thread, netInStreamReader.                                          *)

(* The size of the next chunk.                                             *)
GetsSize ==
  /\ reader.pc = "size" /\ reader.left > 0
  /\ ReadCell
  /\ reader' = [reader EXCEPT !.left = @ - 1, !.id = Head(net).id, !.size = Head(net).size]
  /\ UNCHANGED <<in, inBuffer, holder, received, up>>

(* Whether there is no room yet for a chunk of n, and whether to wrap for  *)
(* it.                                                                     *)
InBlocked(i, n) ==
  \/ i.write < i.end /\ i.write + n + Header >= i.start
  \/ i.write = i.end /\ i.write + n + Header > InSize

InWrapped(i, n) ==
  IF i.write = i.end /\ i.write + n + Header > InSize THEN [i EXCEPT !.write = 0] ELSE i

(* A chunk larger than the buffer is wrapped for ever, the mutex held.     *)
FindsRoom ==
  /\ \/ reader.pc = "size" /\ reader.left = 0
     \/ reader.pc = "woken"
  /\ LET i == InWrapped(in, reader.size)
     IN  CASE in.write = -1 ->
                UNCHANGED in /\ reader' = [reader EXCEPT !.pc = "ended"]
           [] in.write # -1 /\ i.write = i.end /\ InBlocked(i, reader.size) ->
                in' = i /\ reader' = [reader EXCEPT !.pc = "spins"]
           [] in.write # -1 /\ i.write # i.end /\ InBlocked(i, reader.size) ->
                in' = i /\ reader' = [reader EXCEPT !.pc = "wait"]
           [] OTHER ->
                in' = i /\ reader' = [reader EXCEPT !.pc = "store"]
  /\ UNCHANGED <<inBuffer, holder, received, net, up>>

(* The size is stored where nBuffWrite points, outside the mutex.          *)
StoresSize ==
  /\ reader.pc = "store"
  /\ inBuffer' = [i \in DOMAIN inBuffer |->
       IF i \in in.write .. in.write + Header - 1
       THEN Cell(reader.id, reader.size, i - in.write) ELSE inBuffer[i]]
  /\ reader' = [reader EXCEPT !.pc = "receive"]
  /\ UNCHANGED <<in, holder, received, net, up>>

(* The data, to where nBuffWrite points when netClientGetBinary is called. *)
Receives ==
  /\ reader.pc = "receive"
  /\ reader' = [reader EXCEPT !.pc = "receiving", !.at = in.write + Header, !.left = reader.size]
  /\ UNCHANGED <<in, inBuffer, holder, received, net, up>>

GetsData ==
  /\ reader.pc = "receiving" /\ reader.left > 0
  /\ ReadCell
  /\ inBuffer' = [inBuffer EXCEPT ![reader.at] = Head(net)]
  /\ reader' = [reader EXCEPT !.at = @ + 1, !.left = @ - 1]
  /\ UNCHANGED <<in, holder, received, up>>

(* Nothing more comes in the middle of a size or of the data.              *)
Whole == IF reader.pc = "size" THEN Header ELSE reader.size

GetsNoMore ==
  /\ reader.pc \in {"size", "receiving"} /\ reader.left \in 1 .. Whole - 1
  /\ GetRaises
  /\ reader' = [reader EXCEPT !.pc = "ended"]
  /\ UNCHANGED <<in, inBuffer, holder, received, up>>

Stored(i, n) ==
  [i EXCEPT !.end = IF @ = i.write THEN @ + n + Header ELSE @, !.write = @ + n + Header]

(* nBuffWrite moves on whatever it is by now: a -1 is lost.                *)
Stores ==
  /\ reader.pc = "receiving" /\ reader.left = 0
  /\ in' = Stored(in, reader.size)
  /\ reader' = Waiting
  /\ UNCHANGED <<inBuffer, holder, received, net, up>>

Reader == GetsSize \/ FindsRoom \/ StoresSize \/ Receives \/ GetsData \/ GetsNoMore \/ Stores

-----------------------------------------------------------------------------
(* The user.  Nobody takes r_mutex from a thread that spins with it.       *)

(* Mistake: the user goes to the front before it has read up to the end.   *)
Caught_Early(i) ==
  IF i.write < i.end THEN [i EXCEPT !.start = 0, !.end = i.write] ELSE i

(* The user follows the thread to the front of the buffer.                 *)
Caught(i) ==
  IF i.start = i.end /\ i.write < i.end
  THEN [i EXCEPT !.start = 0, !.end = i.write] ELSE i

(* netInStreamRead: NULL unless there is a chunk.                          *)
Read ==
  /\ holder \in {"idle", "holds"} /\ reader.pc # "spins"
  /\ in' = Caught(in)
  /\ holder' = IF in'.start < in'.end THEN "holds" ELSE "idle"
  /\ UNCHANGED <<inBuffer, reader, received, net, up>>

(* Mistake: nobody signals r_cond.                                         *)
ReaderWoken_Never == reader

ReaderWoken == IF reader.pc = "wait" THEN [reader EXCEPT !.pc = "woken"] ELSE reader

(* netInStreamDoneRead: the chunk was there to be read until now.  Torn is *)
(* what the user makes of one that was overwritten.                        *)
Torn == 0
Held ==
  LET c == inBuffer[in.start]
      whole == \A q \in 0 .. Extent(c.size) - 1 :
                 /\ in.start + q \in DOMAIN inBuffer
                 /\ inBuffer[in.start + q] = Cell(c.id, c.size, q)
  IN  IF whole THEN c.id ELSE Torn

DoneRead ==
  /\ holder = "holds" /\ reader.pc # "spins"
  /\ received' = Append(received, Held)
  /\ in' = [in EXCEPT !.start = @ + Header + inBuffer[in.start].size]
  /\ reader' = ReaderWoken
  /\ holder' = "idle"
  /\ UNCHANGED <<inBuffer, net, up>>

(* netInStreamOnFree: nothing keeps it from a chunk that is being stored,  *)
(* whose end then lands before the buffer and whose thread goes on.        *)
InFree ==
  /\ holder \in {"idle", "holds"} /\ reader.pc # "spins"
  /\ FreeMidChunk \/ reader.pc \notin {"store", "receive", "receiving"}
  /\ in' = [in EXCEPT !.write = -1]
  /\ reader' = ReaderWoken
  /\ holder' = "freeing"
  /\ UNCHANGED <<inBuffer, received, net, up>>

InFreed ==
  /\ holder = "freeing" /\ reader.pc = "ended"
  /\ holder' = "freed"
  /\ UNCHANGED <<in, inBuffer, reader, received, net, up>>

(* pthread_cond_wait may return without a signal.                          *)
InSpurious ==
  /\ reader.pc = "wait"
  /\ reader' = [reader EXCEPT !.pc = "woken"]
  /\ UNCHANGED <<in, inBuffer, holder, received, net, up>>

Holder == Read \/ DoneRead \/ InFree \/ InFreed
=============================================================================
