---------------------------- MODULE NetOutStream ----------------------------
(***************************************************************************)
(* netOutStream.c: chunks wait in a circular buffer for a thread that      *)
(* ships them.  The user reserves room with netOutStreamBuffer, fills it   *)
(* outside the mutex and hands it over with netOutStreamSend.              *)
(*                                                                         *)
(* What is not shipped lies in start .. end; once the user has wrapped to  *)
(* the front of the buffer, what it has handed over since lies in          *)
(* 0 .. write, and the thread follows when it has shipped up to end.       *)
(* What happens while r_mutex is held is one action.                       *)
(***************************************************************************)
EXTENDS NetLink

CONSTANTS
  Sizes,     (* bound: the lengths of chunks *)
  OutSize,   (* nBuffSize of the netOutStream *)
  MaxChunks  (* bound: chunks the user sends *)

ASSUME OutAssumption ==
  /\ Sizes \subseteq Nat \ {0}
  /\ OutSize \in Nat /\ OutSize > Header
  /\ MaxChunks \in Nat

VARIABLES
  out,       (* nBuffStart, nBuffEnd and nBuffWrite *)
  outBuffer, (* r_buffer *)
  sender,    (* the thread: where it is, and what it ships *)
  user,      (* the user's thread: where it is, and what it asks for *)
  sent       (* chunks handed over *)

outVars == <<out, outBuffer, sender, user, sent>>

OutInit ==
  /\ out = [start |-> 0, end |-> 0, write |-> 0]
  /\ outBuffer = [i \in 0 .. OutSize - 1 |-> Junk]
  /\ sender = [pc |-> "begin", at |-> 0, left |-> 0]
  /\ user = [pc |-> "idle", size |-> 0]
  /\ sent = 0

-----------------------------------------------------------------------------
(* The user.                                                               *)

(* netOutStreamBuffer: the room it looks for, and whether to wait for it.  *)

(* Mistake: the end of the buffer is not looked at.                        *)
OutWrapped_Never(o, n) == o

OutWrapped(o, n) ==
  IF o.write = o.end /\ o.end + Extent(n) > OutSize THEN [o EXCEPT !.write = 0] ELSE o

Rewound(o) == IF o.end = o.start THEN [start |-> 0, end |-> 0, write |-> 0] ELSE o

NoRoom(o, n) == o.write + Extent(n) >= o.start /\ (o.start # 0 \/ o.end # 0)

Reserve(o, n) ==
  IF NoRoom(o, n) THEN out' = o /\ user' = [pc |-> "wait", size |-> n]
                  ELSE out' = o /\ user' = [pc |-> "fill", size |-> n]

Buffer ==
  /\ user.pc = "idle" /\ sent < MaxChunks
  /\ \E n \in {s \in Sizes : Extent(s) < OutSize} :
       LET o == OutWrapped(out, n)
       IN  IF o.write = o.end
           THEN out' = o /\ user' = [pc |-> "fill", size |-> n]
           ELSE Reserve(Rewound(o), n)
  /\ UNCHANGED <<outBuffer, sender, sent, net, up>>

BufferWakes ==
  /\ user.pc = "woken"
  /\ Reserve(Rewound(out), user.size)
  /\ UNCHANGED <<outBuffer, sender, sent, net, up>>

(* The size and the data are written outside the mutex.                    *)
Fill ==
  /\ user.pc = "fill"
  /\ outBuffer' = [i \in DOMAIN outBuffer |->
       IF i \in out.write .. out.write + Extent(user.size) - 1
       THEN Cell(sent + 1, user.size, i - out.write) ELSE outBuffer[i]]
  /\ user' = [user EXCEPT !.pc = "filled"]
  /\ UNCHANGED <<out, sender, sent, net, up>>

(* netOutStreamSend                                                        *)
Handed(o, n) ==
  [o EXCEPT !.end = IF @ = o.write THEN @ + Extent(n) ELSE @, !.write = @ + Extent(n)]

SenderWoken == IF sender.pc = "wait" THEN [sender EXCEPT !.pc = "woken"] ELSE sender

Send ==
  /\ user.pc = "filled"
  /\ out' = Handed(out, outBuffer[out.write].size)
  /\ sender' = SenderWoken
  /\ sent' = sent + 1
  /\ user' = [pc |-> "idle", size |-> 0]
  /\ UNCHANGED <<outBuffer, net, up>>

(* netOutStreamOnFree: what was not shipped is dropped.                    *)
OutFree ==
  /\ user.pc = "idle"
  /\ out' = [out EXCEPT !.write = -1]
  /\ sender' = SenderWoken
  /\ user' = [user EXCEPT !.pc = "freeing"]
  /\ UNCHANGED <<outBuffer, sent, net, up>>

OutFreed ==
  /\ user.pc = "freeing" /\ sender.pc = "ended"
  /\ user' = [user EXCEPT !.pc = "freed"]
  /\ UNCHANGED <<out, outBuffer, sender, sent, net, up>>

User == Buffer \/ BufferWakes \/ Fill \/ Send \/ OutFree \/ OutFreed

-----------------------------------------------------------------------------
(* The thread, netOutStreamWriter.                                         *)

(* What it does next, with the mutex held.                                 *)
NextOf(o) ==
  CASE o.write = -1                      -> [sender EXCEPT !.pc = "ended"]
    [] o.write # -1 /\ o.start = o.end   -> [sender EXCEPT !.pc = "wait"]
    [] OTHER                             -> [sender EXCEPT !.pc = "size", !.at = o.start]

Looks ==
  /\ sender.pc \in {"begin", "woken"}
  /\ sender' = NextOf(out)
  /\ UNCHANGED <<out, outBuffer, user, sent, net, up>>

(* The size is read, and the chunk shipped, outside the mutex.             *)
ReadsSize ==
  /\ sender.pc = "size"
  /\ sender' = [sender EXCEPT !.pc = "ship", !.left = Extent(outBuffer[sender.at].size)]
  /\ UNCHANGED <<out, outBuffer, user, sent, net, up>>

Ships ==
  /\ sender.pc = "ship" /\ sender.left > 0
  /\ SendCell(outBuffer[sender.at])
  /\ sender' = [sender EXCEPT !.at = @ + 1, !.left = @ - 1]
  /\ UNCHANGED <<out, outBuffer, user, sent, up>>

(* An exception ends the thread, and nobody hears of it.                   *)
ShipRaises ==
  /\ sender.pc = "ship" /\ sender.left > 0
  /\ SendRaises
  /\ sender' = [sender EXCEPT !.pc = "ended"]
  /\ UNCHANGED <<out, outBuffer, user, sent, up>>

(* The thread follows the user to the front of the buffer.                 *)
Followed(o) ==
  IF o.start = o.end /\ o.write # o.start
  THEN [o EXCEPT !.start = 0, !.end = o.write] ELSE o

UserWoken == IF user.pc = "wait" THEN [user EXCEPT !.pc = "woken"] ELSE user

(* Mistake: the user that waits is not told.                               *)
Shipped_NoSignal ==
  /\ sender.pc = "ship" /\ sender.left = 0
  /\ LET o == Followed([out EXCEPT !.start = sender.at])
     IN  out' = o /\ sender' = NextOf(o)
  /\ UNCHANGED <<user, outBuffer, sent, net, up>>

Shipped ==
  /\ sender.pc = "ship" /\ sender.left = 0
  /\ LET o == Followed([out EXCEPT !.start = sender.at])
     IN  out' = o /\ sender' = NextOf(o)
  /\ user' = UserWoken
  /\ UNCHANGED <<outBuffer, sent, net, up>>

(* pthread_cond_wait may return without a signal.                          *)
OutSpurious ==
  /\ \/ sender.pc = "wait" /\ sender' = [sender EXCEPT !.pc = "woken"] /\ UNCHANGED user
     \/ user.pc = "wait" /\ user' = [user EXCEPT !.pc = "woken"] /\ UNCHANGED sender
  /\ UNCHANGED <<out, outBuffer, sent, net, up>>

Sender == Looks \/ ReadsSize \/ Ships \/ ShipRaises \/ Shipped
=============================================================================
