---------------------------- MODULE FieldServer -----------------------------
(***************************************************************************)
(* field_server.c: fields and messages that a Jitter client sends, handed  *)
(* from the connection thread that receives them to the main thread that   *)
(* draws them.                                                             *)
(*                                                                         *)
(* A field crosses in a double buffer: the connection thread fills fld_net *)
(* outside the mutex and sets needSwap; the main thread uses fld_net       *)
(* between fieldServerLock and fieldServerUnlock, which swaps.  Messages   *)
(* cross in the ring msg_loop, filled outside the mutex too.               *)
(*                                                                         *)
(* The server is created with NETS_SINGLE_CLIENT: one connection thread at *)
(* a time.  What happens between taking and releasing mtx (or waiting on a *)
(* condition) is one action.                                               *)
(***************************************************************************)
EXTENDS Integers

CONSTANTS
  RingSize,      (* slots of msg_loop: 8 *)
  MaxFrames,     (* bound: whole fields a server receives *)
  MaxMessages,   (* bound: messages a server receives *)
  MaxTimeouts    (* bound: reads that time out before the first byte *)

ASSUME RingSizeAssumption == RingSize \in Nat /\ RingSize >= 3
ASSUME BoundsAssumption ==
  MaxFrames \in Nat /\ MaxMessages \in Nat /\ MaxTimeouts \in Nat

VARIABLES
  needSwap,                   (* -1: nothing yet, 1: fld_net is full, 0: swapped *)
  fld_net,                    (* which of the two buffers it is *)
  content,                    (* the field in each buffer *)
  curReadMsg, curWriteMsg,    (* main's place in the ring, the connection's *)
  msg_loop,                   (* the message in each slot *)
  server,                     (* whether r->server is set *)
  conn,                       (* where the connection thread is *)
  main,                       (* where the main thread is *)
  held, heldMsg,              (* the buffer and the slot the main thread reads *)
  shown, read,                (* the last field and message it was handed *)
  frames, messages, timeouts  (* received so far, and reads timed out *)

swap == <<needSwap, fld_net>>
ring == <<curReadMsg, curWriteMsg>>
using == <<held, heldMsg, shown, read>>
counts == <<frames, messages, timeouts>>
vars == <<swap, content, ring, msg_loop, server, conn, main, using, counts>>

Buffers == {0, 1}
Slots == 0 .. RingSize - 1
Blank == 0            (* nothing received here yet; fields count from 1 *)
Torn == -1            (* a read that failed half-way *)
Nothing == -1         (* no buffer, no slot *)

Fresh ==
  /\ needSwap = -1 /\ fld_net = 0 /\ content = [b \in Buffers |-> Blank]
  /\ curReadMsg = 0 /\ curWriteMsg = 0 /\ msg_loop = [s \in Slots |-> Blank]
  /\ server = FALSE /\ conn = "none"
  /\ held = Nothing /\ heldMsg = Nothing /\ shown = Blank /\ read = Blank
  /\ frames = 0 /\ messages = 0 /\ timeouts = 0

Init == Fresh /\ main = "none"

-----------------------------------------------------------------------------
(* The main thread: creation and destruction.                              *)

(* netServerCreate starts the listening thread; what it returns is stored  *)
(* in r->server only afterwards.                                           *)
Create ==
  /\ main = "none"
  /\ main' = "creating"
  /\ UNCHANGED <<swap, content, ring, msg_loop, server, conn, using, counts>>

Created ==
  /\ main = "creating"
  /\ server' = TRUE /\ main' = "idle"
  /\ UNCHANGED <<swap, content, ring, msg_loop, conn, using, counts>>

(* pthread_cond_signal on cnd, on cndMsg, or on both.                      *)
Woken(c, conds) ==
  CASE c = "wait" /\ "cnd" \in conds       -> "woken"
    [] c = "waitMsg" /\ "cndMsg" \in conds -> "wokenMsg"
    [] OTHER                               -> c

(* fieldServerFree up to the call that frees the netServer.                *)
Free ==
  /\ main \in {"idle", "messages"}
  /\ server' = FALSE
  /\ conn' = Woken(conn, {"cnd", "cndMsg"})
  /\ main' = "freeing"
  /\ UNCHANGED <<swap, content, ring, msg_loop, using, counts>>

(* netServerFree: the socket is closed and the listening thread joined;    *)
(* then the connection thread is waited for, and everything freed.         *)
CloseListener ==
  /\ main = "freeing"
  /\ main' = "closed"
  /\ UNCHANGED <<swap, content, ring, msg_loop, server, conn, using, counts>>

Freed ==
  /\ main = "closed" /\ conn = "none"
  /\ needSwap' = -1 /\ fld_net' = 0 /\ content' = [b \in Buffers |-> Blank]
  /\ curReadMsg' = 0 /\ curWriteMsg' = 0 /\ msg_loop' = [s \in Slots |-> Blank]
  /\ held' = Nothing /\ heldMsg' = Nothing /\ shown' = Blank /\ read' = Blank
  /\ frames' = 0 /\ messages' = 0 /\ timeouts' = 0
  /\ main' = "none"
  /\ UNCHANGED <<server, conn>>

-----------------------------------------------------------------------------
(* The main thread: a frame, then the messages, and again.                 *)

(* fieldServerLock                                                         *)
Lock ==
  /\ main = "idle"
  /\ IF needSwap = 1 THEN held' = fld_net /\ shown' = content[fld_net]
                     ELSE UNCHANGED <<held, shown>>
  /\ main' = "frame"
  /\ UNCHANGED <<swap, content, ring, msg_loop, server, conn, heldMsg, read, counts>>

(* Mistakes: the buffers are swapped and needSwap stays, or nobody is told. *)
Unlock_KeepsNeedSwap ==
  /\ main = "frame"
  /\ IF needSwap = 1
     THEN fld_net' = 1 - fld_net /\ conn' = Woken(conn, {"cnd"})
     ELSE UNCHANGED <<fld_net, conn>>
  /\ held' = Nothing
  /\ main' = "messages"
  /\ UNCHANGED <<needSwap, content, ring, msg_loop, server, heldMsg, shown, read, counts>>

Unlock_NoSignal ==
  /\ main = "frame"
  /\ IF needSwap = 1
     THEN fld_net' = 1 - fld_net /\ needSwap' = 0
     ELSE UNCHANGED swap
  /\ held' = Nothing
  /\ main' = "messages"
  /\ UNCHANGED <<content, ring, msg_loop, server, conn, heldMsg, shown, read, counts>>

(* fieldServerUnlock, whatever Lock returned                               *)
Unlock ==
  /\ main = "frame"
  /\ IF needSwap = 1
     THEN /\ fld_net' = 1 - fld_net /\ needSwap' = 0
          /\ conn' = Woken(conn, {"cnd"})
     ELSE UNCHANGED <<swap, conn>>
  /\ held' = Nothing
  /\ main' = "messages"
  /\ UNCHANGED <<content, ring, msg_loop, server, heldMsg, shown, read, counts>>

(* fieldServerNextMessage, and its NULL when there is none                 *)
NextMessage ==
  /\ main = "messages" /\ curReadMsg # curWriteMsg
  /\ heldMsg' = curReadMsg /\ read' = msg_loop[curReadMsg]
  /\ curReadMsg' = (curReadMsg + 1) % RingSize
  /\ conn' = Woken(conn, {"cndMsg"})
  /\ main' = "message"
  /\ UNCHANGED <<swap, content, curWriteMsg, msg_loop, server, held, shown, counts>>

MessageHandled ==
  /\ main = "message"
  /\ heldMsg' = Nothing
  /\ main' = "messages"
  /\ UNCHANGED <<swap, content, ring, msg_loop, server, conn, held, shown, read, counts>>

NoMessage ==
  /\ main = "messages" /\ curReadMsg = curWriteMsg
  /\ main' = "idle"
  /\ UNCHANGED <<swap, content, ring, msg_loop, server, conn, using, counts>>

-----------------------------------------------------------------------------
(* The connection thread: fieldServerOnConnect.  It has returned, and left *)
(* runningThreads at 0, when conn is "none".                               *)

Local == <<swap, content, ring, msg_loop, server, main, using, counts>>
Goes(from, to) == conn = from /\ conn' = to

(* netServerThread accepts one client at a time until the socket closes.   *)
Accept ==
  /\ main \notin {"none", "closed"}
  /\ Goes("none", "packet") /\ UNCHANGED Local

(* The next header: a matrix with its description, a message, or anything  *)
(* that ends the connection (another packet, the peer gone, a network      *)
(* error, a description without sense).                                    *)
ReadMatrix  == frames < MaxFrames /\ Goes("packet", "matrix") /\ UNCHANGED Local
ReadMessage == messages < MaxMessages /\ Goes("packet", "message") /\ UNCHANGED Local
Hangs ==
  /\ conn \in {"packet", "fill"}
  /\ conn' = "none"
  /\ UNCHANGED Local

(* Mistake: the buffer is filled while the main thread may use it.         *)
AwaitSwap_NoWait ==
  /\ conn = "matrix"
  /\ conn' = "fill"
  /\ UNCHANGED Local

(* The buffer is free once the main thread has swapped it away.  That the  *)
(* server goes down is only noticed after a wait.                          *)
AwaitSwap ==
  /\ conn = "matrix"
  /\ conn' = IF needSwap = 1 THEN "wait" ELSE "fill"
  /\ UNCHANGED Local
AwaitSwapAgain ==
  /\ conn = "woken"
  /\ conn' = IF ~server THEN "none" ELSE IF needSwap = 1 THEN "wait" ELSE "fill"
  /\ UNCHANGED Local

(* x_pthread_cond_wait may return without a signal.                        *)
WakesUp == conn \in {"wait", "waitMsg"} /\ conn' = Woken(conn, {"cnd", "cndMsg"})
           /\ UNCHANGED Local

Filled(field, next) ==
  /\ content' = [content EXCEPT ![fld_net] = field]
  /\ conn' = next
  /\ UNCHANGED <<swap, ring, msg_loop, server, main, using>>

(* netClientGetBinary reads the field into fld_net, fails half-way and     *)
(* raises, or returns 0 with nothing read, which nobody looks at.          *)
Fill     == conn = "fill" /\ Filled(frames + 1, "publish") /\ frames' = frames + 1
            /\ UNCHANGED <<messages, timeouts>>
FillHalf == conn = "fill" /\ Filled(Torn, "none") /\ UNCHANGED counts
FillNone == conn = "fill" /\ timeouts < MaxTimeouts /\ conn' = "publish"
            /\ timeouts' = timeouts + 1
            /\ UNCHANGED <<swap, content, ring, msg_loop, server, main, using, frames, messages>>

Publish ==
  /\ conn = "publish"
  /\ needSwap' = 1
  /\ conn' = IF server THEN "packet" ELSE "none"
  /\ UNCHANGED <<fld_net, content, ring, msg_loop, server, main, using, counts>>

(* Mistake: the ring is taken for endless.                                 *)
RingFull_Never == FALSE

(* The ring takes a message while it has room for two.                     *)
RingFull == (curWriteMsg + 2) % RingSize = curReadMsg

AwaitSlot ==
  /\ conn = "message"
  /\ conn' = IF RingFull THEN "waitMsg" ELSE "fillMsg"
  /\ UNCHANGED Local
AwaitSlotAgain ==
  /\ conn = "wokenMsg"
  /\ conn' = IF ~server THEN "none" ELSE IF RingFull THEN "waitMsg" ELSE "fillMsg"
  /\ UNCHANGED Local

FilledMsg(msg, next) ==
  /\ msg_loop' = [msg_loop EXCEPT ![curWriteMsg] = msg]
  /\ conn' = next
  /\ UNCHANGED <<swap, content, ring, server, main, using>>

(* fieldMsgReceive reads the message into its slot, raises on the way, or  *)
(* overlooks that nothing came.                                            *)
FillMsg     == conn = "fillMsg" /\ FilledMsg(messages + 1, "publishMsg")
               /\ messages' = messages + 1 /\ UNCHANGED <<frames, timeouts>>
FillMsgHalf == conn = "fillMsg" /\ FilledMsg(Torn, "none") /\ UNCHANGED counts
FillMsgNone == conn = "fillMsg" /\ timeouts < MaxTimeouts /\ conn' = "publishMsg"
               /\ timeouts' = timeouts + 1
               /\ UNCHANGED <<swap, content, ring, msg_loop, server, main, using, frames, messages>>

(* Mistake: the position never wraps.                                      *)
PublishMsg_NoWrap ==
  /\ conn = "publishMsg"
  /\ curWriteMsg' = curWriteMsg + 1
  /\ conn' = "packet"
  /\ UNCHANGED <<swap, content, curReadMsg, msg_loop, server, main, using, counts>>

PublishMsg ==
  /\ conn = "publishMsg"
  /\ curWriteMsg' = (curWriteMsg + 1) % RingSize
  /\ conn' = "packet"
  /\ UNCHANGED <<swap, content, curReadMsg, msg_loop, server, main, using, counts>>

-----------------------------------------------------------------------------
Reads == ReadMatrix \/ ReadMessage \/ Hangs
Receives ==
  \/ AwaitSwap \/ AwaitSwapAgain \/ Fill \/ FillHalf \/ FillNone \/ Publish
  \/ AwaitSlot \/ AwaitSlotAgain \/ FillMsg \/ FillMsgHalf \/ FillMsgNone \/ PublishMsg
Draws == Lock \/ Unlock \/ NextMessage \/ MessageHandled \/ NoMessage
Frees == CloseListener \/ Freed

Next ==
  \/ Create \/ Created \/ Free \/ Frees
  \/ Draws
  \/ Accept \/ Reads \/ Receives \/ WakesUp

Spec == Init /\ [][Next]_vars

(* Every read ends within its ten seconds, so the connection thread goes   *)
(* on; the main thread draws frame after frame, looks at every message,    *)
(* and goes on once it frees the server.  Nobody has to connect, nor to    *)
(* free, and no thread has to wake up without a signal.                    *)
FairSpec ==
  /\ Spec
  /\ WF_vars(Reads) /\ WF_vars(Receives)
  /\ WF_vars(Created) /\ WF_vars(Draws) /\ WF_vars(Frees)

-----------------------------------------------------------------------------
(* needSwap keeps its three meanings and both places in the ring stay      *)
(* inside it.                                                              *)
TypeOK ==
  /\ needSwap \in {-1, 0, 1} /\ fld_net \in Buffers
  /\ content \in [Buffers -> Nat \cup {Torn}]
  /\ curReadMsg \in Slots /\ curWriteMsg \in Slots
  /\ msg_loop \in [Slots -> Nat \cup {Torn}]
  /\ server \in BOOLEAN
  /\ conn \in {"none", "packet", "matrix", "wait", "woken", "fill", "publish",
               "message", "waitMsg", "wokenMsg", "fillMsg", "publishMsg"}
  /\ main \in {"none", "creating", "idle", "frame", "messages", "message",
              "freeing", "closed"}
  /\ held \in Buffers \cup {Nothing} /\ heldMsg \in Slots \cup {Nothing}
  /\ shown \in Nat \cup {Torn} /\ read \in Nat \cup {Torn}
  /\ frames \in Nat /\ messages \in Nat /\ timeouts \in Nat

(* The connection thread never fills, outside the mutex, the buffer or the *)
(* slot the main thread is reading, outside the mutex.                     *)
NotWhileRead ==
  /\ conn = "fill" => held # fld_net
  /\ conn = "fillMsg" => heldMsg # curWriteMsg

(* fieldServerLock hands over a field only when it is newer than the last; *)
(* a torn or a blank one never is.                                         *)
HandsNewField == Lock /\ needSwap = 1 => shown' > shown
(* While no read has timed out, the main thread is handed whole fields,    *)
(* each newer than the last.                                               *)
FieldsAdvance == [][timeouts = 0 => HandsNewField]_vars
(* While no read has timed out, fieldServerNextMessage returns every        *)
(* message, once, in the order they came in.                               *)
MessagesInOrder == [][timeouts = 0 /\ NextMessage => read' = read + 1]_vars

(* net.h: netClientGetBinary waits until the entire buffer is filled.      *)
FieldsAreReceived == [][HandsNewField]_vars

(* A connection that waits for a buffer or a slot gets on while the main   *)
(* thread draws.                                                           *)
NotStuck ==
  server /\ conn \in {"wait", "waitMsg"} ~> (~server \/ conn \in {"fill", "fillMsg"})

(* fieldServerFree returns.                                                *)
FreeReturns == main = "freeing" ~> main = "none"

-----------------------------------------------------------------------------
(* Why the safety properties hold from step to step.                       *)

(* The connection thread owns fld_net until it sets needSwap, and the main *)
(* thread from then on until it swaps.                                     *)
BufferOwned ==
  /\ conn \in {"fill", "publish"} => needSwap # 1
  /\ held # Nothing => held = fld_net /\ needSwap = 1 /\ main = "frame"

(* Slots from p to q, going round the ring: the messages waiting in it     *)
(* leave two slots, for the one being read and the one being filled.       *)
Ahead(p, q) == (q - p) % RingSize
Waiting == Ahead(curReadMsg, curWriteMsg)
SlotsApart ==
  /\ Waiting <= RingSize - 2
  /\ conn \in {"fillMsg", "publishMsg"} => Waiting <= RingSize - 3
  /\ heldMsg # Nothing => Ahead(heldMsg, curReadMsg) = 1

(* A field that is published, or about to be, is the newest received.      *)
NewestPublished ==
  timeouts = 0 =>
    /\ shown \in Nat /\ shown <= frames
    /\ conn = "publish" => content[fld_net] = frames /\ shown < frames
    /\ needSwap = 1 => /\ content[fld_net] = frames
                       /\ held = Nothing => shown < frames

(* The messages in the ring are those received after the last one read.    *)
MessagesWaiting ==
  timeouts = 0 =>
    /\ read \in Nat
    /\ \A s \in Slots : Ahead(curReadMsg, s) < Waiting =>
                           msg_loop[s] = read + 1 + Ahead(curReadMsg, s)
    /\ messages = read + Waiting + (IF conn = "publishMsg" THEN 1 ELSE 0)
    /\ conn = "publishMsg" => msg_loop[curWriteMsg] = messages

IInv == TypeOK /\ BufferOwned /\ SlotsApart /\ NewestPublished /\ MessagesWaiting
=============================================================================
