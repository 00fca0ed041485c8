---------------------------- MODULE FieldClient -----------------------------
(***************************************************************************)
(* field_client.c: fields and messages sent to a Jitter server by a thread *)
(* of their own, which connects again after every failure.                 *)
(*                                                                         *)
(* allSent tells who may touch fld_sending: 0 the application, 1 a field   *)
(* is ready, 2 the thread; -1 asks the thread to end, and from 10 on it    *)
(* counts the calls made while there is no connection, so that every so    *)
(* many of them the thread tries again.  What happens between taking mtx   *)
(* and releasing it or waiting is one action; fieldClientLock returns with *)
(* mtx held.                                                               *)
(*                                                                         *)
(* The application is the main loop of fluid_server.c: it sends whole      *)
(* fields (the density) or locks, draws and unlocks (the velocity), and    *)
(* replaces a client by freeing it and creating another.                   *)
(***************************************************************************)
EXTENDS Integers, Sequences

CONSTANTS
  SendLimit,     (* fieldClientSend tries again when allSent reaches it: 100 *)
  LockLimit,     (* fieldClientLock tries again from here on, 5000, *)
  LockSpread,    (* or at one of this many values: 1000 *)
  QueueSize,     (* slots of m_messages: 64 *)
  Warmup,        (* fields sent before the latency is asked for: 3 *)
  MaxFields,     (* bound: fields handed over to one client *)
  MaxMessages    (* bound: messages given to one client *)

ASSUME ClientAssumption ==
  /\ SendLimit \in Nat /\ SendLimit > 11 /\ LockLimit \in Nat /\ LockLimit > 11
  /\ LockSpread \in Nat \ {0} /\ QueueSize \in Nat \ {0} /\ Warmup \in Nat
  /\ MaxFields \in Nat /\ MaxMessages \in Nat

VARIABLES
  caller,        (* how the application hands fields over: "send" or "lock" *)
  allSent,
  mtx,           (* who holds mtx across several steps *)
  msgMutex,      (* who holds m_msgMutex across several steps *)
  client,        (* whether there is a connection *)
  fld_sending,   (* the field in it; fields count from 1 *)
  messages,      (* m_messages[0 .. m_nMessages - 1]; messages count from 1 *)
  sender,        (* the thread: where it is, fields sent, message, and field *)
                 (* it has built the header of                              *)
  main,          (* where the application is *)
  delegate,      (* whether fc->d is set *)
  told,          (* the state the delegate was told: connected or not *)
  given,         (* fields and messages given to the client so far *)
  peer           (* the last field and message that reached the server *)

shared == <<allSent, client, fld_sending, messages>>
locks == <<mtx, msgMutex>>
callbacks == <<delegate, told>>
vars == <<caller, shared, locks, sender, main, callbacks, given, peer>>

NewSender == [pc |-> "connect", count |-> 0, next |-> 1, field |-> 0]

Init ==
  /\ caller \in {"send", "lock"} /\ main = "created"
  /\ allSent = 10 /\ client = FALSE /\ fld_sending = 0 /\ messages = <<>>
  /\ mtx = "free" /\ msgMutex = "free" /\ sender = NewSender
  /\ delegate = FALSE /\ told = FALSE
  /\ given = [fields |-> 0, messages |-> 0]
  /\ peer = [field |-> 0, message |-> 0]

-----------------------------------------------------------------------------
(* The thread, fieldClientThread.                                          *)

At(pc) == sender.pc = pc
Goes(pc) == sender' = [sender EXCEPT !.pc = pc]

(* netClientCreate                                                         *)
Connects ==
  /\ At("connect")
  /\ client' = TRUE /\ Goes("connected")
  /\ UNCHANGED <<caller, allSent, fld_sending, messages, locks, main, callbacks, given, peer>>

ConnectRaises ==
  /\ At("connect")
  /\ Goes("refused")
  /\ UNCHANGED <<caller, shared, locks, main, callbacks, given, peer>>

(* Whatever allSent was is lost, a request to end too.                     *)
Connected ==
  /\ At("connected") /\ mtx = "free"
  /\ allSent' = 2 /\ Goes("greet")
  /\ UNCHANGED <<caller, client, fld_sending, messages, locks, main, callbacks, given, peer>>

(* Nothing is looked at before the thread sleeps.                          *)
Sleeps ==
  /\ At("refused") /\ mtx = "free"
  /\ Goes("retryWait")
  /\ UNCHANGED <<caller, shared, locks, main, callbacks, given, peer>>

(* It ends without releasing mtx.                                          *)
RetryWakes ==
  /\ At("retryWoken") /\ mtx = "free"
  /\ IF allSent = -1 THEN mtx' = "sender" /\ Goes("ended")
                     ELSE UNCHANGED mtx /\ Goes("connect")
  /\ UNCHANGED <<caller, shared, msgMutex, main, callbacks, given, peer>>

(* onClientConnect: fluidServerSendMessage notes it.                       *)
Greets ==
  /\ At("greet") /\ mtx = "free"
  /\ told' = IF delegate THEN TRUE ELSE told
  /\ sender' = [sender EXCEPT !.pc = "restart", !.count = 0]
  /\ UNCHANGED <<caller, shared, locks, main, delegate, given, peer>>

Ends == client' = FALSE /\ Goes("ended") /\ UNCHANGED allSent

Restarts ==
  /\ At("restart") /\ mtx = "free"
  /\ IF allSent = -1 THEN Ends
     ELSE allSent' = 0 /\ Goes("wait") /\ UNCHANGED client
  /\ UNCHANGED <<caller, fld_sending, messages, locks, main, callbacks, given, peer>>

Wakes ==
  /\ At("woken") /\ mtx = "free"
  /\ CASE allSent = -1 -> Ends
       [] allSent = 1  -> allSent' = 2 /\ Goes("messages") /\ UNCHANGED client
       [] OTHER        -> Goes("restart") /\ UNCHANGED <<allSent, client>>
  /\ UNCHANGED <<caller, fld_sending, messages, locks, main, callbacks, given, peer>>

TakesMessages ==
  /\ At("messages") /\ msgMutex = "free"
  /\ msgMutex' = "sender"
  /\ sender' = [sender EXCEPT !.pc = "message", !.next = 1]
  /\ UNCHANGED <<caller, shared, mtx, main, callbacks, given, peer>>

(* fieldMsgSend, and the message is released.                              *)
SendsMessage ==
  /\ At("message") /\ sender.next <= Len(messages)
  /\ peer' = [peer EXCEPT !.message = messages[sender.next]]
  /\ sender' = [sender EXCEPT !.next = @ + 1]
  /\ UNCHANGED <<caller, shared, locks, main, callbacks, given>>

(* m_msgMutex stays locked, and the messages already released listed.      *)
MessageRaises ==
  /\ At("message") /\ sender.next <= Len(messages)
  /\ Goes("catch")
  /\ UNCHANGED <<caller, shared, locks, main, callbacks, given, peer>>

MessagesSent ==
  /\ At("message") /\ sender.next > Len(messages)
  /\ messages' = <<>> /\ msgMutex' = "free" /\ Goes("field")
  /\ UNCHANGED <<caller, allSent, client, fld_sending, mtx, main, callbacks, given, peer>>

(* The header describes the field,                                         *)
BuildsHeader ==
  /\ At("field")
  /\ sender' = [sender EXCEPT !.pc = "sending", !.field = fld_sending]
  /\ UNCHANGED <<caller, shared, locks, main, callbacks, given, peer>>

(* and the header, the matrix and the data are sent, all without a mutex.  *)
SendsField ==
  /\ At("sending")
  /\ peer' = [peer EXCEPT !.field = fld_sending]
  /\ sender' = IF sender.count < Warmup
               THEN [sender EXCEPT !.pc = "restart", !.count = @ + 1]
               ELSE [sender EXCEPT !.pc = "latency"]
  /\ UNCHANGED <<caller, shared, locks, main, callbacks, given>>

(* netClientGetBinary waits ten seconds; what it got is printed at most.   *)
HearsLatency ==
  /\ At("latency")
  /\ Goes("restart")
  /\ UNCHANGED <<caller, shared, locks, main, callbacks, given, peer>>

Raises ==
  /\ At("sending") \/ At("latency")
  /\ Goes("catch")
  /\ UNCHANGED <<caller, shared, locks, main, callbacks, given, peer>>

(* x_catch: again a request to end is lost.                                *)
Catches ==
  /\ At("catch") /\ mtx = "free"
  /\ client' = FALSE /\ allSent' = 11
  /\ told' = IF delegate THEN FALSE ELSE told
  /\ Goes("connect")
  /\ UNCHANGED <<caller, fld_sending, messages, locks, main, delegate, given, peer>>

Sender ==
  \/ Connects \/ ConnectRaises \/ Connected \/ Sleeps \/ RetryWakes \/ Greets
  \/ Restarts \/ Wakes \/ TakesMessages \/ SendsMessage \/ MessageRaises
  \/ MessagesSent \/ BuildsHeader \/ SendsField \/ HearsLatency \/ Raises \/ Catches

-----------------------------------------------------------------------------
(* The application.                                                        *)

(* pthread_cond_signal on cnd; the wait may also return without one.       *)
Signalled ==
  CASE At("wait")      -> [sender EXCEPT !.pc = "woken"]
    [] At("retryWait") -> [sender EXCEPT !.pc = "retryWoken"]
    [] OTHER           -> sender

Spurious ==
  /\ At("wait") \/ At("retryWait")
  /\ sender' = Signalled
  /\ UNCHANGED <<caller, shared, locks, main, callbacks, given, peer>>

SetDelegate ==
  /\ main = "created" /\ mtx = "free"
  /\ delegate' = TRUE /\ main' = "idle"
  /\ UNCHANGED <<caller, shared, locks, sender, told, given, peer>>

(* Mistake: the thread is not told that it is time.                        *)
CountsCall_NoSignal(enough) ==
  /\ allSent >= 10
  /\ allSent' = IF enough THEN 10 ELSE allSent + 1
  /\ UNCHANGED sender

(* One more call without a connection; enough is when the thread is told.  *)
CountsCall(enough) ==
  /\ allSent >= 10
  /\ IF enough THEN allSent' = 10 /\ sender' = Signalled
               ELSE allSent' = allSent + 1 /\ UNCHANGED sender

(* Mistake: the thread is not told.                                        *)
HandsOver_NoSignal == allSent' = 1 /\ UNCHANGED sender

(* A field is ready.                                                       *)
HandsOver == allSent' = 1 /\ sender' = Signalled

Draws ==
  /\ given.fields < MaxFields
  /\ fld_sending' = given.fields + 1
  /\ given' = [given EXCEPT !.fields = @ + 1]

(* Mistake: a field is copied although the thread may be sending.          *)
Send_AnyTime ==
  /\ caller = "send" /\ main = "idle" /\ mtx = "free"
  /\ \/ CountsCall(allSent + 1 = SendLimit) /\ UNCHANGED <<fld_sending, given>>
     \/ allSent \in {0, 1, 2} /\ Draws /\ HandsOver
  /\ UNCHANGED <<caller, client, messages, locks, main, callbacks, peer>>

(* fieldClientSend: a field that comes too soon is dropped.                *)
Send ==
  /\ caller = "send" /\ main = "idle" /\ mtx = "free"
  /\ \/ CountsCall(allSent + 1 = SendLimit) /\ UNCHANGED <<fld_sending, given>>
     \/ allSent = 0 /\ Draws /\ HandsOver
  /\ UNCHANGED <<caller, client, messages, locks, main, callbacks, peer>>

(* fieldClientLock: NULL unless allSent is 0.                              *)
Lock ==
  /\ caller = "lock" /\ main = "idle" /\ mtx = "free"
  /\ \/ /\ \E r \in 0 .. LockSpread - 1 : CountsCall(allSent + 1 >= LockLimit + r)
        /\ UNCHANGED <<mtx, main>>
     \/ /\ allSent = 0 /\ given.fields < MaxFields
        /\ mtx' = "main" /\ main' = "locked"
        /\ UNCHANGED <<allSent, sender>>
  /\ UNCHANGED <<caller, client, fld_sending, messages, msgMutex, callbacks, given, peer>>

(* fluidVideoVelocityOut and fluidAdvance write the field.                 *)
Draw ==
  /\ main = "locked"
  /\ Draws /\ main' = "drawn"
  /\ UNCHANGED <<caller, allSent, client, messages, locks, sender, callbacks, peer>>

(* Mistake: mtx is not released.                                           *)
Unlock_Held ==
  /\ main = "drawn"
  /\ IF allSent = 0 THEN HandsOver ELSE UNCHANGED <<allSent, sender>>
  /\ main' = "idle"
  /\ UNCHANGED <<caller, client, fld_sending, messages, locks, callbacks, given, peer>>

(* fieldClientUnlock                                                       *)
Unlock ==
  /\ main = "drawn"
  /\ IF allSent = 0 THEN HandsOver ELSE UNCHANGED <<allSent, sender>>
  /\ mtx' = "free" /\ main' = "idle"
  /\ UNCHANGED <<caller, client, fld_sending, messages, msgMutex, callbacks, given, peer>>

(* fieldClientSendMessage: with the list full, the message is dropped.     *)
CallMessage ==
  /\ main = "idle" /\ given.messages < MaxMessages
  /\ main' = "message"
  /\ UNCHANGED <<caller, shared, locks, sender, callbacks, given, peer>>

SendMessage ==
  /\ main = "message" /\ msgMutex = "free"
  /\ messages' = IF Len(messages) < QueueSize
                 THEN Append(messages, given.messages + 1) ELSE messages
  /\ given' = [given EXCEPT !.messages = @ + 1]
  /\ main' = "idle"
  /\ UNCHANGED <<caller, allSent, client, fld_sending, locks, sender, callbacks, peer>>

(* fieldClientOnFree                                                       *)
Free ==
  /\ main = "idle" /\ mtx = "free"
  /\ allSent' = -1 /\ sender' = Signalled
  /\ main' = "freeing"
  /\ UNCHANGED <<caller, client, fld_sending, messages, locks, callbacks, given, peer>>

Freed ==
  /\ main = "freeing" /\ At("ended")
  /\ main' = "freed"
  /\ UNCHANGED <<caller, shared, locks, sender, callbacks, given, peer>>

(* fluidServerDensityClient and fluidServerVelocityClient: the next one;   *)
(* its delegate is set when its thread runs already.                       *)
Create ==
  /\ main = "freed"
  /\ main' = "created"
  /\ allSent' = 10 /\ client' = FALSE /\ fld_sending' = 0 /\ messages' = <<>>
  /\ mtx' = "free" /\ msgMutex' = "free" /\ sender' = NewSender
  /\ delegate' = FALSE /\ told' = FALSE
  /\ given' = [fields |-> 0, messages |-> 0]
  /\ peer' = [field |-> 0, message |-> 0]
  /\ UNCHANGED caller

Frame == Send \/ Lock \/ Draw \/ Unlock

Next ==
  \/ Sender \/ Spurious
  \/ Frame \/ SetDelegate \/ CallMessage \/ SendMessage
  \/ Free \/ Freed \/ Create

Spec == Init /\ [][Next]_vars

(* The thread is scheduled, and the application draws frame after frame.   *)
FairSpec ==
  /\ Spec
  /\ WF_vars(Sender) /\ WF_vars(Frame)
  /\ WF_vars(SetDelegate) /\ WF_vars(SendMessage) /\ WF_vars(Freed)

-----------------------------------------------------------------------------
Loop == {"restart", "wait", "woken", "messages", "message", "field", "sending", "latency"}
Sending == {"messages", "message", "field", "sending"}
Connecting == {"connect", "connected", "refused", "retryWait", "retryWoken"}
Places == Loop \cup Connecting \cup {"greet", "catch", "ended"}

TypeOK ==
  /\ caller \in {"send", "lock"}
  /\ allSent \in {-1, 0, 1, 2} \cup 10 .. SendLimit + LockLimit + LockSpread
  /\ (mtx = "main" <=> main \in {"locked", "drawn"}) /\ mtx \in {"free", "main", "sender"}
  /\ (At("message") => msgMutex = "sender") /\ msgMutex \in {"free", "sender"}
  /\ client \in BOOLEAN /\ delegate \in BOOLEAN /\ told \in BOOLEAN
  /\ fld_sending \in 0 .. MaxFields
  /\ Len(messages) <= QueueSize
  /\ sender.pc \in Places
  /\ sender.count \in 0 .. Warmup
  /\ main \in {"created", "idle", "locked", "drawn", "message", "freeing", "freed"}

(* What reaches the server of one client: every field is newer than the    *)
(* last, and the one its header was built for, although it is sent without *)
(* a mutex; and the messages arrive in order, none of them twice           *)
(* (field_client.c 63-144, 311-346, 386-395).                              *)
PeerInOrder ==
  [][main # "freed" =>
       /\ peer'.field # peer.field => /\ peer'.field > peer.field
                                      /\ peer'.field = sender.field
       /\ peer'.message # peer.message => peer'.message > peer.message]_<<peer>>

(* Why the field needs no mutex: what allSent is where the thread is, so   *)
(* that nobody draws once it has been taken; and how old the field is.     *)
FieldOwned ==
  /\ sender.pc \in Connecting => allSent = -1 \/ allSent >= 10
  /\ sender.pc \in Sending \cup {"greet", "latency", "catch"} => allSent \in {2, -1}
  /\ sender.pc \in {"restart", "wait", "woken"} => allSent \in {-1, 0, 1, 2}
  /\ At("ended") => allSent = -1
  /\ main \in {"locked", "drawn"} => allSent = 0
  /\ allSent < IF caller = "send" THEN SendLimit ELSE LockLimit + LockSpread
  /\ At("sending") => sender.field = fld_sending
  /\ fld_sending = given.fields /\ peer.field <= fld_sending

(* The list of messages is in order, and what is not sent of it is newer   *)
(* than what was; with m_msgMutex lost nothing more is sent.               *)
MessagesListed ==
  /\ peer.message <= given.messages
  /\ \A i \in 1 .. Len(messages) : messages[i] <= given.messages
  /\ \A i, j \in 1 .. Len(messages) : i < j => messages[i] < messages[j]
  /\ msgMutex = "free" => \A i \in 1 .. Len(messages) : messages[i] > peer.message
  /\ At("message") => \A i \in sender.next .. Len(messages) : messages[i] > peer.message

Numbered ==
  /\ given \in [fields : Nat, messages : Nat]
  /\ peer \in [field : Nat, message : Nat]
  /\ sender \in [pc : Places, count : 0 .. Warmup, next : Nat \ {0}, field : Nat]
  /\ messages \in Seq(Nat)

(* What a step needs to know of the state it starts from.                  *)
IInv == TypeOK /\ FieldOwned /\ MessagesListed /\ Numbered

(* MessageRaises happened: nobody takes m_msgMutex again.                  *)
MutexLost == msgMutex = "sender" /\ ~At("message")

(* A field that was handed over is sent, unless the connection or an       *)
(* earlier message fails or the client is freed: the signal finds the      *)
(* thread waiting, or on its way to look.  Only when the wait returns by   *)
(* itself is a field lost, on the way back to the wait, at restart         *)
(* (field_client.c 63-92, 343, 391).                                       *)
HandedIsSent ==
  (allSent = 1 /\ ~At("restart")) ~>
    (peer.field = fld_sending \/ ~client \/ MutexLost \/ main \in {"freeing", "freed"})

(* The thread's two waits end.  Without a connection, the calls of the     *)
(* application make it try again; and from its loop fieldClientFree ends   *)
(* it, unless a failure takes it out of the loop first or did so before    *)
(* with m_msgMutex locked (field_client.c 34-43, 63-88, 211, 314-326,      *)
(* 360-372).                                                               *)
WaitsEnd ==
  /\ At("retryWait") ~> (At("connect") \/ MutexLost \/ main \in {"freeing", "freed"})
  /\ (main = "freeing" /\ allSent = -1 /\ sender.pc \in Loop) ~> (main = "freed" \/ At("catch") \/ MutexLost)
=============================================================================
