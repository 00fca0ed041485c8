-------------------------- MODULE FieldClientProofs --------------------------
(***************************************************************************)
(* Proofs about the field client, for every number of fields, messages and *)
(* calls: its types, and that what reaches the server is in order.         *)
(***************************************************************************)
EXTENDS FieldClient, SequenceTheorems, TLAPS

USE ClientAssumption DEF At, shared, locks, callbacks, Loop, Sending, Connecting, Places

(* A new client.                                                           *)
LEMMA InitHolds == Init => IInv
<1> SUFFICES ASSUME Init PROVE IInv OBVIOUS
<1> USE DEF Init, NewSender
<1>1. TypeOK
  <2>1. /\ Len(messages) = 0
        /\ allSent \in {-1, 0, 1, 2} \cup 10 .. SendLimit + LockLimit + LockSpread
        BY SMT
  <2>2. client \in BOOLEAN /\ delegate \in BOOLEAN /\ told \in BOOLEAN BY Zenon
  <2>3. Len(messages) <= QueueSize /\ 0 \in 0 .. MaxFields /\ 0 \in 0 .. Warmup BY <2>1, SMT
  <2> QED BY <2>1, <2>2, <2>3, Zenon DEF TypeOK
<1>2. FieldOwned BY SMT DEF FieldOwned
<1>3. MessagesListed BY SMT DEF MessagesListed
<1>4. Numbered BY SMT DEF Numbered
<1> QED BY <1>1, <1>2, <1>3, <1>4 DEF IInv

-----------------------------------------------------------------------------
(* Where the thread goes, with the rest of its state as it was.            *)
Threads == [pc : Places, count : 0 .. Warmup, next : Nat \ {0}, field : Nat]
Went(p) ==
  /\ sender' \in Threads /\ sender'.pc = p
  /\ sender'.count = sender.count /\ sender'.next = sender.next /\ sender'.field = sender.field
(* What a signal does to where the thread is.                              *)
Woken == IF At("wait") THEN "woken" ELSE IF At("retryWait") THEN "retryWoken" ELSE sender.pc

LEMMA GoesTo ==
  ASSUME Numbered, NEW p \in Places, Goes(p)
  PROVE  Went(p)
  BY Zenon DEF Numbered, Goes, Threads, Went

USE DEF Went, Woken

(* The steps of the thread, one by one.                                    *)
LEMMA ConnectsKeeps ==
  ASSUME IInv, Connects
  PROVE  IInv'
<1> USE DEF IInv, Connects
<1>0. Went("connected")
      BY GoesTo
<1>1. TypeOK'
  <2>1. client' \in BOOLEAN /\ delegate' \in BOOLEAN /\ told' \in BOOLEAN
        BY <1>0, Zenon DEF TypeOK
  <2> QED BY <1>0, <2>1, SMT DEF TypeOK, Numbered
<1>2. FieldOwned' BY <1>0, SMT DEF TypeOK, FieldOwned, Numbered
<1>3. MessagesListed' BY <1>0, SMT DEF TypeOK, MessagesListed, Numbered
<1>4. Numbered' BY <1>0, SMT DEF TypeOK, Numbered, Threads
<1> QED BY <1>1, <1>2, <1>3, <1>4

LEMMA ConnectRaisesKeeps ==
  ASSUME IInv, ConnectRaises
  PROVE  IInv'
<1> USE DEF IInv, ConnectRaises
<1>0. Went("refused")
      BY GoesTo
<1>1. TypeOK'
  <2>1. client' \in BOOLEAN /\ delegate' \in BOOLEAN /\ told' \in BOOLEAN
        BY <1>0, Zenon DEF TypeOK
  <2> QED BY <1>0, <2>1, SMT DEF TypeOK, Numbered
<1>2. FieldOwned' BY <1>0, SMT DEF TypeOK, FieldOwned, Numbered
<1>3. MessagesListed' BY <1>0, SMT DEF TypeOK, MessagesListed, Numbered
<1>4. Numbered' BY <1>0, SMT DEF TypeOK, Numbered, Threads
<1> QED BY <1>1, <1>2, <1>3, <1>4

LEMMA ConnectedKeeps ==
  ASSUME IInv, Connected
  PROVE  IInv'
<1> USE DEF IInv, Connected
<1>0. Went("greet")
      BY GoesTo
<1>1. TypeOK'
  <2>1. client' \in BOOLEAN /\ delegate' \in BOOLEAN /\ told' \in BOOLEAN
        BY <1>0, Zenon DEF TypeOK
  <2> QED BY <1>0, <2>1, SMT DEF TypeOK, Numbered
<1>2. FieldOwned' BY <1>0, SMT DEF TypeOK, FieldOwned, Numbered
<1>3. MessagesListed' BY <1>0, SMT DEF TypeOK, MessagesListed, Numbered
<1>4. Numbered' BY <1>0, SMT DEF TypeOK, Numbered, Threads
<1> QED BY <1>1, <1>2, <1>3, <1>4

LEMMA SleepsKeeps ==
  ASSUME IInv, Sleeps
  PROVE  IInv'
<1> USE DEF IInv, Sleeps
<1>0. Went("retryWait")
      BY GoesTo
<1>1. TypeOK'
  <2>1. client' \in BOOLEAN /\ delegate' \in BOOLEAN /\ told' \in BOOLEAN
        BY <1>0, Zenon DEF TypeOK
  <2> QED BY <1>0, <2>1, SMT DEF TypeOK, Numbered
<1>2. FieldOwned' BY <1>0, SMT DEF TypeOK, FieldOwned, Numbered
<1>3. MessagesListed' BY <1>0, SMT DEF TypeOK, MessagesListed, Numbered
<1>4. Numbered' BY <1>0, SMT DEF TypeOK, Numbered, Threads
<1> QED BY <1>1, <1>2, <1>3, <1>4

LEMMA MessageRaisesKeeps ==
  ASSUME IInv, MessageRaises
  PROVE  IInv'
<1> USE DEF IInv, MessageRaises
<1>0. Went("catch")
      BY GoesTo
<1>1. TypeOK'
  <2>1. client' \in BOOLEAN /\ delegate' \in BOOLEAN /\ told' \in BOOLEAN
        BY <1>0, Zenon DEF TypeOK
  <2> QED BY <1>0, <2>1, SMT DEF TypeOK, Numbered
<1>2. FieldOwned' BY <1>0, SMT DEF TypeOK, FieldOwned, Numbered
<1>3. MessagesListed' BY <1>0, SMT DEF TypeOK, MessagesListed, Numbered
<1>4. Numbered' BY <1>0, SMT DEF TypeOK, Numbered, Threads
<1> QED BY <1>1, <1>2, <1>3, <1>4

LEMMA MessagesSentKeeps ==
  ASSUME IInv, MessagesSent
  PROVE  IInv'
<1> USE DEF IInv, MessagesSent
<1>0. Went("field")
      BY GoesTo
<1>1. TypeOK'
  <2>1. client' \in BOOLEAN /\ delegate' \in BOOLEAN /\ told' \in BOOLEAN
        BY <1>0, Zenon DEF TypeOK
  <2> QED BY <1>0, <2>1, SMT DEF TypeOK, Numbered
<1>2. FieldOwned' BY <1>0, SMT DEF TypeOK, FieldOwned, Numbered
<1>3. MessagesListed' BY <1>0, SMT DEF TypeOK, MessagesListed, Numbered
<1>4. Numbered' BY <1>0, SMT DEF TypeOK, Numbered, Threads
<1> QED BY <1>1, <1>2, <1>3, <1>4

LEMMA HearsLatencyKeeps ==
  ASSUME IInv, HearsLatency
  PROVE  IInv'
<1> USE DEF IInv, HearsLatency
<1>0. Went("restart")
      BY GoesTo
<1>1. TypeOK'
  <2>1. client' \in BOOLEAN /\ delegate' \in BOOLEAN /\ told' \in BOOLEAN
        BY <1>0, Zenon DEF TypeOK
  <2> QED BY <1>0, <2>1, SMT DEF TypeOK, Numbered
<1>2. FieldOwned' BY <1>0, SMT DEF TypeOK, FieldOwned, Numbered
<1>3. MessagesListed' BY <1>0, SMT DEF TypeOK, MessagesListed, Numbered
<1>4. Numbered' BY <1>0, SMT DEF TypeOK, Numbered, Threads
<1> QED BY <1>1, <1>2, <1>3, <1>4

LEMMA RaisesKeeps ==
  ASSUME IInv, Raises
  PROVE  IInv'
<1> USE DEF IInv, Raises
<1>0. Went("catch")
      BY GoesTo
<1>1. TypeOK'
  <2>1. client' \in BOOLEAN /\ delegate' \in BOOLEAN /\ told' \in BOOLEAN
        BY <1>0, Zenon DEF TypeOK
  <2> QED BY <1>0, <2>1, SMT DEF TypeOK, Numbered
<1>2. FieldOwned' BY <1>0, SMT DEF TypeOK, FieldOwned, Numbered
<1>3. MessagesListed' BY <1>0, SMT DEF TypeOK, MessagesListed, Numbered
<1>4. Numbered' BY <1>0, SMT DEF TypeOK, Numbered, Threads
<1> QED BY <1>1, <1>2, <1>3, <1>4

LEMMA CatchesKeeps ==
  ASSUME IInv, Catches
  PROVE  IInv'
<1> USE DEF IInv, Catches
<1>0. Went("connect")
      BY GoesTo
<1>1. TypeOK'
  <2>1. client' \in BOOLEAN /\ delegate' \in BOOLEAN /\ told' \in BOOLEAN
        BY <1>0, Zenon DEF TypeOK
  <2>2. allSent' \in {-1, 0, 1, 2} \cup 10 .. SendLimit + LockLimit + LockSpread BY SMT
  <2>3. sender'.pc \in Places /\ ~At("message")' BY <1>0, SMT
  <2> QED BY <1>0, <2>1, <2>2, <2>3, Zenon DEF TypeOK
<1>2. FieldOwned' BY <1>0, SMT DEF TypeOK, FieldOwned, Numbered
<1>3. MessagesListed' BY <1>0, SMT DEF TypeOK, MessagesListed, Numbered
<1>4. Numbered' BY <1>0, SMT DEF TypeOK, Numbered, Threads
<1> QED BY <1>1, <1>2, <1>3, <1>4

LEMMA RetryWakesKeeps ==
  ASSUME IInv, RetryWakes
  PROVE  IInv'
<1> USE DEF IInv, RetryWakes
<1>0. Went(IF allSent = -1 THEN "ended" ELSE "connect")
      BY GoesTo
<1>1. TypeOK'
  <2>1. client' \in BOOLEAN /\ delegate' \in BOOLEAN /\ told' \in BOOLEAN
        BY <1>0, Zenon DEF TypeOK
  <2> QED BY <1>0, <2>1, SMT DEF TypeOK, Numbered
<1>2. FieldOwned' BY <1>0, SMT DEF TypeOK, FieldOwned, Numbered
<1>3. MessagesListed' BY <1>0, SMT DEF TypeOK, MessagesListed, Numbered
<1>4. Numbered' BY <1>0, SMT DEF TypeOK, Numbered, Threads
<1> QED BY <1>1, <1>2, <1>3, <1>4

LEMMA RestartsKeeps ==
  ASSUME IInv, Restarts
  PROVE  IInv'
<1> USE DEF IInv, Restarts, Ends
<1>0. Went(IF allSent = -1 THEN "ended" ELSE "wait")
      BY GoesTo DEF Ends
<1>1. TypeOK'
  <2>1. client' \in BOOLEAN /\ delegate' \in BOOLEAN /\ told' \in BOOLEAN
        BY <1>0, Zenon DEF TypeOK
  <2> QED BY <1>0, <2>1, SMT DEF TypeOK, Numbered
<1>2. FieldOwned' BY <1>0, SMT DEF TypeOK, FieldOwned, Numbered
<1>3. MessagesListed' BY <1>0, SMT DEF TypeOK, MessagesListed, Numbered
<1>4. Numbered' BY <1>0, SMT DEF TypeOK, Numbered, Threads
<1> QED BY <1>1, <1>2, <1>3, <1>4

LEMMA WakesKeeps ==
  ASSUME IInv, Wakes
  PROVE  IInv'
<1> USE DEF IInv, Wakes, Ends
<1>0. /\ Went(IF allSent = -1 THEN "ended" ELSE IF allSent = 1 THEN "messages" ELSE "restart")
      /\ allSent' = IF allSent = 1 THEN 2 ELSE allSent
  <2>1. CASE allSent = -1 BY <2>1, GoesTo DEF Ends
  <2>2. CASE allSent = 1 BY <2>2, GoesTo
  <2>3. CASE allSent # -1 /\ allSent # 1 BY <2>3, GoesTo
  <2> QED BY <2>1, <2>2, <2>3
<1>1. TypeOK'
  <2>1. client' \in BOOLEAN /\ delegate' \in BOOLEAN /\ told' \in BOOLEAN
        BY <1>0, Zenon DEF TypeOK
  <2> QED BY <1>0, <2>1, SMT DEF TypeOK, Numbered
<1>2. FieldOwned'
  <2>1. /\ allSent \in {-1, 0, 1, 2} /\ main \notin {"locked", "drawn"}
        /\ fld_sending = given.fields /\ peer.field <= fld_sending
        /\ allSent < IF caller = "send" THEN SendLimit ELSE LockLimit + LockSpread
        BY SMT DEF TypeOK, FieldOwned
  <2>2. UNCHANGED <<caller, main, fld_sending, given, peer>> OBVIOUS
  <2> HIDE DEF IInv, Wakes, Ends
  <2> QED BY <1>0, <2>1, <2>2, SMT DEF FieldOwned
<1>3. MessagesListed' BY <1>0, SMT DEF TypeOK, MessagesListed, Numbered
<1>4. Numbered' BY <1>0, SMT DEF TypeOK, Numbered, Threads
<1> QED BY <1>1, <1>2, <1>3, <1>4

LEMMA GreetsKeeps ==
  ASSUME IInv, Greets
  PROVE  IInv'
<1> USE DEF IInv, Greets
<1>9. 0 \in 0 .. Warmup BY SMT DEF TypeOK, Numbered, Threads
<1>0. /\ sender' \in Threads /\ sender'.pc = "restart"
      /\ sender'.count \in 0 .. Warmup /\ sender'.next = sender.next /\ sender'.field = sender.field
      BY <1>9, Zenon DEF Numbered, Threads
<1>1. TypeOK'
  <2>1. client' \in BOOLEAN /\ delegate' \in BOOLEAN /\ told' \in BOOLEAN
        BY <1>0, Zenon DEF TypeOK
  <2>2. sender'.pc \in Places /\ ~At("message")' BY <1>0, SMT
  <2> QED BY <1>0, <2>1, <2>2, Zenon DEF TypeOK
<1>2. FieldOwned' BY <1>0, SMT DEF TypeOK, FieldOwned, Numbered
<1>3. MessagesListed' BY <1>0, SMT DEF TypeOK, MessagesListed, Numbered
<1>4. Numbered' BY <1>0, SMT DEF TypeOK, Numbered, Threads
<1> QED BY <1>1, <1>2, <1>3, <1>4

LEMMA TakesMessagesKeeps ==
  ASSUME IInv, TakesMessages
  PROVE  IInv'
<1> USE DEF IInv, TakesMessages
<1>9. 1 \in Nat \ {0} BY SMT DEF TypeOK, Numbered, Threads
<1>0. /\ sender' \in Threads /\ sender'.pc = "message"
      /\ sender'.count = sender.count /\ sender'.next = 1 /\ sender'.field = sender.field
      BY <1>9, Zenon DEF Numbered, Threads
<1>1. TypeOK'
  <2>1. client' \in BOOLEAN /\ delegate' \in BOOLEAN /\ told' \in BOOLEAN
        BY <1>0, Zenon DEF TypeOK
  <2> QED BY <1>0, <2>1, SMT DEF TypeOK, Numbered
<1>2. FieldOwned' BY <1>0, SMT DEF TypeOK, FieldOwned, Numbered
<1>3. MessagesListed' BY <1>0, SMT DEF TypeOK, MessagesListed, Numbered
<1>4. Numbered' BY <1>0, SMT DEF TypeOK, Numbered, Threads
<1> QED BY <1>1, <1>2, <1>3, <1>4

LEMMA SendsMessageKeeps ==
  ASSUME IInv, SendsMessage
  PROVE  IInv'
<1> USE DEF IInv, SendsMessage
<1>9. /\ sender.next + 1 \in Nat \ {0} /\ sender.next \in 1 .. Len(messages)
      /\ messages[sender.next] \in Nat
  <2>1. sender.next \in Nat \ {0} BY DEF Numbered
  <2>2. Len(messages) \in Nat BY LenProperties DEF Numbered
  <2>3. sender.next + 1 \in Nat \ {0} /\ sender.next \in 1 .. Len(messages) BY <2>1, <2>2, SMT
  <2> QED BY <2>3, ElementOfSeq DEF Numbered
<1>0. /\ sender' \in Threads /\ sender'.pc = "message"
      /\ sender'.count = sender.count /\ sender'.next = sender.next + 1
      /\ sender'.field = sender.field
      /\ sender.next \in 1 .. Len(messages) /\ messages[sender.next] \in Nat
      /\ peer' \in [field : Nat, message : Nat]
      /\ peer'.field = peer.field /\ peer'.message = messages[sender.next]
      BY <1>9, Zenon DEF Numbered, Threads
<1>1. TypeOK'
  <2>1. client' \in BOOLEAN /\ delegate' \in BOOLEAN /\ told' \in BOOLEAN
        BY <1>0, Zenon DEF TypeOK
  <2> QED BY <1>0, <2>1, SMT DEF TypeOK, Numbered
<1>2. FieldOwned'
  <2>1. UNCHANGED <<caller, main, fld_sending, allSent, given>> /\ At("message") OBVIOUS
  <2>2. FieldOwned OBVIOUS
  <2> HIDE DEF IInv, SendsMessage
  <2> QED BY <1>0, <2>1, <2>2, SMT DEF FieldOwned
<1>3. MessagesListed'
  <2>1. /\ UNCHANGED <<messages, given, msgMutex>> /\ msgMutex = "sender"
        /\ MessagesListed /\ Len(messages) \in Nat /\ sender.next \in Nat \ {0}
        BY LenProperties DEF TypeOK, Numbered
  <2>2. messages[sender.next] <= given.messages BY <1>0, <2>1 DEF MessagesListed
  <2>3. ASSUME NEW i \in sender.next + 1 .. Len(messages)
        PROVE  messages[i] > messages[sender.next]
    <3>1. i \in 1 .. Len(messages) /\ sender.next < i BY <2>1, SMT
    <3>2. messages[sender.next] < messages[i] BY <1>0, <2>1, <3>1 DEF MessagesListed
    <3>3. messages[i] \in Nat BY <3>1, ElementOfSeq DEF Numbered
    <3> QED BY <1>0, <3>2, <3>3, SMT
  <2> HIDE DEF IInv, SendsMessage
  <2> QED BY <1>0, <2>1, <2>2, <2>3 DEF MessagesListed
<1>4. Numbered' BY <1>0, SMT DEF TypeOK, Numbered, Threads
<1> QED BY <1>1, <1>2, <1>3, <1>4

LEMMA BuildsHeaderKeeps ==
  ASSUME IInv, BuildsHeader
  PROVE  IInv'
<1> USE DEF IInv, BuildsHeader
<1>9. fld_sending \in Nat BY SMT DEF TypeOK, Numbered, Threads
<1>0. /\ sender' \in Threads /\ sender'.pc = "sending"
      /\ sender'.count = sender.count
      /\ sender'.next = sender.next /\ sender'.field = fld_sending
      BY <1>9, Zenon DEF Numbered, Threads, TypeOK
<1>1. TypeOK'
  <2>1. client' \in BOOLEAN /\ delegate' \in BOOLEAN /\ told' \in BOOLEAN
        BY <1>0, Zenon DEF TypeOK
  <2> QED BY <1>0, <2>1, SMT DEF TypeOK, Numbered
<1>2. FieldOwned' BY <1>0, SMT DEF TypeOK, FieldOwned, Numbered
<1>3. MessagesListed' BY <1>0, SMT DEF TypeOK, MessagesListed, Numbered
<1>4. Numbered' BY <1>0, SMT DEF TypeOK, Numbered, Threads
<1> QED BY <1>1, <1>2, <1>3, <1>4

LEMMA SendsFieldKeeps ==
  ASSUME IInv, SendsField
  PROVE  IInv'
<1> USE DEF IInv, SendsField
<1>9. fld_sending \in Nat /\ (sender.count < Warmup => sender.count + 1 \in 0 .. Warmup)
  <2>1. fld_sending \in 0 .. MaxFields /\ sender.count \in 0 .. Warmup BY Zenon DEF TypeOK
  <2> HIDE DEF IInv, SendsField
  <2> QED BY <2>1, SMT
<1>0. /\ sender' \in Threads /\ sender'.pc \in {"restart", "latency"}
      /\ sender'.count \in 0 .. Warmup
      /\ sender'.next = sender.next /\ sender'.field = sender.field
      /\ peer' \in [field : Nat, message : Nat]
      /\ peer'.field = fld_sending /\ peer'.message = peer.message
      BY <1>9, Zenon DEF Numbered, Threads, TypeOK
<1>1. TypeOK'
  <2>1. client' \in BOOLEAN /\ delegate' \in BOOLEAN /\ told' \in BOOLEAN
        BY <1>0, Zenon DEF TypeOK
  <2> QED BY <1>0, <2>1, SMT DEF TypeOK, Numbered
<1>2. FieldOwned'
  <2>1. /\ UNCHANGED <<caller, main, fld_sending, allSent, given>> /\ FieldOwned
        /\ sender.pc = "sending" /\ fld_sending \in Nat
        BY SMT DEF TypeOK
  <2> HIDE DEF IInv, SendsField
  <2> QED BY <1>0, <2>1, SMT DEF FieldOwned
<1>3. MessagesListed' BY <1>0, SMT DEF TypeOK, MessagesListed, Numbered
<1>4. Numbered' BY <1>0, SMT DEF TypeOK, Numbered, Threads
<1> QED BY <1>1, <1>2, <1>3, <1>4

-----------------------------------------------------------------------------
(* A signal moves the thread out of its two waits.                         *)
LEMMA SignalMoves ==
  ASSUME Numbered, sender' = Signalled
  PROVE  Went(Woken)
  BY Zenon DEF Numbered, Signalled, Threads

(* The steps of the application, one by one.                               *)
LEMMA SpuriousKeeps ==
  ASSUME IInv, Spurious
  PROVE  IInv'
<1> USE DEF IInv, Spurious
<1>0. Went(Woken)
      BY SignalMoves
<1>1. TypeOK'
  <2>1. client' \in BOOLEAN /\ delegate' \in BOOLEAN /\ told' \in BOOLEAN
        BY <1>0, Zenon DEF TypeOK
  <2> QED BY <1>0, <2>1, SMT DEF TypeOK, Numbered
<1>2. FieldOwned' BY <1>0, SMT DEF TypeOK, FieldOwned, Numbered
<1>3. MessagesListed' BY <1>0, SMT DEF TypeOK, MessagesListed, Numbered
<1>4. Numbered' BY <1>0, SMT DEF TypeOK, Numbered, Threads
<1> QED BY <1>1, <1>2, <1>3, <1>4

LEMMA SetDelegateKeeps ==
  ASSUME IInv, SetDelegate
  PROVE  IInv'
<1> USE DEF IInv, SetDelegate
<1>1. TypeOK'
  <2>1. client' \in BOOLEAN /\ delegate' \in BOOLEAN /\ told' \in BOOLEAN
        BY Zenon DEF TypeOK
  <2> QED BY <2>1, SMT DEF TypeOK, Numbered
<1>2. FieldOwned' BY SMT DEF TypeOK, FieldOwned, Numbered
<1>3. MessagesListed' BY SMT DEF TypeOK, MessagesListed, Numbered
<1>4. Numbered' BY SMT DEF TypeOK, Numbered, Threads
<1> QED BY <1>1, <1>2, <1>3, <1>4

LEMMA DrawKeeps ==
  ASSUME IInv, Draw
  PROVE  IInv'
<1> USE DEF IInv, Draw
<1>9. given.fields + 1 \in Nat BY SMT DEF TypeOK, Numbered, Threads
<1>0. /\ fld_sending' = given.fields + 1 /\ given.fields < MaxFields
      /\ given' \in [fields : Nat, messages : Nat]
      /\ given'.fields = given.fields + 1 /\ given'.messages = given.messages
      BY <1>9, Zenon DEF Numbered, Draws
<1>1. TypeOK'
  <2>1. client' \in BOOLEAN /\ delegate' \in BOOLEAN /\ told' \in BOOLEAN
        BY <1>0, Zenon DEF TypeOK
  <2> QED BY <1>0, <2>1, SMT DEF TypeOK, Numbered
<1>2. FieldOwned' BY <1>0, SMT DEF TypeOK, FieldOwned, Numbered
<1>3. MessagesListed' BY <1>0, SMT DEF TypeOK, MessagesListed, Numbered
<1>4. Numbered' BY <1>0, SMT DEF TypeOK, Numbered, Threads
<1> QED BY <1>1, <1>2, <1>3, <1>4

(* A call without a connection: allSent goes on counting.                  *)
LEMMA CountKeeps ==
  ASSUME IInv, NEW enough \in BOOLEAN, CountsCall(enough),
         UNCHANGED <<caller, client, fld_sending, messages, locks, main, callbacks, given, peer>>,
         enough \/ allSent + 1 < IF caller = "send" THEN SendLimit ELSE LockLimit + LockSpread
  PROVE  IInv'
<1> USE DEF IInv
<1>0. Went(sender.pc) \/ Went(Woken)
      BY SignalMoves DEF CountsCall, Numbered, Threads
<1>1. /\ allSent \in Nat /\ allSent >= 10 /\ allSent' \in Nat /\ allSent' >= 10
      /\ allSent' < IF caller = "send" THEN SendLimit ELSE LockLimit + LockSpread
  <2>1. allSent \in Int /\ allSent >= 10 BY SMT DEF TypeOK, CountsCall
  <2>2. CASE enough
    <3>1. allSent' = 10 BY <2>2 DEF CountsCall
    <3> QED BY <2>1, <3>1, SMT
  <2>3. CASE ~enough
    <3>1. allSent' = allSent + 1 BY <2>3 DEF CountsCall
    <3> QED BY <2>1, <2>3, <3>1, SMT
  <2> QED BY <2>2, <2>3
<1>2. sender.pc \in Connecting /\ main \notin {"locked", "drawn"}
      BY <1>1, SMT DEF FieldOwned, TypeOK
<1>3. sender'.pc \in Connecting BY <1>0, <1>2, SMT
<1>4. TypeOK'
  <2>1. client' \in BOOLEAN /\ delegate' \in BOOLEAN /\ told' \in BOOLEAN
        BY Zenon DEF TypeOK
  <2>2. allSent' \in {-1, 0, 1, 2} \cup 10 .. SendLimit + LockLimit + LockSpread
        BY <1>1, SMT
  <2>3. sender'.pc \in Places /\ ~At("message")' BY <1>3, SMT
  <2> QED BY <1>0, <2>1, <2>2, <2>3, Zenon DEF TypeOK
<1>5. FieldOwned' BY <1>0, <1>1, <1>2, <1>3, SMT DEF FieldOwned
<1>6. MessagesListed' BY <1>0, <1>3, SMT DEF MessagesListed
<1>7. Numbered' BY <1>0 DEF Numbered, Threads
<1> QED BY <1>4, <1>5, <1>6, <1>7

LEMMA SendKeeps ==
  ASSUME IInv, Send
  PROVE  IInv'
<1> USE DEF IInv
<1>1. CASE CountsCall(allSent + 1 = SendLimit) /\ UNCHANGED <<fld_sending, given>>
  <2>1. UNCHANGED <<caller, client, fld_sending, messages, locks, main, callbacks, given, peer>>
        BY <1>1 DEF Send
  <2>2. \/ allSent + 1 = SendLimit
        \/ allSent + 1 < IF caller = "send" THEN SendLimit ELSE LockLimit + LockSpread
        BY SMT DEF Send, FieldOwned, TypeOK
  <2> QED BY <1>1, <2>1, <2>2, CountKeeps
<1>2. CASE allSent = 0 /\ Draws /\ HandsOver
  <2>0. Went(Woken)
        BY <1>2, SignalMoves DEF HandsOver
  <2>1. given.fields + 1 \in Nat BY SMT DEF Numbered
  <2>2. /\ fld_sending' = given.fields + 1 /\ given.fields < MaxFields
        /\ given' \in [fields : Nat, messages : Nat]
        /\ given'.fields = given.fields + 1 /\ given'.messages = given.messages
        BY <1>2, <2>1, Zenon DEF Numbered, Draws
  <2>3. /\ allSent = 0 /\ allSent' = 1 /\ main = "idle" /\ caller = "send"
        /\ UNCHANGED <<caller, client, messages, locks, main, callbacks, peer>>
        BY <1>2 DEF Send, HandsOver
  <2>4. sender.pc \in {"restart", "wait", "woken"} /\ sender'.pc \in {"restart", "woken"}
        BY <2>0, <2>3, SMT DEF FieldOwned, TypeOK
  <2>5. TypeOK'
    <3>1. client' \in BOOLEAN /\ delegate' \in BOOLEAN /\ told' \in BOOLEAN
          BY <2>3, Zenon DEF TypeOK
    <3> QED BY <2>0, <2>2, <2>3, <2>4, <3>1, SMT DEF TypeOK, Numbered
  <2>6. FieldOwned' BY <2>0, <2>2, <2>3, <2>4, SMT DEF FieldOwned, Numbered
  <2>7. MessagesListed' BY <2>0, <2>2, <2>3, <2>4, SMT DEF MessagesListed
  <2>8. Numbered' BY <2>0, <2>2, <2>3 DEF Numbered, Threads
  <2> QED BY <2>5, <2>6, <2>7, <2>8
<1> QED BY <1>1, <1>2 DEF Send

LEMMA LockKeeps ==
  ASSUME IInv, Lock
  PROVE  IInv'
<1> USE DEF IInv
<1>1. ASSUME NEW r \in 0 .. LockSpread - 1, CountsCall(allSent + 1 >= LockLimit + r),
             UNCHANGED <<mtx, main>>
      PROVE  IInv'
  <2>1. UNCHANGED <<caller, client, fld_sending, messages, locks, main, callbacks, given, peer>>
        BY <1>1 DEF Lock
  <2> DEFINE enough == allSent + 1 >= LockLimit + r
  <2>2. enough \/ allSent + 1 < IF caller = "send" THEN SendLimit ELSE LockLimit + LockSpread
        BY SMT DEF Lock, TypeOK
  <2>3. enough \in BOOLEAN /\ CountsCall(enough) BY <1>1
  <2> HIDE DEF enough
  <2> QED BY <2>1, <2>2, <2>3, CountKeeps
<1>2. CASE /\ allSent = 0 /\ mtx' = "main" /\ main' = "locked"
           /\ UNCHANGED <<allSent, sender>>
  <2>1. /\ UNCHANGED <<caller, client, fld_sending, messages, msgMutex, callbacks, given, peer>>
        /\ allSent = 0 /\ mtx' = "main" /\ main' = "locked" /\ UNCHANGED <<allSent, sender>>
        BY <1>2 DEF Lock
  <2>2. TypeOK'
    <3>1. client' \in BOOLEAN /\ delegate' \in BOOLEAN /\ told' \in BOOLEAN
          BY <2>1, Zenon DEF TypeOK
    <3> QED BY <2>1, <3>1, SMT DEF TypeOK
  <2>3. FieldOwned' BY <2>1, SMT DEF FieldOwned
  <2>4. MessagesListed' BY <2>1 DEF MessagesListed
  <2>5. Numbered' BY <2>1 DEF Numbered
  <2> QED BY <2>2, <2>3, <2>4, <2>5
<1> QED BY <1>1, <1>2 DEF Lock

LEMMA UnlockKeeps ==
  ASSUME IInv, Unlock
  PROVE  IInv'
<1> USE DEF IInv, Unlock, HandsOver
<1>0. Went(sender.pc) \/ Went(Woken)
      BY SignalMoves DEF HandsOver, Numbered, Threads
<1>1. TypeOK'
  <2>1. client' \in BOOLEAN /\ delegate' \in BOOLEAN /\ told' \in BOOLEAN
        BY <1>0, Zenon DEF TypeOK
  <2> QED BY <1>0, <2>1, SMT DEF TypeOK, Numbered
<1>2. FieldOwned' BY <1>0, SMT DEF TypeOK, FieldOwned, Numbered
<1>3. MessagesListed' BY <1>0, SMT DEF TypeOK, MessagesListed, Numbered
<1>4. Numbered' BY <1>0, SMT DEF TypeOK, Numbered, Threads
<1> QED BY <1>1, <1>2, <1>3, <1>4

LEMMA CallMessageKeeps ==
  ASSUME IInv, CallMessage
  PROVE  IInv'
<1> USE DEF IInv, CallMessage
<1>1. TypeOK'
  <2>1. client' \in BOOLEAN /\ delegate' \in BOOLEAN /\ told' \in BOOLEAN
        BY Zenon DEF TypeOK
  <2> QED BY <2>1, SMT DEF TypeOK, Numbered
<1>2. FieldOwned' BY SMT DEF TypeOK, FieldOwned, Numbered
<1>3. MessagesListed' BY SMT DEF TypeOK, MessagesListed, Numbered
<1>4. Numbered' BY SMT DEF TypeOK, Numbered, Threads
<1> QED BY <1>1, <1>2, <1>3, <1>4

LEMMA SendMessageKeeps ==
  ASSUME IInv, SendMessage
  PROVE  IInv'
<1> USE DEF IInv
<1>0. given.messages \in Nat /\ given.messages + 1 \in Nat BY SMT DEF Numbered
<1>1. /\ given' \in [fields : Nat, messages : Nat]
      /\ given'.fields = given.fields /\ given'.messages = given.messages + 1
      BY <1>0, Zenon DEF Numbered, SendMessage
<1>2. /\ UNCHANGED <<caller, allSent, client, fld_sending, locks, sender, callbacks, peer>>
      /\ main = "message" /\ main' = "idle" /\ msgMutex = "free" /\ ~At("message")
      BY SMT DEF SendMessage, TypeOK
<1>3. Len(messages) \in Nat /\ Len(messages) <= QueueSize /\ messages \in Seq(Nat)
      /\ \A i \in 1 .. Len(messages) : messages[i] \in Nat
      BY LenProperties, ElementOfSeq DEF Numbered, TypeOK
<1>4. /\ messages' \in Seq(Nat) /\ Len(messages') \in Nat /\ Len(messages') <= QueueSize
      /\ \A i \in 1 .. Len(messages') :
           \/ i \in 1 .. Len(messages) /\ messages'[i] = messages[i]
           \/ i = Len(messages) + 1 /\ i = Len(messages') /\ messages'[i] = given.messages + 1
  <2>1. CASE Len(messages) < QueueSize
    <3>1. messages' = Append(messages, given.messages + 1) BY <2>1 DEF SendMessage
    <3>2. /\ messages' \in Seq(Nat) /\ Len(messages') = Len(messages) + 1
          /\ \A i \in 1 .. Len(messages) : messages'[i] = messages[i]
          /\ messages'[Len(messages) + 1] = given.messages + 1
          BY <1>0, <1>3, <3>1, AppendProperties
    <3> QED BY <1>3, <2>1, <3>2, SMT
  <2>2. CASE ~(Len(messages) < QueueSize)
    <3>1. messages' = messages BY <2>2 DEF SendMessage
    <3> QED BY <1>3, <3>1
  <2> QED BY <2>1, <2>2
<1>5. TypeOK'
  <2>1. client' \in BOOLEAN /\ delegate' \in BOOLEAN /\ told' \in BOOLEAN
        BY <1>2, Zenon DEF TypeOK
  <2> QED BY <1>2, <1>4, <2>1, SMT DEF TypeOK
<1>6. FieldOwned' BY <1>1, <1>2, SMT DEF FieldOwned
<1>7. MessagesListed'
  <2>1. /\ peer.message \in Nat /\ peer.message <= given.messages
        /\ \A i \in 1 .. Len(messages) : messages[i] <= given.messages /\ messages[i] > peer.message
        BY <1>2 DEF MessagesListed, Numbered
  <2>2. \A i \in 1 .. Len(messages') :
          messages'[i] <= given'.messages /\ messages'[i] > peer'.message
    <3> SUFFICES ASSUME NEW i \in 1 .. Len(messages')
                 PROVE  messages'[i] <= given'.messages /\ messages'[i] > peer'.message
        OBVIOUS
    <3>1. peer' = peer BY <1>2
    <3>2. CASE i \in 1 .. Len(messages) /\ messages'[i] = messages[i]
      <4>1. messages[i] \in Nat /\ messages[i] <= given.messages /\ messages[i] > peer.message
            BY <1>3, <2>1, <3>2
      <4> QED BY <1>0, <1>1, <3>1, <3>2, <4>1, SMT
    <3>3. CASE messages'[i] = given.messages + 1
          BY <1>0, <1>1, <2>1, <3>1, <3>3, SMT
    <3> QED BY <1>4, <3>2, <3>3
  <2>3. ASSUME NEW i \in 1 .. Len(messages'), NEW j \in 1 .. Len(messages'), i < j
        PROVE  messages'[i] < messages'[j]
    <3>1. i \in 1 .. Len(messages) /\ messages'[i] = messages[i]
          BY <1>3, <1>4, <2>3, SMT
    <3>2. CASE j \in 1 .. Len(messages) /\ messages'[j] = messages[j]
          BY <2>3, <3>1, <3>2 DEF MessagesListed
    <3>3. CASE messages'[j] = given.messages + 1
          BY <1>0, <1>3, <2>1, <3>1, <3>3, SMT
    <3> QED BY <1>4, <3>2, <3>3
  <2> QED BY <1>0, <1>1, <1>2, <2>1, <2>2, <2>3, SMT DEF MessagesListed
<1>8. Numbered' BY <1>1, <1>2, <1>4 DEF Numbered
<1> QED BY <1>5, <1>6, <1>7, <1>8

LEMMA FreeKeeps ==
  ASSUME IInv, Free
  PROVE  IInv'
<1> USE DEF IInv, Free
<1>0. Went(Woken)
      BY SignalMoves
<1>1. TypeOK'
  <2>1. client' \in BOOLEAN /\ delegate' \in BOOLEAN /\ told' \in BOOLEAN
        BY <1>0, Zenon DEF TypeOK
  <2> QED BY <1>0, <2>1, SMT DEF TypeOK, Numbered
<1>2. FieldOwned' BY <1>0, SMT DEF TypeOK, FieldOwned, Numbered
<1>3. MessagesListed' BY <1>0, SMT DEF TypeOK, MessagesListed, Numbered
<1>4. Numbered' BY <1>0, SMT DEF TypeOK, Numbered, Threads
<1> QED BY <1>1, <1>2, <1>3, <1>4

LEMMA FreedKeeps ==
  ASSUME IInv, Freed
  PROVE  IInv'
<1> USE DEF IInv, Freed
<1>1. TypeOK'
  <2>1. client' \in BOOLEAN /\ delegate' \in BOOLEAN /\ told' \in BOOLEAN
        BY Zenon DEF TypeOK
  <2> QED BY <2>1, SMT DEF TypeOK, Numbered
<1>2. FieldOwned' BY SMT DEF TypeOK, FieldOwned, Numbered
<1>3. MessagesListed' BY SMT DEF TypeOK, MessagesListed, Numbered
<1>4. Numbered' BY SMT DEF TypeOK, Numbered, Threads
<1> QED BY <1>1, <1>2, <1>3, <1>4

LEMMA CreateKeeps ==
  ASSUME IInv, Create
  PROVE  IInv'
<1> USE DEF IInv, Create, NewSender
<1>1. TypeOK'
  <2>1. client' \in BOOLEAN /\ delegate' \in BOOLEAN /\ told' \in BOOLEAN
        BY Zenon DEF TypeOK
  <2> QED BY <2>1, SMT DEF TypeOK, Numbered
<1>2. FieldOwned' BY SMT DEF TypeOK, FieldOwned, Numbered
<1>3. MessagesListed' BY SMT DEF TypeOK, MessagesListed, Numbered
<1>4. Numbered' BY SMT DEF TypeOK, Numbered, Threads
<1> QED BY <1>1, <1>2, <1>3, <1>4

-----------------------------------------------------------------------------
LEMMA SenderKeeps ==
  ASSUME IInv, Sender
  PROVE  IInv'
  BY ConnectsKeeps, ConnectRaisesKeeps, ConnectedKeeps, SleepsKeeps, RetryWakesKeeps, GreetsKeeps,
     RestartsKeeps, WakesKeeps, TakesMessagesKeeps, SendsMessageKeeps, MessageRaisesKeeps,
     MessagesSentKeeps, BuildsHeaderKeeps, SendsFieldKeeps, HearsLatencyKeeps, RaisesKeeps,
     CatchesKeeps DEF Sender

LEMMA StepKeeps == IInv /\ [Next]_vars => IInv'
<1> SUFFICES ASSUME IInv, [Next]_vars PROVE IInv'
    OBVIOUS
<1>1. CASE Sender BY <1>1, SenderKeeps
<1>2. CASE Spurious BY <1>2, SpuriousKeeps
<1>3. CASE Frame BY <1>3, SendKeeps, LockKeeps, DrawKeeps, UnlockKeeps DEF Frame
<1>4. CASE SetDelegate \/ CallMessage \/ SendMessage
      BY <1>4, SetDelegateKeeps, CallMessageKeeps, SendMessageKeeps
<1>5. CASE Free \/ Freed \/ Create BY <1>5, FreeKeeps, FreedKeeps, CreateKeeps
<1>6. CASE UNCHANGED vars
      BY <1>6 DEF vars, IInv, TypeOK, FieldOwned, MessagesListed, Numbered
<1> QED BY <1>1, <1>2, <1>3, <1>4, <1>5, <1>6 DEF Next

(* IInv holds in every state, for every number of fields, messages, calls  *)
(* and slots of the list.                                                  *)
THEOREM InductiveInvariant == Spec => []IInv
  BY InitHolds, StepKeeps, PTL DEF Spec

(* Every variable keeps its type: the list does not overflow, and mtx is   *)
(* held exactly while the application draws (field_client.c 311-395).      *)
THEOREM TypeCorrect == Spec => []TypeOK
<1>1. IInv => TypeOK BY DEF IInv
<1> QED BY <1>1, InductiveInvariant, PTL

-----------------------------------------------------------------------------
(* A step from a state of the invariant sends what is newer, if anything.  *)
LEMMA StepInOrder ==
  ASSUME IInv, [Next]_vars, main # "freed"
  PROVE  /\ peer'.field # peer.field => peer'.field > peer.field /\ peer'.field = sender.field
         /\ peer'.message # peer.message => peer'.message > peer.message
<1> USE DEF IInv
<1>1. CASE UNCHANGED peer BY <1>1
<1>2. CASE SendsMessage
  <2>1. peer'.field = peer.field /\ peer'.message = messages[sender.next]
        BY <1>2 DEF SendsMessage, Numbered
  <2>2. sender.next \in sender.next .. Len(messages)
    <3>1. Len(messages) \in Nat /\ sender.next \in Nat BY LenProperties DEF Numbered
    <3> QED BY <1>2, <3>1, SMT DEF SendsMessage
  <2>3. messages[sender.next] > peer.message BY <1>2, <2>2 DEF SendsMessage, MessagesListed
  <2> QED BY <2>1, <2>3
<1>3. CASE SendsField
  <2>1. peer'.field = fld_sending /\ peer'.message = peer.message
        BY <1>3 DEF SendsField, Numbered
  <2>2. sender.field = fld_sending /\ peer.field <= fld_sending
        /\ fld_sending \in Nat /\ peer.field \in Nat
        BY <1>3, SMT DEF SendsField, FieldOwned, TypeOK, Numbered
  <2> QED BY <2>1, <2>2, SMT
<1>4. CASE Create BY <1>4 DEF Create
<1>5. CASE Sender
      BY <1>1, <1>2, <1>3, <1>5
      DEF Sender, Connects, ConnectRaises, Connected, Sleeps, RetryWakes, Greets, Restarts, Wakes,
          TakesMessages, MessageRaises, MessagesSent, BuildsHeader, HearsLatency, Raises, Catches
<1>6. CASE Spurious \/ Frame \/ SetDelegate \/ CallMessage \/ SendMessage \/ Free \/ Freed
      BY <1>1, <1>6
      DEF Spurious, Frame, Send, Lock, Draw, Unlock, SetDelegate, CallMessage, SendMessage,
          Free, Freed
<1>7. CASE UNCHANGED vars BY <1>1, <1>7 DEF vars
<1> QED BY <1>4, <1>5, <1>6, <1>7 DEF Next

(* Every field that reaches the server is newer than the last and the one  *)
(* its header was built for, although no mutex is held while it is sent,   *)
(* and no message arrives twice or out of order (field_client.c 63-144,    *)
(* 311-346, 386-395).                                                      *)
THEOREM SentInOrder == Spec => PeerInOrder
<1>1. IInv /\ [Next]_vars =>
        [main # "freed" =>
           /\ peer'.field # peer.field => /\ peer'.field > peer.field
                                          /\ peer'.field = sender.field
           /\ peer'.message # peer.message => peer'.message > peer.message]_<<peer>>
      BY StepInOrder
<1> QED BY <1>1, InductiveInvariant, PTL DEF Spec, PeerInOrder
=============================================================================
