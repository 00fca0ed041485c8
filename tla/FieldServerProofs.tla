------------------------- MODULE FieldServerProofs -------------------------
(***************************************************************************)
(* Proofs about FieldServer, for every size of the ring and every bound:   *)
(* its type invariant, that nothing is written while it is read, and that  *)
(* fields and messages are handed over in order.                           *)
(***************************************************************************)
EXTENDS FieldServer, TLAPS

Conns == {"none", "packet", "matrix", "wait", "woken", "fill", "publish",
          "message", "waitMsg", "wokenMsg", "fillMsg", "publishMsg"}

(* The slot after p, round the ring.                                       *)
LEMMA NextSlot ==
  ASSUME NEW p \in Slots
  PROVE  /\ (p + 1) % RingSize \in Slots
         /\ (p + 1) % RingSize = IF p = RingSize - 1 THEN 0 ELSE p + 1
<1>1. RingSize \in Nat /\ RingSize >= 3
  BY RingSizeAssumption
<1>2. CASE p = RingSize - 1
  <2>1. (p + 1) % RingSize = RingSize % RingSize
    BY <1>1, <1>2
  <2>2. QED
    BY <1>1, <1>2, <2>1 DEF Slots
<1>3. CASE p # RingSize - 1
  <2>1. p + 1 \in 0 .. RingSize - 1
    BY <1>1, <1>3 DEF Slots
  <2>2. QED
    BY <1>1, <1>3, <2>1 DEF Slots
<1>4. QED
  BY <1>2, <1>3

(* The number of slots from p to q, without the remainder.                 *)
LEMMA AheadFacts ==
  ASSUME NEW p \in Slots, NEW q \in Slots
  PROVE  Ahead(p, q) = IF q >= p THEN q - p ELSE q - p + RingSize
<1>1. RingSize \in Nat /\ RingSize >= 3
  BY RingSizeAssumption
<1>2. CASE q >= p
  <2>1. q - p \in 0 .. RingSize - 1
    BY <1>1, <1>2 DEF Slots
  <2>2. QED
    BY <1>1, <1>2, <2>1 DEF Ahead
<1>3. CASE ~(q >= p)
  <2>1. q - p \in -RingSize .. -1
    BY <1>1, <1>3 DEF Slots
  <2>2. QED
    BY <1>1, <1>3, <2>1 DEF Ahead
<1>4. QED
  BY <1>2, <1>3

(* The connection thread waits for a slot exactly when all but two are     *)
(* taken.                                                                  *)
LEMMA RingFullFacts ==
  ASSUME curReadMsg \in Slots, curWriteMsg \in Slots
  PROVE  RingFull <=> Waiting = RingSize - 2
<1>1. RingSize \in Nat /\ RingSize >= 3
  BY RingSizeAssumption
<1>2. Waiting = IF curWriteMsg >= curReadMsg THEN curWriteMsg - curReadMsg
                ELSE curWriteMsg - curReadMsg + RingSize
  BY AheadFacts DEF Waiting
<1>3. CASE curWriteMsg + 2 < RingSize
  <2>1. curWriteMsg + 2 \in 0 .. RingSize - 1
    BY <1>1, <1>3 DEF Slots
  <2>2. (curWriteMsg + 2) % RingSize = curWriteMsg + 2
    BY <1>1, <2>1
  <2>3. QED
    BY <1>1, <1>2, <1>3, <2>2 DEF RingFull, Slots
<1>4. CASE ~(curWriteMsg + 2 < RingSize)
  <2>1. /\ curWriteMsg \in Nat
        /\ RingSize <= curWriteMsg + 2 /\ curWriteMsg + 2 < RingSize + RingSize
    BY <1>1, <1>4 DEF Slots
  <2>2. (curWriteMsg + 2) % RingSize = curWriteMsg + 2 - RingSize
    BY <1>1, <2>1
  <2>3. QED
    BY <1>1, <1>2, <1>4, <2>2 DEF RingFull, Slots
<1>5. QED
  BY <1>3, <1>4

(* A signal moves the connection thread only out of a wait.                *)
LEMMA WokenFacts ==
  ASSUME NEW c \in Conns, NEW conds
  PROVE  /\ Woken(c, conds) \in Conns
         /\ Woken(c, conds) \in {c, "woken", "wokenMsg"}
         /\ c \notin {"wait", "waitMsg"} => Woken(c, conds) = c
BY DEF Woken, Conns

(* The steps of the connection thread that change nothing but its place:   *)
(* they lead into the buffer or the ring only when there is room.          *)
Moves ==
  \/ Accept \/ Reads \/ AwaitSwap \/ AwaitSwapAgain
  \/ AwaitSlot \/ AwaitSlotAgain \/ WakesUp

LEMMA MovesFacts ==
  ASSUME TypeOK, Moves
  PROVE  /\ UNCHANGED Local
         /\ conn # "publishMsg" /\ conn' \in Conns \ {"publish", "publishMsg"}
         /\ conn' = "fill" => needSwap # 1
         /\ conn' = "fillMsg" => ~RingFull
<1>1. conn \in Conns
  BY DEF TypeOK, Conns
<1>2. CASE WakesUp
  BY <1>1, <1>2 DEF WakesUp, Woken, Conns
<1>3. CASE Accept \/ Reads
  BY <1>3 DEF Accept, Reads, ReadMatrix, ReadMessage, Hangs, Goes, Conns
<1>4. CASE AwaitSwap \/ AwaitSwapAgain
  BY <1>4 DEF AwaitSwap, AwaitSwapAgain, Conns
<1>5. CASE AwaitSlot \/ AwaitSlotAgain
  BY <1>5 DEF AwaitSlot, AwaitSlotAgain, Conns
<1>6. QED
  BY <1>2, <1>3, <1>4, <1>5 DEF Moves

(* The steps of a behaviour, one by one.                                   *)
LEMMA Steps ==
  ASSUME [Next]_vars
  PROVE  \/ Create \/ Created \/ Free \/ CloseListener \/ Freed
         \/ Lock \/ Unlock \/ NextMessage \/ MessageHandled \/ NoMessage
         \/ Moves \/ Fill \/ FillHalf \/ FillNone \/ Publish
         \/ FillMsg \/ FillMsgHalf \/ FillMsgNone \/ PublishMsg
         \/ UNCHANGED vars
BY DEF Next, Frees, Draws, Receives, Moves

-----------------------------------------------------------------------------
(* Every variable keeps its type in every step.                            *)
LEMMA TypeStep == TypeOK /\ [Next]_vars => TypeOK'
<1> SUFFICES ASSUME TypeOK, [Next]_vars PROVE TypeOK'
  OBVIOUS
<1> USE DEF TypeOK
<1>0. conn \in Conns /\ 0 \in Slots
  BY RingSizeAssumption DEF Conns, Slots
<1>1. CASE Create \/ Created \/ CloseListener
  BY <1>1 DEF Create, Created, CloseListener, swap, ring, using, counts
<1>2. CASE Free
  <2>1. conn' \in Conns
    BY <1>0, <1>2, WokenFacts DEF Free
  <2>2. QED
    BY <1>2, <2>1 DEF Free, swap, ring, using, counts, Conns
<1>3. CASE Freed
  BY <1>0, <1>3 DEF Freed, Buffers, Blank, Nothing
<1>4. CASE Lock
  BY <1>4 DEF Lock, swap, ring, counts
<1>5. CASE Unlock
  <2>1. conn' \in Conns
    BY <1>0, <1>5, WokenFacts DEF Unlock
  <2>2. needSwap' \in {-1, 0, 1} /\ fld_net' \in Buffers
    BY <1>5 DEF Unlock, swap, Buffers
  <2>3. QED
    BY <1>5, <2>1, <2>2 DEF Unlock, ring, counts, Conns, Nothing
<1>6. CASE NextMessage
  <2>1. conn' \in Conns
    BY <1>0, <1>6, WokenFacts DEF NextMessage
  <2>2. curReadMsg' \in Slots
    BY <1>6, NextSlot DEF NextMessage
  <2>3. QED
    BY <1>6, <2>1, <2>2 DEF NextMessage, swap, counts, Conns
<1>7. CASE MessageHandled \/ NoMessage
  BY <1>7 DEF MessageHandled, NoMessage, swap, ring, using, counts, Nothing
<1>8. CASE Moves
  BY <1>8, MovesFacts DEF Local, swap, ring, using, counts, Conns
<1>9. CASE Fill \/ FillHalf \/ FillNone
  BY <1>9 DEF Fill, FillHalf, FillNone, Filled, swap, ring, using, counts, Torn
<1>10. CASE Publish
  BY <1>10 DEF Publish, ring, using, counts
<1>11. CASE FillMsg \/ FillMsgHalf \/ FillMsgNone
  BY <1>11 DEF FillMsg, FillMsgHalf, FillMsgNone, FilledMsg, swap, ring, using, counts,
               Torn
<1>12. CASE PublishMsg
  BY <1>12, NextSlot DEF PublishMsg, swap, using, counts
<1>13. CASE UNCHANGED vars
  BY <1>13 DEF vars, swap, ring, using, counts
<1>14. QED
  BY Steps, <1>1, <1>2, <1>3, <1>4, <1>5, <1>6, <1>7, <1>8, <1>9, <1>10, <1>11,
     <1>12, <1>13

(* The initial state satisfies the whole invariant.                        *)
LEMMA InitIInv == Init => IInv
<1> SUFFICES ASSUME Init PROVE IInv
  OBVIOUS
<1>1. 0 \in Slots /\ RingSize \in Nat /\ RingSize >= 3
  BY RingSizeAssumption DEF Slots
<1>2. TypeOK
  BY <1>1 DEF Init, Fresh, TypeOK, Buffers, Blank, Nothing
<1>3. BufferOwned
  BY DEF Init, Fresh, BufferOwned, Nothing
<1>4. Waiting = 0
  BY <1>1, AheadFacts DEF Init, Fresh, Waiting
<1>5. SlotsApart
  BY <1>1, <1>4 DEF Init, Fresh, SlotsApart, Nothing
<1>6. NewestPublished
  BY DEF Init, Fresh, NewestPublished, Blank, Nothing
<1>7. ASSUME NEW s \in Slots PROVE ~(Ahead(curReadMsg, s) < Waiting)
  BY <1>1, <1>4, <1>7, AheadFacts DEF Init, Fresh, Slots
<1>8. MessagesWaiting
  BY <1>4, <1>7 DEF Init, Fresh, MessagesWaiting, Blank
<1>9. QED
  BY <1>2, <1>3, <1>5, <1>6, <1>8 DEF IInv

(* Types: every behaviour of the server keeps TypeOK.                      *)
THEOREM TypeCorrect == Spec => []TypeOK
<1>1. Init => TypeOK
  BY InitIInv DEF IInv
<1>2. QED
  BY <1>1, TypeStep, PTL DEF Spec

-----------------------------------------------------------------------------
(* No step takes the buffer from the thread that owns it.                  *)
LEMMA BufferStep ==
  TypeOK /\ BufferOwned /\ [Next]_vars => BufferOwned'
<1> SUFFICES ASSUME TypeOK, BufferOwned, [Next]_vars PROVE BufferOwned'
  OBVIOUS
<1> USE DEF BufferOwned
<1>0. conn \in Conns
  BY DEF TypeOK, Conns
<1>1. CASE Create \/ Created \/ CloseListener
  BY <1>1 DEF Create, Created, CloseListener, swap, using
<1>2. CASE Free
  <2>1. conn' \in {conn, "woken", "wokenMsg"}
    BY <1>0, <1>2, WokenFacts DEF Free
  <2>2. QED
    BY <1>2, <2>1 DEF Free, swap, using
<1>3. CASE Freed
  BY <1>3 DEF Freed
<1>4. CASE Lock
  BY <1>4 DEF Lock, swap
<1>5. CASE Unlock
  <2>1. conn' \in {conn, "woken", "wokenMsg"}
    BY <1>0, <1>5, WokenFacts DEF Unlock
  <2>2. QED
    BY <1>5, <2>1 DEF Unlock, swap
<1>6. CASE NextMessage
  <2>1. conn' \in {conn, "woken", "wokenMsg"}
    BY <1>0, <1>6, WokenFacts DEF NextMessage
  <2>2. QED
    BY <1>6, <2>1 DEF NextMessage, swap
<1>7. CASE MessageHandled \/ NoMessage
  BY <1>7 DEF MessageHandled, NoMessage, swap, using
<1>8. CASE Moves
  BY <1>8, MovesFacts DEF Local, swap, using
<1>9. CASE Fill \/ FillHalf \/ FillNone
  BY <1>9 DEF Fill, FillHalf, FillNone, Filled, swap, using
<1>10. CASE Publish
  BY <1>10 DEF Publish, using
<1>11. CASE FillMsg \/ FillMsgHalf \/ FillMsgNone
  BY <1>11 DEF FillMsg, FillMsgHalf, FillMsgNone, FilledMsg, swap, using
<1>12. CASE PublishMsg
  BY <1>12 DEF PublishMsg, swap, using
<1>13. CASE UNCHANGED vars
  BY <1>13 DEF vars, swap, using
<1>14. QED
  BY Steps, <1>1, <1>2, <1>3, <1>4, <1>5, <1>6, <1>7, <1>8, <1>9, <1>10, <1>11,
     <1>12, <1>13

(* What a step that leaves the ring's places alone keeps of SlotsApart.    *)
LEMMA SlotsKept ==
  ASSUME SlotsApart, UNCHANGED ring, heldMsg' \in {heldMsg, Nothing},
         conn' \in {"fillMsg", "publishMsg"} => conn \in {"fillMsg", "publishMsg"}
  PROVE  SlotsApart'
BY DEF SlotsApart, Waiting, Ahead, ring

(* Reading a message makes one slot free, publishing one takes a slot.     *)
LEMMA WaitingSteps ==
  ASSUME TypeOK
  PROVE  /\ NextMessage => Waiting >= 1 /\ Waiting' = Waiting - 1
         /\ PublishMsg /\ Waiting <= RingSize - 3 => Waiting' = Waiting + 1
<1>1. RingSize \in Nat /\ RingSize >= 3
  BY RingSizeAssumption
<1>2. curReadMsg \in Slots /\ curWriteMsg \in Slots
  BY DEF TypeOK
<1>3. Waiting = IF curWriteMsg >= curReadMsg THEN curWriteMsg - curReadMsg
                ELSE curWriteMsg - curReadMsg + RingSize
  BY <1>2, AheadFacts DEF Waiting
<1>4. ASSUME NextMessage PROVE Waiting >= 1 /\ Waiting' = Waiting - 1
  <2>1. /\ curReadMsg' \in Slots /\ curWriteMsg' = curWriteMsg
        /\ curReadMsg' = IF curReadMsg = RingSize - 1 THEN 0 ELSE curReadMsg + 1
        /\ curReadMsg # curWriteMsg
    BY <1>2, <1>4, NextSlot DEF NextMessage
  <2>2. Waiting' = Ahead(curReadMsg', curWriteMsg')
    BY DEF Waiting, Ahead
  <2>3. Waiting' = IF curWriteMsg' >= curReadMsg' THEN curWriteMsg' - curReadMsg'
                   ELSE curWriteMsg' - curReadMsg' + RingSize
    BY <1>2, <2>1, <2>2, AheadFacts
  <2>4. QED
    BY <1>1, <1>2, <1>3, <2>1, <2>3 DEF Slots
<1>5. ASSUME PublishMsg, Waiting <= RingSize - 3 PROVE Waiting' = Waiting + 1
  <2>1. /\ curWriteMsg' \in Slots /\ curReadMsg' = curReadMsg
        /\ curWriteMsg' = IF curWriteMsg = RingSize - 1 THEN 0 ELSE curWriteMsg + 1
    BY <1>2, <1>5, NextSlot DEF PublishMsg
  <2>2. Waiting' = Ahead(curReadMsg', curWriteMsg')
    BY DEF Waiting, Ahead
  <2>3. Waiting' = IF curWriteMsg' >= curReadMsg' THEN curWriteMsg' - curReadMsg'
                   ELSE curWriteMsg' - curReadMsg' + RingSize
    BY <1>2, <2>1, <2>2, AheadFacts
  <2>4. QED
    BY <1>1, <1>2, <1>3, <1>5, <2>1, <2>3 DEF Slots
<1>6. QED
  BY <1>4, <1>5

(* No step makes the slot being read the slot being filled.                *)
LEMMA SlotsStep ==
  TypeOK /\ SlotsApart /\ [Next]_vars => SlotsApart'
<1> SUFFICES ASSUME TypeOK, SlotsApart, [Next]_vars PROVE SlotsApart'
  OBVIOUS
<1>0. /\ conn \in Conns
      /\ curReadMsg \in Slots /\ curWriteMsg \in Slots
      /\ RingSize \in Nat /\ RingSize >= 3
  BY RingSizeAssumption DEF TypeOK, Conns
<1>1. Waiting \in 0 .. RingSize - 2
  <2>1. Waiting = IF curWriteMsg >= curReadMsg THEN curWriteMsg - curReadMsg
                  ELSE curWriteMsg - curReadMsg + RingSize
    BY <1>0, AheadFacts DEF Waiting
  <2>2. QED
    BY <1>0, <2>1 DEF SlotsApart, Slots
<1>2. CASE Create \/ Created \/ CloseListener
  BY <1>2, SlotsKept DEF Create, Created, CloseListener, using
<1>3. CASE Free
  <2>1. conn' \in {conn, "woken", "wokenMsg"}
    BY <1>0, <1>3, WokenFacts DEF Free
  <2>2. QED
    BY <1>3, <2>1, SlotsKept DEF Free, using
<1>4. CASE Freed
  <2>1. /\ curReadMsg' = 0 /\ curWriteMsg' = 0 /\ 0 \in Slots
        /\ heldMsg' = Nothing /\ conn' = "none"
    BY <1>0, <1>4 DEF Freed, Slots
  <2>2. Waiting' = Ahead(curReadMsg', curWriteMsg')
    BY DEF Waiting, Ahead
  <2>3. Waiting' = 0
    BY <2>1, <2>2, AheadFacts
  <2>4. QED
    BY <1>0, <2>1, <2>3 DEF SlotsApart
<1>5. CASE Lock
  BY <1>5, SlotsKept DEF Lock
<1>6. CASE Unlock
  <2>1. conn' \in {conn, "woken", "wokenMsg"}
    BY <1>0, <1>6, WokenFacts DEF Unlock
  <2>2. QED
    BY <1>6, <2>1, SlotsKept DEF Unlock
<1>7. CASE NextMessage
  <2>1. conn' \in {conn, "woken", "wokenMsg"}
    BY <1>0, <1>7, WokenFacts DEF NextMessage
  <2>2. Waiting' = Waiting - 1
    BY <1>7, WaitingSteps
  <2>3. /\ heldMsg' = curReadMsg /\ curReadMsg' \in Slots
        /\ curReadMsg' = IF curReadMsg = RingSize - 1 THEN 0 ELSE curReadMsg + 1
    BY <1>0, <1>7, NextSlot DEF NextMessage
  <2>4. Ahead(heldMsg', curReadMsg')
          = IF curReadMsg' >= heldMsg' THEN curReadMsg' - heldMsg'
            ELSE curReadMsg' - heldMsg' + RingSize
    BY <1>0, <2>3, AheadFacts
  <2>5. Ahead(heldMsg', curReadMsg') = 1
    BY <1>0, <2>3, <2>4 DEF Slots
  <2>6. Ahead(heldMsg, curReadMsg)' = 1
    BY <2>5 DEF Ahead
  <2>7. QED
    BY <1>0, <1>1, <2>1, <2>2, <2>6 DEF SlotsApart
<1>8. CASE MessageHandled \/ NoMessage
  BY <1>8, SlotsKept DEF MessageHandled, NoMessage, using
<1>9. CASE Moves
  <2>1. /\ UNCHANGED ring /\ heldMsg' = heldMsg
        /\ conn' # "publishMsg" /\ (conn' = "fillMsg" => ~RingFull)
    BY <1>9, MovesFacts DEF Local, using
  <2>2. conn' = "fillMsg" => Waiting <= RingSize - 3
    BY <1>0, <1>1, <2>1, RingFullFacts
  <2>3. QED
    BY <2>1, <2>2 DEF SlotsApart, Waiting, Ahead, ring
<1>10. CASE Fill \/ FillHalf \/ FillNone
  BY <1>10, SlotsKept DEF Fill, FillHalf, FillNone, Filled, using
<1>11. CASE Publish
  BY <1>11, SlotsKept DEF Publish, using
<1>12. CASE FillMsg \/ FillMsgHalf \/ FillMsgNone
  BY <1>12, SlotsKept DEF FillMsg, FillMsgHalf, FillMsgNone, FilledMsg, using
<1>13. CASE PublishMsg
  <2>1. /\ Waiting <= RingSize - 3 /\ conn' = "packet"
        /\ heldMsg' = heldMsg /\ curReadMsg' = curReadMsg
    BY <1>13 DEF PublishMsg, SlotsApart, using
  <2>2. Waiting' = Waiting + 1
    BY <1>13, <2>1, WaitingSteps
  <2>3. QED
    BY <1>0, <1>1, <2>1, <2>2 DEF SlotsApart, Ahead
<1>14. CASE UNCHANGED vars
  BY <1>14, SlotsKept DEF vars, using
<1>15. QED
  BY Steps, <1>2, <1>3, <1>4, <1>5, <1>6, <1>7, <1>8, <1>9, <1>10, <1>11, <1>12,
     <1>13, <1>14

-----------------------------------------------------------------------------
(* What a step that leaves the buffers alone keeps of NewestPublished.     *)
LEMMA NewestKept ==
  ASSUME NewestPublished, UNCHANGED <<swap, content, held, shown, counts>>,
         conn' = "publish" => conn = "publish"
  PROVE  NewestPublished'
BY DEF NewestPublished, swap, counts

(* What is published, or about to be, stays the newest field received.     *)
LEMMA NewestStep ==
  TypeOK /\ BufferOwned /\ NewestPublished /\ [Next]_vars => NewestPublished'
<1> SUFFICES ASSUME TypeOK, BufferOwned, NewestPublished, [Next]_vars
             PROVE  NewestPublished'
  OBVIOUS
<1>0. /\ conn \in Conns /\ fld_net \in Buffers /\ Nothing \notin Buffers
      /\ frames \in Nat /\ timeouts \in Nat /\ content \in [Buffers -> Nat \cup {Torn}]
  BY DEF TypeOK, Conns, Buffers, Nothing
<1>1. CASE Create \/ Created \/ CloseListener
  BY <1>1, NewestKept DEF Create, Created, CloseListener, using
<1>2. CASE Free
  <2>1. conn' \in {conn, "woken", "wokenMsg"}
    BY <1>0, <1>2, WokenFacts DEF Free
  <2>2. QED
    BY <1>2, <2>1, NewestKept DEF Free, using
<1>3. CASE Freed
  BY <1>3 DEF Freed, NewestPublished, Blank
<1>4. CASE Lock
  <2>1. CASE needSwap = 1
    BY <1>0, <1>4, <2>1 DEF Lock, BufferOwned, NewestPublished, swap, counts
  <2>2. CASE needSwap # 1
    BY <1>4, <2>2, NewestKept DEF Lock
  <2>3. QED
    BY <2>1, <2>2
<1>5. CASE Unlock
  <2>1. conn' \in {conn, "woken", "wokenMsg"}
    BY <1>0, <1>5, WokenFacts DEF Unlock
  <2>2. CASE needSwap = 1
    BY <1>5, <2>1, <2>2 DEF Unlock, BufferOwned, NewestPublished, counts
  <2>3. CASE needSwap # 1
    BY <1>5, <2>3 DEF Unlock, NewestPublished, swap, counts
  <2>4. QED
    BY <2>2, <2>3
<1>6. CASE NextMessage
  <2>1. conn' \in {conn, "woken", "wokenMsg"}
    BY <1>0, <1>6, WokenFacts DEF NextMessage
  <2>2. QED
    BY <1>6, <2>1, NewestKept DEF NextMessage
<1>7. CASE MessageHandled \/ NoMessage
  BY <1>7, NewestKept DEF MessageHandled, NoMessage, using
<1>8. CASE Moves
  BY <1>8, MovesFacts, NewestKept DEF Local, using
<1>9. CASE Fill
  BY <1>0, <1>9 DEF Fill, Filled, BufferOwned, NewestPublished, swap, using
<1>10. CASE FillHalf
  BY <1>0, <1>10 DEF FillHalf, Filled, BufferOwned, NewestPublished, swap, using, counts
<1>11. CASE FillNone
  BY <1>0, <1>11 DEF FillNone, NewestPublished
<1>12. CASE Publish
  BY <1>12 DEF Publish, NewestPublished, using, counts
<1>13. CASE FillMsg \/ FillMsgHalf
  BY <1>13 DEF FillMsg, FillMsgHalf, FilledMsg, NewestPublished, swap, using, counts
<1>14. CASE FillMsgNone
  BY <1>0, <1>14 DEF FillMsgNone, NewestPublished
<1>15. CASE PublishMsg
  BY <1>15, NewestKept DEF PublishMsg, using
<1>16. CASE UNCHANGED vars
  BY <1>16, NewestKept DEF vars, using
<1>17. QED
  BY Steps, <1>1, <1>2, <1>3, <1>4, <1>5, <1>6, <1>7, <1>8, <1>9, <1>10, <1>11,
     <1>12, <1>13, <1>14, <1>15, <1>16

-----------------------------------------------------------------------------
(* Seen from the next slot, every other slot is one nearer.                *)
LEMMA AheadOfNext ==
  ASSUME NEW p \in Slots, NEW s \in Slots
  PROVE  /\ Ahead(p, p) = 0
         /\ Ahead((p + 1) % RingSize, s) = IF s = p THEN RingSize - 1
                                           ELSE Ahead(p, s) - 1
<1>1. RingSize \in Nat /\ RingSize >= 3
  BY RingSizeAssumption
<1> DEFINE n == (p + 1) % RingSize
<1>2. n \in Slots /\ n = IF p = RingSize - 1 THEN 0 ELSE p + 1
  BY NextSlot
<1> HIDE DEF n
<1>3. Ahead(p, p) = 0
  BY AheadFacts, <1>1 DEF Slots
<1>4. Ahead(p, s) = IF s >= p THEN s - p ELSE s - p + RingSize
  BY AheadFacts
<1>5. Ahead(n, s) = IF s >= n THEN s - n ELSE s - n + RingSize
  BY <1>2, AheadFacts
<1>6. Ahead(n, s) = IF s = p THEN RingSize - 1 ELSE Ahead(p, s) - 1
  BY <1>1, <1>2, <1>4, <1>5 DEF Slots
<1>7. QED
  BY <1>3, <1>6 DEF n

(* Seen from one slot, no two are equally far.                             *)
LEMMA AheadApart ==
  ASSUME NEW p \in Slots, NEW q \in Slots, NEW s \in Slots
  PROVE  Ahead(p, q) = Ahead(p, s) => q = s
<1>1. RingSize \in Nat /\ RingSize >= 3
  BY RingSizeAssumption
<1>2. /\ p \in Int /\ 0 <= p /\ p < RingSize
      /\ q \in Int /\ 0 <= q /\ q < RingSize
      /\ s \in Int /\ 0 <= s /\ s < RingSize
  BY <1>1 DEF Slots
<1> DEFINE Far(x) == IF x >= p THEN x - p ELSE x - p + RingSize
<1>3. Ahead(p, q) = Far(q) /\ Ahead(p, s) = Far(s)
  BY AheadFacts
<1>4. Far(q) = Far(s) => q = s
  BY <1>1, <1>2
<1> HIDE DEF Far
<1>5. QED
  BY <1>3, <1>4

(* What a step that leaves the ring alone keeps of MessagesWaiting.        *)
LEMMA MessagesKept ==
  ASSUME MessagesWaiting, UNCHANGED <<ring, msg_loop, read, messages>>,
         timeouts' = 0 => timeouts = 0,
         conn' = "publishMsg" <=> conn = "publishMsg"
  PROVE  MessagesWaiting'
BY DEF MessagesWaiting, Waiting, Ahead, ring

(* The ring keeps holding the messages not read yet, in order.             *)
LEMMA MessagesStep ==
  TypeOK /\ SlotsApart /\ MessagesWaiting /\ [Next]_vars => MessagesWaiting'
<1> SUFFICES ASSUME TypeOK, SlotsApart, MessagesWaiting, [Next]_vars
             PROVE  MessagesWaiting'
  OBVIOUS
<1>0. /\ conn \in Conns /\ curReadMsg \in Slots /\ curWriteMsg \in Slots
      /\ messages \in Nat /\ timeouts \in Nat /\ read \in Nat \cup {Torn}
      /\ msg_loop \in [Slots -> Nat \cup {Torn}]
      /\ RingSize \in Nat /\ RingSize >= 3
  BY RingSizeAssumption DEF TypeOK, Conns
<1>1. Waiting \in 0 .. RingSize - 2
  <2>1. Waiting = IF curWriteMsg >= curReadMsg THEN curWriteMsg - curReadMsg
                  ELSE curWriteMsg - curReadMsg + RingSize
    BY <1>0, AheadFacts DEF Waiting
  <2>2. QED
    BY <1>0, <2>1 DEF SlotsApart, Slots
<1>2. \A s \in Slots : Ahead(curReadMsg, s) \in 0 .. RingSize - 1
  <2> TAKE s \in Slots
  <2>1. Ahead(curReadMsg, s) = IF s >= curReadMsg THEN s - curReadMsg
                               ELSE s - curReadMsg + RingSize
    BY <1>0, AheadFacts
  <2>2. QED
    BY <1>0, <2>1 DEF Slots
<1>3. CASE Create \/ Created \/ CloseListener
  BY <1>3, MessagesKept DEF Create, Created, CloseListener, using, counts
<1>4. CASE Free
  <2>1. conn' = "publishMsg" <=> conn = "publishMsg"
    BY <1>0, <1>4, WokenFacts DEF Free
  <2>2. QED
    BY <1>4, <2>1, MessagesKept DEF Free, using, counts
<1>5. CASE Freed
  <2>1. /\ curReadMsg' = 0 /\ curWriteMsg' = 0 /\ 0 \in Slots /\ conn' = "none"
        /\ read' = 0 /\ messages' = 0
    BY <1>0, <1>5 DEF Freed, Slots, Blank
  <2>2. Waiting' = 0
    BY <2>1, AheadOfNext DEF Waiting, Ahead
  <2>3. ASSUME NEW s \in Slots PROVE ~(Ahead(curReadMsg, s)' < Waiting')
    <3>1. Ahead(curReadMsg, s)' = Ahead(curReadMsg', s)
      BY DEF Ahead
    <3>2. Ahead(curReadMsg', s) = IF s >= curReadMsg' THEN s - curReadMsg'
                                  ELSE s - curReadMsg' + RingSize
      BY <2>1, AheadFacts
    <3>3. QED
      BY <1>0, <2>1, <2>2, <3>1, <3>2 DEF Slots
  <2>4. QED
    BY <2>1, <2>2, <2>3 DEF MessagesWaiting, Ahead
<1>6. CASE Lock
  BY <1>6, MessagesKept DEF Lock, counts
<1>7. CASE Unlock
  <2>1. conn' = "publishMsg" <=> conn = "publishMsg"
    BY <1>0, <1>7, WokenFacts DEF Unlock
  <2>2. QED
    BY <1>7, <2>1, MessagesKept DEF Unlock, counts
<1>8. CASE NextMessage
  <2> SUFFICES ASSUME timeouts' = 0 PROVE MessagesWaiting'
    BY DEF MessagesWaiting
  <2>1. /\ timeouts = 0 /\ messages' = messages /\ msg_loop' = msg_loop
        /\ curWriteMsg' = curWriteMsg /\ read' = msg_loop[curReadMsg]
        /\ curReadMsg' = (curReadMsg + 1) % RingSize
    BY <1>8 DEF NextMessage, counts
  <2>2. conn' = "publishMsg" <=> conn = "publishMsg"
    BY <1>0, <1>8, WokenFacts DEF NextMessage
  <2>3. Waiting >= 1 /\ Waiting' = Waiting - 1
    BY <1>8, WaitingSteps
  <2>4. read \in Nat /\ read' = read + 1
    BY <1>0, <1>1, <2>1, <2>3, AheadOfNext DEF MessagesWaiting
  <2>5. ASSUME NEW s \in Slots, Ahead(curReadMsg, s)' < Waiting'
        PROVE  msg_loop'[s] = read' + 1 + Ahead(curReadMsg, s)'
    <3>1. Ahead(curReadMsg, s)' = IF s = curReadMsg THEN RingSize - 1
                                  ELSE Ahead(curReadMsg, s) - 1
      BY <1>0, <2>1, AheadOfNext DEF Ahead
    <3>2. s # curReadMsg /\ Ahead(curReadMsg, s)' = Ahead(curReadMsg, s) - 1
      BY <1>0, <1>1, <2>3, <2>5, <3>1
    <3>3. Ahead(curReadMsg, s) < Waiting
      BY <1>1, <1>2, <2>3, <2>5, <3>2
    <3>4. msg_loop[s] = read + 1 + Ahead(curReadMsg, s)
      BY <2>1, <3>3 DEF MessagesWaiting
    <3>5. QED
      BY <1>2, <2>1, <2>4, <3>2, <3>4
  <2>6. messages' = read' + Waiting' + (IF conn' = "publishMsg" THEN 1 ELSE 0)
    BY <1>0, <1>1, <2>1, <2>2, <2>3, <2>4 DEF MessagesWaiting
  <2>7. conn' = "publishMsg" => msg_loop'[curWriteMsg'] = messages'
    BY <2>1, <2>2 DEF MessagesWaiting
  <2>8. QED
    BY <2>4, <2>5, <2>6, <2>7 DEF MessagesWaiting
<1>9. CASE MessageHandled \/ NoMessage
  BY <1>9, MessagesKept DEF MessageHandled, NoMessage, using, counts
<1>10. CASE Moves
  BY <1>10, MovesFacts, MessagesKept DEF Local, using, counts
<1>11. CASE Fill \/ FillHalf
  BY <1>11, MessagesKept DEF Fill, FillHalf, Filled, using, counts
<1>12. CASE FillNone \/ FillMsgNone
  BY <1>0, <1>12 DEF FillNone, FillMsgNone, MessagesWaiting
<1>13. CASE Publish
  BY <1>13, MessagesKept DEF Publish, using, counts
<1>14. CASE FillMsg \/ FillMsgHalf
  <2> SUFFICES ASSUME timeouts' = 0 PROVE MessagesWaiting'
    BY DEF MessagesWaiting
  <2>1. /\ timeouts = 0 /\ conn = "fillMsg" /\ UNCHANGED ring /\ read' = read
        /\ \A s \in Slots : s # curWriteMsg => msg_loop'[s] = msg_loop[s]
        /\ UNCHANGED Waiting
    BY <1>0, <1>14 DEF FillMsg, FillMsgHalf, FilledMsg, using, counts, ring, Waiting, Ahead
  <2>2. ASSUME NEW s \in Slots, Ahead(curReadMsg, s)' < Waiting'
        PROVE  msg_loop'[s] = read' + 1 + Ahead(curReadMsg, s)'
    <3>1. Ahead(curReadMsg, s)' = Ahead(curReadMsg, s)
      BY <2>1 DEF Ahead, ring
    <3>2. s # curWriteMsg
      BY <1>1, <2>1, <2>2, <3>1 DEF Waiting
    <3>3. QED
      BY <2>1, <2>2, <3>1, <3>2 DEF MessagesWaiting
  <2>3. messages = read + Waiting /\ read \in Nat
    BY <1>1, <2>1 DEF MessagesWaiting
  <2>4. CASE FillMsg
    <3>1. /\ conn' = "publishMsg" /\ messages' = messages + 1
          /\ msg_loop'[curWriteMsg'] = messages + 1
      BY <1>0, <2>1, <2>4 DEF FillMsg, FilledMsg, ring
    <3>2. messages' = read' + Waiting' + 1
      BY <1>1, <2>1, <2>3, <3>1
    <3>3. QED
      BY <2>1, <2>2, <2>3, <3>1, <3>2 DEF MessagesWaiting
  <2>5. CASE FillMsgHalf
    <3>1. conn' = "none" /\ messages' = messages
      BY <2>5 DEF FillMsgHalf, FilledMsg, counts
    <3>2. messages' = read' + Waiting' + 0
      BY <1>1, <2>1, <2>3, <3>1
    <3>3. QED
      BY <2>1, <2>2, <2>3, <3>1, <3>2 DEF MessagesWaiting
  <2>6. QED
    BY <1>14, <2>4, <2>5
<1>15. CASE PublishMsg
  <2> SUFFICES ASSUME timeouts' = 0 PROVE MessagesWaiting'
    BY DEF MessagesWaiting
  <2>1. /\ timeouts = 0 /\ conn = "publishMsg" /\ conn' = "packet"
        /\ messages' = messages /\ read' = read /\ msg_loop' = msg_loop
        /\ curReadMsg' = curReadMsg
    BY <1>15 DEF PublishMsg, using, counts
  <2>2. Waiting' = Waiting + 1
    BY <1>15, <2>1, WaitingSteps DEF SlotsApart
  <2>3. /\ read \in Nat /\ messages = read + Waiting + 1
        /\ msg_loop[curWriteMsg] = messages
    BY <2>1 DEF MessagesWaiting
  <2>4. ASSUME NEW s \in Slots, Ahead(curReadMsg, s)' < Waiting'
        PROVE  msg_loop'[s] = read' + 1 + Ahead(curReadMsg, s)'
    <3>1. Ahead(curReadMsg, s)' = Ahead(curReadMsg, s)
      BY <2>1 DEF Ahead
    <3>2. CASE Ahead(curReadMsg, s) < Waiting
      BY <2>1, <3>1, <3>2 DEF MessagesWaiting
    <3>3. CASE ~(Ahead(curReadMsg, s) < Waiting)
      <4>1. Ahead(curReadMsg, s) = Waiting
        BY <1>1, <1>2, <2>2, <2>4, <3>1, <3>3
      <4>2. s = curWriteMsg
        BY <1>0, <4>1, AheadApart DEF Waiting
      <4>3. QED
        BY <1>1, <2>1, <2>3, <3>1, <4>1, <4>2
    <3>4. QED
      BY <3>2, <3>3
  <2>5. messages' = read' + Waiting' + 0
    BY <1>1, <2>1, <2>2, <2>3
  <2>6. QED
    BY <2>1, <2>3, <2>4, <2>5 DEF MessagesWaiting
<1>16. CASE UNCHANGED vars
  BY <1>16, MessagesKept DEF vars, using, counts
<1>17. QED
  BY Steps, <1>3, <1>4, <1>5, <1>6, <1>7, <1>8, <1>9, <1>10, <1>11, <1>12, <1>13,
     <1>14, <1>15, <1>16

-----------------------------------------------------------------------------
(* The whole invariant holds in every state.                               *)
THEOREM InductiveInvariant == Spec => []IInv
<1>1. IInv /\ [Next]_vars => IInv'
  BY TypeStep, BufferStep, SlotsStep, NewestStep, MessagesStep DEF IInv
<1>2. QED
  BY <1>1, InitIInv, PTL DEF Spec

(* Exclusion: the connection thread never fills the buffer or the slot     *)
(* that the main thread is reading outside the mutex.                      *)
THEOREM NothingFilledWhileRead == Spec => []NotWhileRead
<1>1. IInv => NotWhileRead
  <2> SUFFICES ASSUME IInv PROVE NotWhileRead
    OBVIOUS
  <2>1. ASSUME conn = "fill" PROVE held # fld_net
    BY <2>1 DEF IInv, TypeOK, BufferOwned, Buffers, Nothing
  <2>2. ASSUME conn = "fillMsg", heldMsg = curWriteMsg PROVE FALSE
    <3>1. /\ RingSize \in Nat /\ RingSize >= 3
          /\ curReadMsg \in Slots /\ curWriteMsg \in Slots
          /\ Waiting <= RingSize - 3 /\ heldMsg # Nothing
      BY <2>2, RingSizeAssumption DEF IInv, TypeOK, SlotsApart, Slots, Nothing
    <3>2. Ahead(curWriteMsg, curReadMsg) = 1
      BY <2>2, <3>1 DEF IInv, SlotsApart
    <3>3. /\ Waiting = IF curWriteMsg >= curReadMsg THEN curWriteMsg - curReadMsg
                       ELSE curWriteMsg - curReadMsg + RingSize
          /\ Ahead(curWriteMsg, curReadMsg)
               = IF curReadMsg >= curWriteMsg THEN curReadMsg - curWriteMsg
                 ELSE curReadMsg - curWriteMsg + RingSize
      BY <3>1, AheadFacts DEF Waiting
    <3>4. QED
      BY <3>1, <3>2, <3>3 DEF Slots
  <2>3. QED
    BY <2>1, <2>2 DEF NotWhileRead
<1>2. QED
  BY <1>1, InductiveInvariant, PTL

(* Order of fields: while no read has timed out, fieldServerLock hands     *)
(* over only fields newer than the last.                                   *)
THEOREM FieldsInOrder == Spec => FieldsAdvance
<1>1. IInv /\ [Next]_vars => [timeouts = 0 => HandsNewField]_vars
  BY DEF IInv, TypeOK, BufferOwned, NewestPublished, HandsNewField, Lock, Nothing, Buffers
<1>2. QED
  BY <1>1, InductiveInvariant, PTL DEF Spec, FieldsAdvance

(* Order of messages: while no read has timed out, every message received  *)
(* is returned by fieldServerNextMessage once, in order.                   *)
THEOREM MessagesReadInOrder == Spec => MessagesInOrder
<1>1. IInv /\ [Next]_vars => [timeouts = 0 /\ NextMessage => read' = read + 1]_vars
  <2> SUFFICES ASSUME IInv, timeouts = 0, NextMessage PROVE read' = read + 1
    OBVIOUS
  <2>1. read \in Nat /\ curReadMsg \in Slots /\ Waiting >= 1
    BY WaitingSteps DEF IInv, TypeOK, MessagesWaiting
  <2>2. Waiting \in Int /\ Ahead(curReadMsg, curReadMsg) = 0
    <3>1. Waiting = IF curWriteMsg >= curReadMsg THEN curWriteMsg - curReadMsg
                    ELSE curWriteMsg - curReadMsg + RingSize
      BY AheadFacts DEF IInv, TypeOK, Waiting
    <3>2. QED
      BY <2>1, <3>1, AheadOfNext, RingSizeAssumption DEF IInv, TypeOK, Slots
  <2>3. msg_loop[curReadMsg] = read + 1 + 0
    BY <2>1, <2>2 DEF IInv, MessagesWaiting
  <2>4. QED
    BY <2>1, <2>3 DEF NextMessage
<1>2. QED
  BY <1>1, InductiveInvariant, PTL DEF Spec, MessagesInOrder
=============================================================================
