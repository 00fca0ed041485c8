------------------------- MODULE GcdCoherenceProofs -------------------------
(***************************************************************************)
(* Proofs about the Grand Central scheduler, for every number of rows and  *)
(* pieces and every set of dependencies short enough for the rows: the     *)
(* inductive invariant IInv, and the refinement of TaskGrid.               *)
(***************************************************************************)
EXTENDS GcdCoherence, SequenceTheorems, TLAPS

USE GcdAssumption DEF Rows, Added

(* A piece of a row that is done moves the row below it by as many pieces  *)
(* as it dispatches, and by NData altogether (mp_coherence_gcd.c 113-131). *)
LEMMA ReachMoves ==
  ASSUME NEW c \in 0 .. NData - 1, NEW d \in Int, -d \in Deps
  PROVE  Reach(c + 1, d) = Reach(c, d)
           + (IF c = NData - 1 THEN -d + 2 ELSE IF c > -d THEN 1 ELSE 0)
  BY SMT DEF Reach

(* The row below is never ahead of what it looks at.                       *)
LEMMA ReachBehind ==
  ASSUME NEW c \in 0 .. NData, NEW d \in Int, -d \in Deps
  PROVE  /\ Reach(c, d) \in 0 .. NData
         /\ c < NData => Reach(c, d) <= c \/ Reach(c, d) = 0
         /\ Reach(c, d) > 0 => c = NData \/ Reach(c, d) - d + 1 = c
  BY SMT DEF Reach

-----------------------------------------------------------------------------
(* The invariant holds of an empty coherence object.                       *)
LEMMA InitHolds == Init => IInv
  BY SMT DEF Init, IInv, TypeOK, RowsFollow, DepsStated, OthersIdle, WaitedDone, Dispatched, Reach

(* Adding a row keeps it: the row starts with nothing dispatched.          *)
LEMMA AddKeeps ==
  ASSUME IInv, NEW d \in Deps, TaskAdd(d)
  PROVE  IInv'
<1> USE DEF IInv, TaskAdd
<1>1. TypeOK'
  <2>1. num_tasks \in Rows /\ num_tasks' \in 0 .. MaxTasks BY SMT DEF TypeOK
  <2>2. dep' \in [Rows -> Int]
    <3>1. -d \in Int BY SMT
    <3> QED BY <2>1, <3>1, Zenon DEF TypeOK
  <2>3. cur' \in [Rows -> 0 .. NData]
    <3>1. 0 \in 0 .. NData BY SMT
    <3> QED BY <2>1, <3>1, Zenon DEF TypeOK
  <2>4. UNCHANGED <<queued, executing, main>> OBVIOUS
  <2> QED BY <2>1, <2>2, <2>3, <2>4, Zenon DEF TypeOK
<1>2. RowsFollow' BY SMT DEF TypeOK, RowsFollow, OthersIdle, Dispatched
<1>3. DepsStated' BY SMT DEF TypeOK, DepsStated
<1>4. OthersIdle' BY SMT DEF TypeOK, OthersIdle
<1>5. WaitedDone' BY SMT DEF TypeOK, WaitedDone
<1> QED BY <1>1, <1>2, <1>3, <1>4, <1>5

(* Launching dispatches all of the first row, and nothing of the others.   *)
LEMMA LaunchKeeps ==
  ASSUME IInv, TaskLaunch
  PROVE  IInv'
<1> USE DEF IInv, TaskLaunch, data
<1>1. TypeOK' BY SMT DEF TypeOK
<1>2. RowsFollow'
  <2> SUFFICES ASSUME NEW x \in Added
               PROVE  Dispatched(x)' = IF x = 0 THEN NData ELSE Reach(cur[x - 1], dep[x])
      BY SMT DEF RowsFollow
  <2>0. \A y \in Added : cur[y] = 0 /\ queued[y] = 0 /\ ~executing[y]
        BY SMT DEF TypeOK, RowsFollow, Dispatched
  <2>1. cur[x] = 0 /\ queued[x] = 0 /\ ~executing[x] BY <2>0
  <2>2. Dispatched(x)' = IF x = 0 THEN NData ELSE 0
        BY <2>1, SMT DEF TypeOK, Dispatched
  <2>3. CASE x # 0
    <3>1. x - 1 \in Added BY <2>3, SMT DEF TypeOK
    <3>2. cur[x - 1] = 0 BY <2>0, <3>1
    <3>3. -dep[x] \in Deps /\ dep[x] \in Int BY SMT DEF TypeOK, DepsStated
    <3> QED BY <3>2, <3>3, <2>2, <2>3, SMT DEF Reach
  <2> QED BY <2>2, <2>3
<1>3. DepsStated' BY SMT DEF TypeOK, DepsStated
<1>4. OthersIdle' BY SMT DEF TypeOK, OthersIdle
<1>5. WaitedDone' BY SMT DEF TypeOK, WaitedDone
<1> QED BY <1>1, <1>2, <1>3, <1>4, <1>5

(* A queue that takes an item is a queue of the frame.                     *)
LEMMA ExecuteKeeps ==
  ASSUME IInv, NEW x \in Rows, Execute(x)
  PROVE  IInv'
<1> USE DEF IInv, Execute, data
<1>1. TypeOK' BY SMT DEF TypeOK
<1>2. RowsFollow'
  <2>1. ASSUME NEW y \in Rows PROVE Dispatched(y)' = Dispatched(y)
    <3>1. cur[y] \in Nat /\ queued[y] \in Nat BY SMT DEF TypeOK
    <3>2. CASE y = x
      <4>1. ~executing[y] /\ executing'[y] /\ queued'[y] = queued[y] - 1
            BY <3>2 DEF TypeOK
      <4> QED BY <3>1, <4>1, SMT DEF Dispatched
    <3>3. CASE y # x
      <4>1. executing'[y] = executing[y] /\ queued'[y] = queued[y]
            BY <3>3 DEF TypeOK
      <4> QED BY <4>1 DEF Dispatched
    <3> QED BY <3>2, <3>3
  <2> QED BY <2>1, SMT DEF TypeOK, RowsFollow
<1>3. DepsStated' BY SMT DEF TypeOK, DepsStated
<1>4. OthersIdle' BY SMT DEF TypeOK, OthersIdle
<1>5. WaitedDone' BY SMT DEF TypeOK, WaitedDone
<1> QED BY <1>1, <1>2, <1>3, <1>4, <1>5

(* What runs is a piece of the frame, which has been launched.             *)
LEMMA Running ==
  ASSUME IInv, NEW x \in Rows, executing[x] \/ queued[x] > 0
  PROVE  /\ x \in Added /\ main.pc = "wait" /\ -dep[x] \in Deps
         /\ cur[x] \in 0 .. NData - 1 /\ cur[x] + queued[x] <= NData
         /\ x > 0 => Dispatched(x) = Reach(cur[x - 1], dep[x])
<1> USE DEF IInv
<1>1. x \in Added /\ -dep[x] \in Deps
      BY SMT DEF TypeOK, OthersIdle, DepsStated
<1>2. main.pc = "wait"
      BY <1>1, SMT DEF TypeOK, RowsFollow, Dispatched
<1>3. Dispatched(x) = IF x = 0 THEN NData ELSE Reach(cur[x - 1], dep[x])
      BY <1>1, <1>2, SMT DEF RowsFollow
<1>4. Dispatched(x) <= NData
  <2>1. CASE x = 0 BY <2>1, <1>3, SMT
  <2>2. CASE x # 0
    <3>1. cur[x - 1] \in 0 .. NData /\ dep[x] \in Int BY <2>2, SMT DEF TypeOK
    <3>2. Reach(cur[x - 1], dep[x]) \in 0 .. NData BY <3>1, <1>1, ReachBehind
    <3> QED BY <3>2, <2>2, <1>3, SMT
  <2> QED BY <2>1, <2>2
<1>5. cur[x] \in 0 .. NData - 1 /\ cur[x] + queued[x] <= NData
  <2>1. cur[x] \in 0 .. NData /\ queued[x] \in 0 .. NData BY SMT DEF TypeOK
  <2>2. CASE executing[x] BY <2>1, <2>2, <1>4, SMT DEF Dispatched
  <2>3. CASE ~executing[x]
    <3>1. queued[x] > 0 BY <2>3
    <3> QED BY <2>1, <2>3, <3>1, <1>4, SMT DEF Dispatched
  <2> QED BY <2>2, <2>3
<1> QED BY <1>1, <1>2, <1>3, <1>5, SMT

(* A piece that is done moves the row below it, and no other.              *)
LEMMA FinishKeeps ==
  ASSUME IInv, NEW x \in Rows, Finish(x)
  PROVE  IInv'
<1> USE DEF IInv
<1>1. /\ executing[x] /\ x \in Added /\ main.pc = "wait"
      /\ cur[x] \in 0 .. NData - 1
      BY Running DEF Finish
<1>2. ASSUME x + 1 \in Added
      PROVE  /\ Dispatches(x) \in Nat
             /\ Dispatched(x + 1) + Dispatches(x) = Reach(cur[x] + 1, dep[x + 1])
             /\ Reach(cur[x] + 1, dep[x + 1]) \in 0 .. NData
  <2>1. -dep[x + 1] \in Deps /\ dep[x + 1] \in Int
        BY <1>2, SMT DEF TypeOK, DepsStated
  <2>2. Dispatched(x + 1) = Reach(cur[x], dep[x + 1])
    <3>1. Dispatched(x + 1) = IF main.pc = "add" THEN 0
                              ELSE IF x + 1 = 0 THEN NData ELSE Reach(cur[x + 1 - 1], dep[x + 1])
          BY <1>2 DEF RowsFollow
    <3>2. x + 1 # 0 /\ x + 1 - 1 = x BY SMT
    <3> QED BY <3>1, <3>2, <1>1
  <2>3. Dispatches(x) = IF cur[x] = NData - 1 THEN -dep[x + 1] + 2
                        ELSE IF cur[x] > -dep[x + 1] THEN 1 ELSE 0
    <3>1. x + 1 # num_tasks BY <1>2, SMT DEF TypeOK
    <3>2. Distance(x + 1) = -dep[x + 1] BY <2>1, SMT DEF Distance
    <3> QED BY <3>1, <3>2 DEF Dispatches
  <2>4. Reach(cur[x] + 1, dep[x + 1]) = Reach(cur[x], dep[x + 1]) + Dispatches(x)
        BY <1>1, <2>1, <2>3, ReachMoves
  <2>5. Reach(cur[x] + 1, dep[x + 1]) \in 0 .. NData
        BY <1>1, <2>1, ReachBehind, SMT
  <2> QED BY <2>1, <2>2, <2>3, <2>4, <2>5, SMT
<1>3. x + 1 \notin Added => Dispatches(x) = 0
      BY <1>1, SMT DEF Dispatches, TypeOK
<1>4. TypeOK'
  <2>1. \A y \in Rows : queued'[y] \in 0 .. NData
    <3> SUFFICES ASSUME NEW y \in Rows PROVE queued'[y] \in 0 .. NData
        OBVIOUS
    <3>0. /\ queued[y] \in 0 .. NData /\ cur[y] \in 0 .. NData
          /\ queued'[y] = IF y = x + 1 THEN queued[y] + Dispatches(x) ELSE queued[y]
          BY DEF Finish, TypeOK
    <3>1. CASE y = x + 1 /\ x + 1 \in Added
          BY <3>0, <3>1, <1>2, SMT DEF Dispatched
    <3>2. CASE y = x + 1 /\ x + 1 \notin Added
          BY <3>0, <3>2, <1>3, SMT
    <3>3. CASE y # x + 1
          BY <3>0, <3>3
    <3> QED BY <3>1, <3>2, <3>3
  <2>2. queued' \in [Rows -> 0 .. NData] BY <2>1 DEF Finish
  <2>3. cur' \in [Rows -> 0 .. NData] BY <1>1, SMT DEF Finish, TypeOK
  <2>4. executing' \in [Rows -> BOOLEAN] BY DEF Finish, TypeOK
  <2> QED BY <2>2, <2>3, <2>4 DEF Finish, TypeOK
<1>5. RowsFollow'
  <2> SUFFICES ASSUME NEW y \in Added
               PROVE  Dispatched(y)' = IF y = 0 THEN NData ELSE Reach(cur'[y - 1], dep[y])
      BY <1>1, SMT DEF RowsFollow, Finish
  <2>1. Dispatched(y) = IF y = 0 THEN NData ELSE Reach(cur[y - 1], dep[y])
        BY <1>1, SMT DEF RowsFollow
  <2>2. CASE y = x
        BY <1>1, <2>1, <2>2, SMT DEF TypeOK, Finish, Dispatched
  <2>3. CASE y = x + 1
    <3>1. cur'[y - 1] = cur[x] + 1 BY <2>3, <1>1, SMT DEF Finish, TypeOK
    <3>2. Dispatched(y)' = Dispatched(y) + Dispatches(x)
      <4>1. /\ cur'[y] = cur[y] /\ executing'[y] = executing[y]
            /\ queued'[y] = queued[y] + Dispatches(x)
        <5>1. y \in Rows /\ x # y BY <2>3, SMT DEF TypeOK
        <5> QED BY <5>1, <2>3 DEF Finish, TypeOK
      <4>2. cur[y] \in Nat /\ queued[y] \in Nat
            BY <1>1, <2>3, SMT DEF TypeOK
      <4> QED BY <4>1, <4>2, <1>2, <2>3, SMT DEF Dispatched
    <3> QED BY <3>1, <3>2, <1>2, <2>3, SMT
  <2>4. CASE y # x /\ y # x + 1
    <3>1. Dispatched(y)' = Dispatched(y)
          BY <2>4, SMT DEF Finish, TypeOK, Dispatched
    <3>2. y # 0 => cur'[y - 1] = cur[y - 1]
          BY <2>4, SMT DEF Finish, TypeOK
    <3> QED BY <3>1, <3>2, <2>1
  <2> QED BY <2>2, <2>3, <2>4
<1>6. DepsStated' BY SMT DEF DepsStated, Finish
<1>7. OthersIdle'
  <2> SUFFICES ASSUME NEW y \in Rows \ Added PROVE queued'[y] = 0 /\ ~executing'[y]
      BY SMT DEF OthersIdle, Finish
  <2>1. queued[y] = 0 /\ ~executing[y] BY DEF OthersIdle
  <2> QED BY <2>1, <1>1, <1>3, SMT DEF TypeOK, Finish
<1>8. WaitedDone'
  <2>1. x \notin 0 .. main.x - 1 BY <1>1, SMT DEF WaitedDone, TypeOK
  <2>2. \A y \in 0 .. main.x - 1 : cur'[y] = cur[y]
        BY <2>1, <1>1, SMT DEF WaitedDone, TypeOK, Finish
  <2> QED BY <2>2 DEF WaitedDone, Finish
<1> QED BY <1>4, <1>5, <1>6, <1>7, <1>8

(* A row that was waited for is done, as the rows above it were.           *)
LEMMA WaitKeeps ==
  ASSUME IInv, TaskWait
  PROVE  IInv'
<1> USE DEF IInv, TaskWait, data
<1>1. cur[main.x] = NData
  <2>1. main.x \in Added BY SMT DEF TypeOK
  <2>2. Dispatched(main.x) = cur[main.x]
    <3>1. cur[main.x] \in 0 .. NData BY <2>1, SMT DEF TypeOK
    <3>2. queued[main.x] = 0 /\ ~executing[main.x] BY DEF GroupEmpty
    <3> QED BY <3>1, <3>2, SMT DEF Dispatched
  <2>3. main.x # 0 => cur[main.x - 1] = NData
    <3>1. main.x # 0 => main.x - 1 \in 0 .. main.x - 1 BY <2>1, SMT
    <3> QED BY <3>1 DEF WaitedDone
  <2>4. Dispatched(main.x) = IF main.x = 0 THEN NData
                             ELSE Reach(cur[main.x - 1], dep[main.x])
        BY <2>1, SMT DEF RowsFollow
  <2> QED BY <2>2, <2>3, <2>4 DEF Reach
<1>2. TypeOK'
  <2>1. main.x + 1 \in 0 .. MaxTasks
    <3>1. main.x \in 0 .. MaxTasks BY DEF TypeOK
    <3>2. num_tasks \in 0 .. MaxTasks /\ main.x < num_tasks BY DEF TypeOK
    <3> QED BY <3>1, <3>2, SMT
  <2>2. main' \in [pc : {"add", "wait"}, x : 0 .. MaxTasks] BY <2>1
  <2> QED BY <2>2 DEF TypeOK
<1>3. RowsFollow' BY SMT DEF TypeOK, RowsFollow, Dispatched
<1>4. DepsStated' BY SMT DEF TypeOK, DepsStated
<1>5. OthersIdle' BY DEF OthersIdle
<1>6. WaitedDone'
  <2>1. main'.x = main.x + 1 /\ main.x \in Nat /\ num_tasks \in Nat BY SMT DEF TypeOK
  <2>2. \A y \in 0 .. main.x : cur[y] = NData BY <1>1, <2>1, SMT DEF WaitedDone
  <2> QED BY <2>1, <2>2, SMT DEF WaitedDone
<1> QED BY <1>2, <1>3, <1>4, <1>5, <1>6

(* When all groups were waited for, all rows are done and nothing is left  *)
(* in any queue.                                                           *)
LEMMA AllDone ==
  ASSUME IInv, main.pc = "wait", main.x = num_tasks
  PROVE  /\ \A x \in Added : cur[x] = NData
         /\ \A x \in Rows : queued[x] = 0 /\ ~executing[x]
<1> USE DEF IInv
<1>1. \A x \in Added : cur[x] = NData
      BY SMT DEF WaitedDone, TypeOK
<1>2. ASSUME NEW x \in Rows PROVE queued[x] = 0 /\ ~executing[x]
  <2>1. executing[x] \/ queued[x] > 0 => x \in Added /\ cur[x] \in 0 .. NData - 1
        BY Running
  <2>2. ~(executing[x] \/ queued[x] > 0) BY <2>1, <1>1, SMT
  <2> QED BY <2>2, SMT DEF TypeOK
<1> QED BY <1>1, <1>2

(* The next frame starts with idle queues.                                 *)
LEMMA ResetKeeps ==
  ASSUME IInv, Reset
  PROVE  IInv'
<1>1. \A x \in Rows : queued[x] = 0 /\ ~executing[x]
      BY AllDone DEF Reset
<1> QED
  BY <1>1, SMT DEF IInv, Reset, TypeOK, RowsFollow, DepsStated, OthersIdle, WaitedDone

LEMMA StepKeeps == IInv /\ [Next]_vars => IInv'
<1> SUFFICES ASSUME IInv, [Next]_vars PROVE IInv'
    OBVIOUS
<1>1. ASSUME NEW d \in Deps, TaskAdd(d) PROVE IInv' BY <1>1, AddKeeps
<1>2. CASE TaskLaunch BY <1>2, LaunchKeeps
<1>3. ASSUME NEW x \in Rows, Execute(x) PROVE IInv' BY <1>3, ExecuteKeeps
<1>4. ASSUME NEW x \in Rows, Finish(x) PROVE IInv' BY <1>4, FinishKeeps
<1>5. CASE TaskWait BY <1>5, WaitKeeps
<1>6. CASE Reset BY <1>6, ResetKeeps
<1>7. CASE UNCHANGED vars
      BY <1>7 DEF vars, data, IInv, TypeOK, RowsFollow, DepsStated, OthersIdle, WaitedDone,
                  Dispatched, Reach
<1> QED BY <1>1, <1>2, <1>3, <1>4, <1>5, <1>6, <1>7 DEF Next

(* IInv holds in every state, for every number of rows and pieces.         *)
THEOREM InductiveInvariant == Spec => []IInv
  BY InitHolds, StepKeeps, PTL DEF Spec

(* Every variable keeps its type: no row is dispatched past its end.       *)
THEOREM TypeCorrect == Spec => []TypeOK
<1>1. IInv => TypeOK BY DEF IInv
<1> QED BY <1>1, InductiveInvariant, PTL
-----------------------------------------------------------------------------
(* What the callers ask of a row.                                          *)
Described == [depend : {"inorder"}, bottom : Deps]

(* The rows of the frame, read off the coherence object.                   *)
LEMMA FrameRows ==
  ASSUME IInv
  PROVE  /\ GridRows \in Seq(Described)
         /\ Len(GridRows) = num_tasks /\ Grid!Row = Added
         /\ \A x \in Added : GridRows[x + 1] = [depend |-> "inorder", bottom |-> -dep[x]]
<1> USE DEF IInv
<1>1. num_tasks \in Nat BY SMT DEF TypeOK
<1>2. \A i \in 1 .. num_tasks : i - 1 \in Added BY <1>1, SMT
<1>3. \A i \in 1 .. num_tasks :
        [depend |-> "inorder", bottom |-> -dep[i - 1]] \in Described
      BY <1>2, SMT DEF DepsStated, Described
<1>4. GridRows \in [1 .. num_tasks -> Described]
      BY <1>3 DEF GridRows
<1>5. GridRows \in Seq(Described) /\ Len(GridRows) = num_tasks
  <2> SUFFICES ASSUME NEW n \in Nat, NEW s \in [1 .. n -> Described]
               PROVE  s \in Seq(Described) /\ Len(s) = n
      BY <1>1, <1>4
  <2> HIDE DEF IInv
  <2> QED OBVIOUS
<1>6. ASSUME NEW x \in Added
      PROVE  GridRows[x + 1] = [depend |-> "inorder", bottom |-> -dep[x]]
  <2>1. x + 1 \in 1 .. num_tasks /\ x + 1 - 1 = x BY <1>1, SMT
  <2>2. GridRows[x + 1] = [depend |-> "inorder", bottom |-> -dep[x + 1 - 1]]
        BY <2>1 DEF GridRows
  <2> QED BY <2>1, <2>2
<1> QED BY <1>5, <1>6 DEF Grid!Row

(* A row that is added has no piece done or begun.                         *)
LEMMA AddIsAdd ==
  ASSUME IInv, NEW d \in Deps, TaskAdd(d)
  PROVE  Grid!Add([depend |-> "inorder", bottom |-> d])
<1> DEFINE r == [depend |-> "inorder", bottom |-> d]
<1> USE DEF IInv, TaskAdd
<1>0. num_tasks \in Rows /\ num_tasks' = num_tasks + 1 /\ ~executing[num_tasks]
      /\ num_tasks \in Nat
      BY SMT DEF TypeOK, OthersIdle
<1>1. Len(GridRows) < MaxTasks BY FrameRows, <1>0
<1>2. GridRows' = Append(GridRows, r)
  <2>1. \A i \in 1 .. num_tasks + 1 : (-dep[i - 1])' = IF i = num_tasks + 1 THEN d ELSE -dep[i - 1]
    <3> SUFFICES ASSUME NEW i \in 1 .. num_tasks + 1
                 PROVE  (-dep[i - 1])' = IF i = num_tasks + 1 THEN d ELSE -dep[i - 1]
        OBVIOUS
    <3>1. CASE i = num_tasks + 1 BY <1>0, <3>1, SMT DEF TypeOK
    <3>2. CASE i # num_tasks + 1
      <4>1. i - 1 \in Rows /\ i - 1 # num_tasks BY <1>0, <3>2, SMT DEF TypeOK
      <4> QED BY <3>2, <4>1 DEF TypeOK
    <3> QED BY <3>1, <3>2
  <2>2. GridRows' = [i \in 1 .. num_tasks + 1 |-> IF i = num_tasks + 1 THEN r ELSE GridRows[i]]
    <3>1. \A i \in 1 .. num_tasks + 1 :
             [depend |-> "inorder", bottom |-> (-dep[i - 1])']
               = IF i = num_tasks + 1 THEN r ELSE GridRows[i]
      <4> SUFFICES ASSUME NEW i \in 1 .. num_tasks + 1
                   PROVE [depend |-> "inorder", bottom |-> (-dep[i - 1])']
                          = IF i = num_tasks + 1 THEN r ELSE GridRows[i]
          OBVIOUS
      <4>1. CASE i = num_tasks + 1 BY <2>1, <4>1
      <4>2. CASE i # num_tasks + 1
        <5>1. i \in 1 .. num_tasks BY <4>2, <1>0, SMT
        <5>2. GridRows[i] = [depend |-> "inorder", bottom |-> -dep[i - 1]]
              BY <5>1 DEF GridRows
        <5> QED BY <5>2, <4>2, <2>1
      <4> QED BY <4>1, <4>2
    <3>2. GridRows' = [i \in 1 .. num_tasks + 1 |-> [depend |-> "inorder", bottom |-> (-dep[i - 1])']]
          BY <1>0 DEF GridRows
    <3> QED BY <3>1, <3>2
  <2>3. Append(GridRows, r) = [i \in 1 .. num_tasks + 1 |-> IF i = num_tasks + 1 THEN r ELSE GridRows[i]]
    <3>1. r \in Described BY DEF Described
    <3> HIDE DEF r
    <3>2. /\ Append(GridRows, r) \in Seq(Described)
          /\ Len(Append(GridRows, r)) = num_tasks + 1
          /\ \A i \in 1 .. num_tasks : Append(GridRows, r)[i] = GridRows[i]
          /\ Append(GridRows, r)[num_tasks + 1] = r
          BY <3>1, FrameRows, AppendProperties
    <3>3. Append(GridRows, r) \in [1 .. num_tasks + 1 -> Described]
          BY <3>2, LenProperties
    <3>4. \A i \in 1 .. num_tasks + 1 :
            Append(GridRows, r)[i] = IF i = num_tasks + 1 THEN r ELSE GridRows[i]
      <4>1. \A i \in 1 .. num_tasks + 1 : i # num_tasks + 1 => i \in 1 .. num_tasks
            BY <1>0, SMT
      <4> QED BY <3>2, <4>1
    <3>5. Append(GridRows, r) = [i \in 1 .. num_tasks + 1 |-> Append(GridRows, r)[i]]
          BY <3>3
    <3> QED BY <3>4, <3>5
  <2> QED BY <2>2, <2>3
<1>3. Done' = Done /\ Begun' = Begun
  <2>1. ASSUME NEW p \in Rows \X (0 .. NData)
        PROVE  /\ (p[1] < num_tasks' /\ p[2] < cur'[p[1]]) <=> (p[1] < num_tasks /\ p[2] < cur[p[1]])
               /\ (p[1] < num_tasks' /\ p[2] = cur'[p[1]] /\ executing[p[1]])
                    <=> (p[1] < num_tasks /\ p[2] = cur[p[1]] /\ executing[p[1]])
    <3>1. CASE p[1] = num_tasks
      <4>1. cur'[p[1]] = 0 BY <3>1, <1>0 DEF TypeOK
      <4> QED BY <4>1, <3>1, <1>0, SMT
    <3>2. CASE p[1] # num_tasks
      <4>1. cur'[p[1]] = cur[p[1]] BY <3>2, <1>0 DEF TypeOK
      <4>2. p[1] < num_tasks' <=> p[1] < num_tasks BY <3>2, <1>0, SMT
      <4> QED BY <4>1, <4>2
    <3> QED BY <3>1, <3>2
  <2>2. Done' = Done BY <2>1 DEF Done
  <2>3. {p \in Rows \X (0 .. NData) : p[1] < num_tasks' /\ p[2] = cur'[p[1]] /\ executing[p[1]]}
         = {p \in Rows \X (0 .. NData) : p[1] < num_tasks /\ p[2] = cur[p[1]] /\ executing[p[1]]}
        BY <2>1
  <2> QED BY <2>2, <2>3 DEF Begun
<1> QED BY <1>1, <1>2, <1>3 DEF Grid!Add

(* A piece that a queue begins has all it needs, and had not begun.        *)
LEMMA ExecuteIsBegin ==
  ASSUME IInv, NEW x \in Rows, Execute(x)
  PROVE  x \in Grid!Row /\ cur[x] \in Grid!Piece /\ Grid!Begin(x, cur[x])
<1> USE DEF IInv
<1>0. /\ x \in Added /\ main.pc = "wait" /\ -dep[x] \in Deps
      /\ cur[x] \in 0 .. NData - 1 /\ queued[x] \in Nat /\ queued[x] > 0 /\ ~executing[x]
      /\ x > 0 => Dispatched(x) = Reach(cur[x - 1], dep[x])
      BY Running DEF Execute, TypeOK
<1>1. x \in Grid!Row /\ cur[x] \in Grid!Piece BY <1>0, FrameRows DEF Grid!Piece
<1>2. <<x, cur[x]>> \notin Begun BY <1>0, SMT DEF Begun, Done
<1>3. Grid!Needs(x, cur[x]) \subseteq Done
  <2>1. GridRows[x + 1].bottom = -dep[x]
    <3>1. GridRows[x + 1] = [depend |-> "inorder", bottom |-> -dep[x]] BY <1>0, FrameRows
    <3> QED BY <3>1
  <2>2. ASSUME NEW j \in Grid!Piece, x > 0, j <= cur[x] + (-dep[x])
        PROVE  <<x - 1, j>> \in Done
    <3>1. /\ x - 1 \in Added /\ x - 1 \in Rows /\ cur[x - 1] \in 0 .. NData
          /\ dep[x] \in Int
          BY <1>0, <2>2, SMT DEF TypeOK
    <3>2. Dispatched(x) >= cur[x] + 1 BY <1>0, SMT DEF Dispatched
    <3>3. Reach(cur[x - 1], dep[x]) >= cur[x] + 1 BY <1>0, <2>2, <3>2
    <3>4. Reach(cur[x - 1], dep[x]) \in 0 .. NData
          /\ (Reach(cur[x - 1], dep[x]) > 0 =>
                cur[x - 1] = NData \/ Reach(cur[x - 1], dep[x]) - dep[x] + 1 = cur[x - 1])
          BY <1>0, <3>1, ReachBehind
    <3>5. j < cur[x - 1] BY <1>0, <2>2, <3>1, <3>3, <3>4, SMT DEF Grid!Piece
    <3>6. j \in 0 .. NData BY SMT DEF Grid!Piece
    <3>7. x - 1 < num_tasks BY <3>1, SMT DEF TypeOK
    <3> QED BY <3>1, <3>5, <3>6, <3>7 DEF Done
  <2>3. ASSUME NEW j \in Grid!Piece, j < cur[x] PROVE <<x, j>> \in Done
    <3>1. j \in 0 .. NData BY SMT DEF Grid!Piece
    <3>2. x < num_tasks BY <1>0, SMT DEF TypeOK
    <3> QED BY <2>3, <3>1, <3>2 DEF Done
  <2> QED BY <2>1, <2>2, <2>3 DEF Grid!Needs
<1>4. GridRows' = GridRows /\ Done' = Done BY DEF Execute, data, GridRows, Done
<1>5. Begun' = Begun \cup {<<x, cur[x]>>}
  <2>1. \A y \in Rows : executing'[y] <=> (executing[y] \/ y = x)
        BY DEF Execute, TypeOK
  <2>2. x < num_tasks /\ cur[x] \in 0 .. NData BY <1>0, SMT DEF TypeOK
  <2>3. {p \in Rows \X (0 .. NData) : p[1] < num_tasks /\ p[2] = cur[p[1]] /\ executing'[p[1]]}
         = {p \in Rows \X (0 .. NData) : p[1] < num_tasks /\ p[2] = cur[p[1]] /\ executing[p[1]]}
             \cup {<<x, cur[x]>>}
        BY <2>1, <2>2
  <2> QED BY <1>4, <2>3 DEF Begun, Execute, data
<1> QED BY <1>0, <1>1, <1>2, <1>3, <1>4, <1>5 DEF Grid!Begin, Grid!AllPieces

(* What ends is what had begun.                                            *)
LEMMA FinishIsEnd ==
  ASSUME IInv, NEW x \in Rows, Finish(x)
  PROVE  x \in Grid!Row /\ cur[x] \in Grid!Piece /\ Grid!End(x, cur[x])
<1> USE DEF IInv
<1>0. executing[x] /\ x \in Added /\ cur[x] \in 0 .. NData - 1
      BY Running DEF Finish
<1>1. x \in Grid!Row /\ cur[x] \in Grid!Piece BY <1>0, FrameRows DEF Grid!Piece
<1>2. x < num_tasks /\ cur[x] \in 0 .. NData /\ cur[x] < NData BY <1>0, SMT DEF TypeOK
<1>3. <<x, cur[x]>> \in Begun \ Done BY <1>0, <1>2, SMT DEF Begun, Done
<1>4. \A y \in Rows : /\ y # x => cur'[y] = cur[y] /\ executing'[y] = executing[y]
                      /\ y = x => cur'[y] = cur[y] + 1 /\ ~executing'[y]
      BY DEF Finish, TypeOK
<1>5. GridRows' = GridRows BY DEF Finish, GridRows
<1>6. Done' = Done \cup {<<x, cur[x]>>}
  <2>1. ASSUME NEW p \in Rows \X (0 .. NData)
        PROVE  p \in Done' <=> p \in Done \/ p = <<x, cur[x]>>
    <3>1. CASE p[1] = x
      <4>1. p[2] < cur'[x] <=> p[2] < cur[x] \/ p[2] = cur[x] BY <1>2, <1>4, SMT
      <4> QED BY <4>1, <3>1, <1>2 DEF Done, Finish
    <3>2. CASE p[1] # x BY <3>2, <1>4 DEF Done, Finish
    <3> QED BY <3>1, <3>2
  <2>2. <<x, cur[x]>> \in Rows \X (0 .. NData) BY <1>2
  <2> QED BY <2>1, <2>2 DEF Done
<1>7. Begun' = Begun
  <2>1. ASSUME NEW p \in Rows \X (0 .. NData)
        PROVE  p \in Begun' <=> p \in Begun
    <3>1. CASE p[1] = x
      <4>1. p \in Begun <=> p \in Done \/ p[2] = cur[x] BY <3>1, <1>0, <1>2 DEF Begun
      <4>2. p \in Begun' <=> p \in Done' BY <3>1, <1>4 DEF Begun
      <4> QED BY <4>1, <4>2, <3>1, <1>6
    <3>2. CASE p[1] # x
      <4>1. p \in Done' <=> p \in Done BY <3>2, <1>6
      <4> QED BY <4>1, <3>2, <1>4 DEF Begun, Finish
    <3> QED BY <3>1, <3>2
  <2> QED BY <2>1 DEF Begun, Done
<1> QED BY <1>1, <1>3, <1>5, <1>6, <1>7 DEF Grid!End

(* The frame ends with all of its pieces done.                             *)
LEMMA ResetIsNewFrame ==
  ASSUME IInv, Reset
  PROVE  Grid!NewFrame
<1>1. /\ \A x \in Added : cur[x] = NData
      /\ \A x \in Rows : queued[x] = 0 /\ ~executing[x]
      BY AllDone DEF Reset
<1>2. num_tasks \in Nat /\ num_tasks > 0 /\ num_tasks <= MaxTasks
      BY SMT DEF IInv, WaitedDone, Reset, TypeOK
<1>3. GridRows # <<>> BY <1>2, FrameRows
<1>4. Done = Added \X (0 .. NData - 1)
  <2>1. ASSUME NEW p \in Rows \X (0 .. NData)
        PROVE  p[1] < num_tasks /\ p[2] < cur[p[1]] <=> p[1] \in Added /\ p[2] \in 0 .. NData - 1
        BY <1>1, <1>2, SMT
  <2>2. Added \X (0 .. NData - 1) \subseteq Rows \X (0 .. NData) BY <1>2, SMT
  <2> QED BY <2>1, <2>2 DEF Done
<1>5. Done = Grid!AllPieces
      BY <1>4, FrameRows DEF Grid!AllPieces, Grid!Piece
<1>6. num_tasks' = 0 BY DEF Reset
<1>7. GridRows' = <<>> BY <1>6 DEF GridRows
<1>8. Done' = {} /\ Begun' = {} BY <1>6, SMT DEF Done, Begun
<1> QED BY <1>3, <1>5, <1>7, <1>8 DEF Grid!NewFrame

(* Every step of the queues is a step of the grid, or hidden.              *)
LEMMA GridStep ==
  ASSUME IInv, [Next]_vars
  PROVE  [Grid!Next]_(Grid!vars)
<1> USE DEF Grid!Next, Grid!vars
<1>1. UNCHANGED <<data, executing>> => UNCHANGED Grid!vars
      BY DEF data, GridRows, Done, Begun
<1>2. ASSUME NEW d \in Deps, TaskAdd(d) PROVE Grid!Next
  <2>1. [depend |-> "inorder", bottom |-> d] \in [depend : {"inorder"}, bottom : Deps]
        OBVIOUS
  <2> QED BY <2>1, <1>2, AddIsAdd
<1>3. CASE TaskLaunch BY <1>1, <1>3 DEF TaskLaunch
<1>4. ASSUME NEW x \in Rows, Execute(x) PROVE Grid!Next BY <1>4, ExecuteIsBegin
<1>5. ASSUME NEW x \in Rows, Finish(x) PROVE Grid!Next BY <1>5, FinishIsEnd
<1>6. CASE TaskWait BY <1>1, <1>6 DEF TaskWait
<1>7. CASE Reset BY <1>7, ResetIsNewFrame
<1>8. CASE UNCHANGED vars BY <1>1, <1>8 DEF vars
<1> QED BY <1>2, <1>3, <1>4, <1>5, <1>6, <1>7, <1>8 DEF Next

(* The serial queues run the pieces in an order the scheduler of mpx.h     *)
(* promises: each exactly once, after the pieces of the row above that it  *)
(* looks at, and all of them before the frame is reset                     *)
(* (mp_coherence_gcd.c 92-169).                                            *)
THEOREM QueuesAreGrid == Spec => ImplementsGrid
<1>1. Init => Grid!Init
      BY SMT DEF Init, Grid!Init, GridRows, Done, Begun
<1>2. IInv /\ [Next]_vars => [Grid!Next]_(Grid!vars)
      BY GridStep
<1> QED BY <1>1, <1>2, InductiveInvariant, PTL DEF Spec, ImplementsGrid, Grid!Spec
=============================================================================
