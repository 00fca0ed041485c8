---------------------------- MODULE GcdCoherence ----------------------------
(***************************************************************************)
(* The task scheduler of mp_coherence_gcd.c, built when USE_GRANDCENTRAL   *)
(* is set, driven as fluid_cpu.c drives it: the main thread adds the rows  *)
(* of a frame, launches the first, waits for all of them in turn and       *)
(* resets.                                                                 *)
(*                                                                         *)
(* A row is a serial dispatch queue: it runs one piece at a time, in order,*)
(* and only when the row above has dispatched it.  The queues and their    *)
(* groups are the system's (external): an item waits in its queue, runs,   *)
(* and is in the group until it is over.                                   *)
(***************************************************************************)
EXTENDS Integers, Sequences

CONSTANTS
  NData,      (* rows of the coherence object: pieces per row of the frame *)
  MaxTasks,   (* m_numQueues *)
  Deps        (* how far around a piece callers say it looks: every call of *)
              (* fluidAddTask passes -d, d                                  *)

(* The last piece of a row dispatches d + 2 pieces of the next, whether or *)
(* not there are as many left: callers have rows at least that long.       *)
ASSUME GcdAssumption ==
  /\ NData \in Nat \ {0} /\ MaxTasks \in Nat \ {0}
  /\ Deps \subseteq Nat /\ \A d \in Deps : d + 2 <= NData

VARIABLES
  num_tasks,
  dep,        (* m_data[x].dep: negative; the sentinel's is never read *)
  cur,        (* m_data[x].cur *)
  queued,     (* items of each queue that have not begun *)
  executing,  (* whether a queue is running an item *)
  main        (* the main thread: adding rows, or waiting for group main.x *)

data == <<num_tasks, dep, cur>>
vars == <<data, queued, executing, main>>

Rows == 0 .. MaxTasks - 1

Init ==
  /\ num_tasks = 0
  /\ dep = [x \in Rows |-> -1]
  /\ cur = [x \in Rows |-> 0]
  /\ queued = [x \in Rows |-> 0]
  /\ executing = [x \in Rows |-> FALSE]
  /\ main = [pc |-> "add", x |-> 0]

(* Mistake: the row goes on counting where the last frame's stopped.       *)
TaskAdd_Continues(d) ==
  /\ main.pc = "add" /\ num_tasks < MaxTasks
  /\ dep' = [dep EXCEPT ![num_tasks] = -d]
  /\ num_tasks' = num_tasks + 1
  /\ UNCHANGED <<cur, queued, executing, main>>

(* mpCTaskAdd                                                              *)
TaskAdd(d) ==
  /\ main.pc = "add" /\ num_tasks < MaxTasks
  /\ dep' = [dep EXCEPT ![num_tasks] = -d]
  /\ cur' = [cur EXCEPT ![num_tasks] = 0]
  /\ num_tasks' = num_tasks + 1
  /\ UNCHANGED <<queued, executing, main>>

(* mpCTaskLaunch                                                           *)
TaskLaunch ==
  /\ main.pc = "add" /\ num_tasks > 0
  /\ queued' = [queued EXCEPT ![0] = NData]
  /\ main' = [pc |-> "wait", x |-> 0]
  /\ UNCHANGED <<data, executing>>

Distance(x) == IF dep[x] < 0 THEN -dep[x] ELSE dep[x]

(* A queue takes its next item: the function of piece cur is called.       *)
Execute(x) ==
  /\ ~executing[x] /\ queued[x] > 0
  /\ queued' = [queued EXCEPT ![x] = @ - 1]
  /\ executing' = [executing EXCEPT ![x] = TRUE]
  /\ UNCHANGED <<data, main>>

(* Mistake: the rest of the row is one piece short.                        *)
Dispatches_Short(x) ==
  IF x + 1 = num_tasks THEN 0
  ELSE IF cur[x] = NData - 1 THEN Distance(x + 1) + 1
  ELSE IF cur[x] > Distance(x + 1) THEN 1 ELSE 0

(* How many items of the next row piece cur dispatches; none after the     *)
(* last row, whose successor's fn is -1.                                   *)
Dispatches(x) ==
  IF x + 1 = num_tasks THEN 0
  ELSE IF cur[x] = NData - 1 THEN Distance(x + 1) + 2
  ELSE IF cur[x] > Distance(x + 1) THEN 1 ELSE 0

(* mpCDispatchFn, once the function is back: only this queue reads cur.    *)
Finish(x) ==
  /\ executing[x]
  /\ queued' = [y \in Rows |-> IF y = x + 1 THEN queued[y] + Dispatches(x) ELSE queued[y]]
  /\ cur' = [cur EXCEPT ![x] = @ + 1]
  /\ executing' = [executing EXCEPT ![x] = FALSE]
  /\ UNCHANGED <<num_tasks, dep, main>>

GroupEmpty(x) == queued[x] = 0 /\ ~executing[x]

(* mpCTaskWait, one group after the other                                  *)
TaskWait ==
  /\ main.pc = "wait" /\ main.x < num_tasks
  /\ GroupEmpty(main.x)
  /\ main' = [pc |-> "wait", x |-> main.x + 1]
  /\ UNCHANGED <<data, queued, executing>>

(* mpCReset, at the end of fluidAdvanceSync                                *)
Reset ==
  /\ main.pc = "wait" /\ main.x = num_tasks
  /\ num_tasks' = 0
  /\ dep' = [x \in Rows |-> -1]
  /\ main' = [pc |-> "add", x |-> 0]
  /\ UNCHANGED <<cur, queued, executing>>

Next ==
  \/ \E d \in Deps : TaskAdd(d)
  \/ TaskLaunch
  \/ \E x \in Rows : Execute(x) \/ Finish(x)
  \/ TaskWait \/ Reset

Spec == Init /\ [][Next]_vars

-----------------------------------------------------------------------------
Added == 0 .. num_tasks - 1

TypeOK ==
  /\ num_tasks \in 0 .. MaxTasks
  /\ dep \in [Rows -> Int]
  /\ cur \in [Rows -> 0 .. NData]
  /\ queued \in [Rows -> 0 .. NData]
  /\ executing \in [Rows -> BOOLEAN]
  /\ main \in [pc : {"add", "wait"}, x : 0 .. MaxTasks]

(* The pieces of a row dispatched so far.                                  *)
Dispatched(x) == cur[x] + queued[x] + IF executing[x] THEN 1 ELSE 0

(* How far a row with that dep goes when c pieces of the row above it are  *)
(* done: all the way when all are, else as far less what it looks at.      *)
Reach(c, d) ==
  IF c = NData THEN NData ELSE IF c > 1 - d THEN c + d - 1 ELSE 0

(* A row is dispatched to the piece: none too early, none forgotten, and   *)
(* none past the end of the row (mp_coherence_gcd.c 113-131, 143-146).     *)
RowsFollow ==
  \A x \in Added :
    Dispatched(x) = IF main.pc = "add" THEN 0
                    ELSE IF x = 0 THEN NData ELSE Reach(cur[x - 1], dep[x])

(* The dependency of a row of the frame is one that callers state.         *)
DepsStated == \A x \in Added : -dep[x] \in Deps

(* Nothing is queued or runs in a row that the frame does not have.        *)
OthersIdle == \A x \in Rows \ Added : queued[x] = 0 /\ ~executing[x]

(* A group that was waited for is empty because all of its row is done.    *)
WaitedDone ==
  main.pc = "wait" => /\ num_tasks > 0 /\ main.x <= num_tasks
                      /\ \A x \in 0 .. main.x - 1 : cur[x] = NData

(* What a step needs to know of the state it starts from.                  *)
IInv == TypeOK /\ RowsFollow /\ DepsStated /\ OthersIdle /\ WaitedDone

(* What TaskGrid promises: no piece runs before the pieces of the row      *)
(* above that it looks at, or twice, and the frame ends with all of them   *)
(* done, although a group may be found empty before anything entered it    *)
(* (mp_coherence_gcd.c 92-169).                                            *)
GridRows == [i \in 1 .. num_tasks |-> [depend |-> "inorder", bottom |-> -dep[i - 1]]]
Done == {p \in Rows \X (0 .. NData) : p[1] < num_tasks /\ p[2] < cur[p[1]]}
Begun ==
  Done \cup {p \in Rows \X (0 .. NData) :
              p[1] < num_tasks /\ p[2] = cur[p[1]] /\ executing[p[1]]}

Grid == INSTANCE TaskGrid
  WITH Descriptions <- [depend : {"inorder"}, bottom : Deps],
       rows <- GridRows, begun <- Begun, done <- Done
ImplementsGrid == Grid!Spec
=============================================================================
