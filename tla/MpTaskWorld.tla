---------------------------- MODULE MpTaskWorld -----------------------------
(***************************************************************************)
(* The pool of worker threads of mp_taskWorld.c (built without             *)
(* USE_GRANDCENTRAL).  A fixed stock of `communications' circulates:       *)
(* mpTaskLaunch pops a free one from the receive queue, fills it and       *)
(* pushes it on the send queue; a worker pops it, runs its function and    *)
(* pushes it back on the receive queue.  mpTerminate takes one per worker  *)
(* out of circulation to carry MESSAGE_QUIT.                               *)
(*                                                                         *)
(* Both queues are mpQueues, first-in first-out buffers (see MpQueue) as   *)
(* large as the stock, so a push never waits.                              *)
(***************************************************************************)
EXTENDS Integers, Sequences, FiniteSets

CONSTANTS
  Workers,     (* the worker threads *)
  Callers,     (* the threads that launch tasks *)
  PerWorker,   (* communications for each worker: 4 in mpInit *)
  Tasks,       (* the launches of a run *)
  Quit,        (* MESSAGE_QUIT *)
  MaxRaises    (* bound: tasks that let an exception escape *)

ASSUME WorkersAssumption ==
  /\ IsFiniteSet(Workers) /\ Workers # {}
  /\ PerWorker \in Nat /\ PerWorker >= 2
  /\ Quit \notin Tasks
ASSUME CallersAssumption == IsFiniteSet(Callers)
ASSUME MaxRaisesAssumption == MaxRaises \in Nat

VARIABLES
  r_sendQueue, r_receiveQueue,
  says,          (* message and function of each communication *)
  pc, cur,       (* where each worker is, and the communication it holds *)
  todo, filling, (* what each caller has still to launch, and the
                    communication it is filling *)
  world,         (* "up", "quitting", "down" *)
  quits, last,   (* MESSAGE_QUITs pushed, and the one being filled *)
  launched, ran, raised

queues == <<r_sendQueue, r_receiveQueue>>
workers == <<pc, cur>>
callers == <<todo, filling, launched>>
main == <<world, quits, last>>
vars == <<queues, says, workers, callers, main, ran, raised>>

(* r_comms, and no communication.                                          *)
Comms == 1 .. PerWorker * Cardinality(Workers)
Nothing == 0

(* mpInit: the whole stock is free.  What a communication says is not read *)
(* before mpTaskLaunch or mpFree has written it.                           *)
Init ==
  /\ r_sendQueue = <<>> /\ r_receiveQueue = [c \in Comms |-> c]
  /\ says = [c \in Comms |-> Quit]
  /\ pc = [w \in Workers |-> "pop"] /\ cur = [w \in Workers |-> Nothing]
  /\ todo = [k \in Callers |-> {}] /\ filling = [k \in Callers |-> Nothing]
  /\ world = "up" /\ quits = 0 /\ last = Nothing
  /\ launched = {} /\ ran = {} /\ raised = {}

-----------------------------------------------------------------------------
(* mpTaskLaunch is called, or mpTaskFlood, which launches once per worker. *)
Call(k, S) ==
  /\ world = "up" /\ todo[k] = {} /\ filling[k] = Nothing
  /\ Cardinality(S) \in {1, Cardinality(Workers)}
  /\ S \cap (launched \cup UNION {todo[j] : j \in Callers}) = {}
  /\ todo' = [todo EXCEPT ![k] = S]
  /\ UNCHANGED <<queues, says, workers, filling, launched, main, ran, raised>>

PopFree(k) ==
  /\ todo[k] # {} /\ filling[k] = Nothing
  /\ r_receiveQueue # <<>>
  /\ filling' = [filling EXCEPT ![k] = Head(r_receiveQueue)]
  /\ r_receiveQueue' = Tail(r_receiveQueue)
  /\ UNCHANGED <<r_sendQueue, says, workers, todo, launched, main, ran, raised>>

PushAction(k, t) ==
  /\ filling[k] # Nothing /\ t \in todo[k]
  /\ says' = [says EXCEPT ![filling[k]] = t]
  /\ r_sendQueue' = Append(r_sendQueue, filling[k])
  /\ filling' = [filling EXCEPT ![k] = Nothing]
  /\ todo' = [todo EXCEPT ![k] = @ \ {t}]
  /\ launched' = launched \cup {t}
  /\ UNCHANGED <<r_receiveQueue, workers, main, ran, raised>>

-----------------------------------------------------------------------------
(* mpTaskEngine.                                                           *)

(* Mistakes: the communication stays in the queue, or is put back before   *)
(* its function is called.                                                  *)
Receive_Peeks(w) ==
  LET c == Head(r_sendQueue)
  IN  /\ pc[w] = "pop" /\ r_sendQueue # <<>>
      /\ IF says[c] = Quit
         THEN pc' = [pc EXCEPT ![w] = "ended"] /\ UNCHANGED cur
         ELSE pc' = [pc EXCEPT ![w] = "run"] /\ cur' = [cur EXCEPT ![w] = c]
      /\ UNCHANGED <<queues, says, callers, main, ran, raised>>

Receive_PutsBack(w) ==
  LET c == Head(r_sendQueue)
  IN  /\ pc[w] = "pop" /\ r_sendQueue # <<>>
      /\ r_sendQueue' = Tail(r_sendQueue)
      /\ IF says[c] = Quit
         THEN /\ pc' = [pc EXCEPT ![w] = "ended"]
              /\ UNCHANGED <<cur, r_receiveQueue>>
         ELSE /\ pc' = [pc EXCEPT ![w] = "run"]
              /\ cur' = [cur EXCEPT ![w] = c]
              /\ r_receiveQueue' = Append(r_receiveQueue, c)
      /\ UNCHANGED <<says, callers, main, ran, raised>>

Receive(w) ==
  LET c == Head(r_sendQueue)
  IN  /\ pc[w] = "pop" /\ r_sendQueue # <<>>
      /\ r_sendQueue' = Tail(r_sendQueue)
      /\ IF says[c] = Quit
         THEN pc' = [pc EXCEPT ![w] = "ended"] /\ UNCHANGED cur
         ELSE pc' = [pc EXCEPT ![w] = "run"] /\ cur' = [cur EXCEPT ![w] = c]
      /\ UNCHANGED <<r_receiveQueue, says, callers, main, ran, raised>>

Run(w) ==
  /\ pc[w] = "run"
  /\ ran' = ran \cup {says[cur[w]]}
  /\ pc' = [pc EXCEPT ![w] = "push"]
  /\ UNCHANGED <<queues, says, cur, callers, main, raised>>

(* The handler of mpTaskEngine is outside its loop: the thread ends, and   *)
(* the communication stays out of both queues.                             *)
RunRaises(w) ==
  /\ pc[w] = "run" /\ Cardinality(raised) < MaxRaises
  /\ raised' = raised \cup {says[cur[w]]}
  /\ pc' = [pc EXCEPT ![w] = "ended"]
  /\ UNCHANGED <<queues, says, cur, callers, main, ran>>

PutBack(w) ==
  /\ pc[w] = "push"
  /\ r_receiveQueue' = Append(r_receiveQueue, cur[w])
  /\ cur' = [cur EXCEPT ![w] = Nothing]
  /\ pc' = [pc EXCEPT ![w] = "pop"]
  /\ UNCHANGED <<r_sendQueue, says, callers, main, ran, raised>>

-----------------------------------------------------------------------------
(* mpTerminate, called once nothing is being launched: mpFree.             *)

StartTerminate ==
  /\ world = "up" /\ \A k \in Callers : todo[k] = {}
  /\ world' = "quitting"
  /\ UNCHANGED <<queues, says, workers, callers, quits, last, ran, raised>>

(* Mistakes: quit messages without end, or one for all the workers.        *)
PopToQuit_Unbounded ==
  /\ world = "quitting" /\ last = Nothing
  /\ r_receiveQueue # <<>>
  /\ last' = Head(r_receiveQueue)
  /\ r_receiveQueue' = Tail(r_receiveQueue)
  /\ UNCHANGED <<r_sendQueue, says, workers, callers, world, quits, ran, raised>>

PopToQuit_Once ==
  /\ world = "quitting" /\ quits = 0 /\ last = Nothing
  /\ r_receiveQueue # <<>>
  /\ last' = Head(r_receiveQueue)
  /\ r_receiveQueue' = Tail(r_receiveQueue)
  /\ UNCHANGED <<r_sendQueue, says, workers, callers, world, quits, ran, raised>>

PopToQuit ==
  /\ world = "quitting" /\ quits < Cardinality(Workers) /\ last = Nothing
  /\ r_receiveQueue # <<>>
  /\ last' = Head(r_receiveQueue)
  /\ r_receiveQueue' = Tail(r_receiveQueue)
  /\ UNCHANGED <<r_sendQueue, says, workers, callers, world, quits, ran, raised>>

(* Mistake: the message is pushed in front of the tasks.                   *)
PushQuit_First ==
  /\ last # Nothing
  /\ says' = [says EXCEPT ![last] = Quit]
  /\ r_sendQueue' = <<last>> \o r_sendQueue
  /\ quits' = quits + 1 /\ last' = Nothing
  /\ UNCHANGED <<r_receiveQueue, workers, callers, world, ran, raised>>

PushQuit ==
  /\ last # Nothing
  /\ says' = [says EXCEPT ![last] = Quit]
  /\ r_sendQueue' = Append(r_sendQueue, last)
  /\ quits' = quits + 1 /\ last' = Nothing
  /\ UNCHANGED <<r_receiveQueue, workers, callers, world, ran, raised>>

(* Mistake: the threads are not joined.                                    *)
Join_NotWaiting ==
  /\ world = "quitting" /\ quits = Cardinality(Workers)
  /\ world' = "down"
  /\ UNCHANGED <<queues, says, workers, callers, quits, last, ran, raised>>

(* Every thread joined, everything freed.                                  *)
Join ==
  /\ world = "quitting" /\ quits = Cardinality(Workers)
  /\ \A w \in Workers : pc[w] = "ended"
  /\ world' = "down"
  /\ UNCHANGED <<queues, says, workers, callers, quits, last, ran, raised>>

(* mpInit may be called again.                                             *)
InitAgain ==
  /\ world = "down"
  /\ r_sendQueue' = <<>> /\ r_receiveQueue' = [c \in Comms |-> c]
  /\ says' = [c \in Comms |-> Quit]
  /\ pc' = [w \in Workers |-> "pop"] /\ cur' = [w \in Workers |-> Nothing]
  /\ world' = "up" /\ quits' = 0 /\ last' = Nothing
  /\ launched' = {} /\ ran' = {} /\ raised' = {}
  /\ UNCHANGED <<todo, filling>>

Calls == \E k \in Callers, S \in SUBSET Tasks : Call(k, S)
Launches(k) == PopFree(k) \/ \E t \in Tasks : PushAction(k, t)
Engine(w) == Receive(w) \/ Run(w) \/ PutBack(w)
Terminates == PopToQuit \/ PushQuit \/ Join

Next ==
  \/ Calls \/ StartTerminate \/ Terminates \/ InitAgain
  \/ \E k \in Callers : Launches(k)
  \/ \E w \in Workers : Engine(w) \/ RunRaises(w)

Spec == Init /\ [][Next]_vars

(* Threads inside a call and workers run; tasks return; nobody has to call *)
(* and no task has to raise.                                               *)
FairSpec ==
  /\ Spec /\ WF_vars(Terminates)
  /\ \A k \in Callers : WF_vars(Launches(k))
  /\ \A w \in Workers : WF_vars(Engine(w))

-----------------------------------------------------------------------------
Places(s, c) == Cardinality({i \in DOMAIN s : s[i] = c})
Held(f, c) == Cardinality({h \in DOMAIN f : f[h] = c})
Owners(c) ==
  Places(r_sendQueue, c) + Places(r_receiveQueue, c) + Held(cur, c)
    + Held(filling, c) + (IF last = c THEN 1 ELSE 0)

(* The queues hold communications only, and no more MESSAGE_QUITs are sent *)
(* than there are workers to read them.                                    *)
TypeOK ==
  /\ r_sendQueue \in Seq(Comms) /\ r_receiveQueue \in Seq(Comms)
  /\ says \in [Comms -> Tasks \cup {Quit}]
  /\ pc \in [Workers -> {"pop", "run", "push", "ended"}]
  /\ cur \in [Workers -> Comms \cup {Nothing}]
  /\ todo \in [Callers -> SUBSET Tasks]
  /\ filling \in [Callers -> Comms \cup {Nothing}]
  /\ world \in {"up", "quitting", "down"}
  /\ quits \in 0 .. Cardinality(Workers) /\ last \in Comms \cup {Nothing}
  /\ launched \subseteq Tasks /\ ran \subseteq Tasks /\ raised \subseteq Tasks

(* Workers that were told to quit, and those that an exception ended.      *)
Quitters == {w \in Workers : pc[w] = "ended" /\ cur[w] = Nothing}
Raisers == {w \in Workers : pc[w] = "ended" /\ cur[w] # Nothing}

(* A communication has one owner, a queue or a thread, who alone may read  *)
(* or write it; only those that told a worker to quit have none.           *)
OneOwner ==
  /\ \A c \in Comms : Owners(c) <= 1
  /\ Cardinality({c \in Comms : Owners(c) = 0})
       = Cardinality(Quitters)

(* No task is run a second time.                                           *)
RunOnce ==
  [][\A w \in Workers : Run(w) => says[cur[w]] \notin ran \cup raised]_vars

(* mpTerminate returns after every task launched before it has returned or *)
(* raised: while one worker is left, none is dropped.                      *)
NoneDropped == world = "down" => launched = ran \cup raised

(* A thread holds a communication exactly while it works with it, and      *)
(* nothing is launched any more once mpTerminate is called.                *)
Holding ==
  /\ \A w \in Workers : /\ pc[w] \in {"run", "push"} => cur[w] # Nothing
                        /\ pc[w] = "pop" => cur[w] = Nothing
  /\ \A k \in Callers : filling[k] # Nothing => todo[k] # {}
  /\ world # "up" => \A k \in Callers : todo[k] = {}
  /\ last # Nothing => world = "quitting" /\ quits < Cardinality(Workers)

(* What is launched and has not returned is on its way, in the send queue  *)
(* or in the hands of a worker, each task on one communication.            *)
Sent == {r_sendQueue[i] : i \in DOMAIN r_sendQueue}
Running == {cur[w] : w \in {v \in Workers : pc[v] = "run"}}
Pending == {c \in Sent : says[c] # Quit} \cup Running
Returned == ran \cup raised
Carried ==
  /\ Returned \subseteq launched
  /\ \A c \in Pending : says[c] \in launched \ Returned
  /\ \A t \in launched \ Returned : \E c \in Pending : says[c] = t
  /\ \A c, d \in Pending : says[c] = says[d] => c = d
  /\ \A k \in Callers : todo[k] \cap launched = {}
  /\ \A j, k \in Callers : j # k => todo[j] \cap todo[k] = {}

(* MESSAGE_QUIT is behind every task: when a worker has got one, nothing   *)
(* else is left in the send queue.                                         *)
QuitsBehind ==
  \A i, j \in DOMAIN r_sendQueue :
    i < j /\ says[r_sendQueue[i]] = Quit => says[r_sendQueue[j]] = Quit
QuitsLast ==
  /\ QuitsBehind
  /\ world = "up" => Quitters = {} /\ \A c \in Sent : says[c] # Quit
  /\ Quitters # {} => \A c \in Sent : says[c] = Quit
  /\ world = "down" => \A w \in Workers : pc[w] = "ended"

(* Each exception ended one worker.                                        *)
RaisersCounted ==
  /\ IsFiniteSet(raised) /\ Cardinality(raised) <= MaxRaises
  /\ Cardinality(Raisers) = Cardinality(raised)

(* What a step needs to know of the state it starts from.                  *)
IInv == TypeOK /\ OneOwner /\ Holding /\ Carried /\ QuitsLast /\ RaisersCounted

(* Tasks launched are run, as long as one worker is left.                  *)
EveryTaskRuns ==
  \A t \in Tasks : t \in launched ~> t \in ran \cup raised

(* mpTerminate returns.                                                    *)
TerminateReturns == world = "quitting" ~> world # "quitting"
=============================================================================
