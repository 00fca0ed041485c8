------------------------------ MODULE MpQueue ------------------------------
(***************************************************************************)
(* The blocking queue of mp_queue.c: a ring of maxSize + 1 slots, one of   *)
(* them always unused, under one mutex, with a condition variable and a    *)
(* counter of stalled threads for each side.                               *)
(*                                                                         *)
(* Every field is read and written with m_mutex held, so what a call does  *)
(* between taking the mutex and releasing it (by unlocking, or inside      *)
(* x_pthread_cond_wait) is one action.  A thread in a wait set sleeps in   *)
(* x_pthread_cond_wait; one with a call and in no wait set contends for    *)
(* the mutex.  As POSIX allows, a sleeper may wake without a signal and a  *)
(* thread that never slept may take the mutex before the one just woken.   *)
(***************************************************************************)
EXTENDS Integers, FiniteSets

CONSTANTS
  Threads,     (* the threads that share the queue *)
  Values,      (* what is pushed *)
  NoValue,     (* content of a slot never written *)
  MaxSize,     (* maxSize of mpQueueCreate *)
  MaxStalled   (* bound: no wake-up without a signal once a counter is here *)

ASSUME ThreadsAssumption == IsFiniteSet(Threads)
ASSUME MaxSizeAssumption == MaxSize \in Nat
ASSUME MaxStalledAssumption == MaxStalled \in Nat
ASSUME NoValueAssumption == NoValue \notin Values

VARIABLES
  m_writerPos, m_readerPos,   (* next slot to write, next slot to read *)
  m_readers, m_writers,       (* threads counted as stalled on each side *)
  r_queueData,                (* the slots *)
  readWait, writeWait,        (* threads asleep on m_readCond, m_writeCond *)
  call, dat                   (* each thread's call, and the value it pushes or
                                 took with its latest Pop *)

ring == <<m_writerPos, m_readerPos, r_queueData>>
vars == <<ring, m_readers, m_writers, readWait, writeWait, call, dat>>

QueueSize == MaxSize + 1
Slots == 0 .. MaxSize
(* Mistakes the steps below could hold, named after the definition each     *)
(* stands in for: the position that never wraps.                           *)
Succ_NoWrap(p) == p + 1

Succ(p) == (p + 1) % QueueSize

Full == Succ(m_writerPos) = m_readerPos
Empty == m_readerPos = m_writerPos

Init ==
  /\ m_writerPos = 0 /\ m_readerPos = 0
  /\ m_readers = 0 /\ m_writers = 0
  /\ r_queueData = [s \in Slots |-> NoValue]
  /\ readWait = {} /\ writeWait = {}
  /\ call = [t \in Threads |-> "none"]
  /\ dat = [t \in Threads |-> NoValue]

(***************************************************************************)
(* pthread_cond_signal: some sleeper wakes, or nothing happens when there  *)
(* is none.                                                                *)
(***************************************************************************)
Signalled(sleepers) ==
  IF sleepers = {} THEN {{}} ELSE {sleepers \ {t} : t \in sleepers}

(* The end of a Push (of a Pop): a counted reader (writer) is uncounted    *)
(* and signalled.                                                          *)
(* Mistake: only the Push that finds the ring empty signals a reader.      *)
SignalReader_OnlyFirst ==
  IF m_readers > 0 /\ Empty
    THEN m_readers' = m_readers - 1 /\ readWait' \in Signalled(readWait)
    ELSE UNCHANGED <<m_readers, readWait>>

SignalReader ==
  IF m_readers > 0
    THEN m_readers' = m_readers - 1 /\ readWait' \in Signalled(readWait)
    ELSE UNCHANGED <<m_readers, readWait>>

SignalWriter ==
  IF m_writers > 0
    THEN m_writers' = m_writers - 1 /\ writeWait' \in Signalled(writeWait)
    ELSE UNCHANGED <<m_writers, writeWait>>

Returns(t, v) ==
  /\ call' = [call EXCEPT ![t] = "none"]
  /\ dat' = [dat EXCEPT ![t] = v]

-----------------------------------------------------------------------------
(* A thread enters mpQueuePush or mpQueuePop.                              *)
CallPush(t, v) ==
  /\ call[t] = "none"
  /\ call' = [call EXCEPT ![t] = "push"]
  /\ dat' = [dat EXCEPT ![t] = v]
  /\ UNCHANGED <<ring, m_readers, m_writers, readWait, writeWait>>

CallPop(t) ==
  /\ call[t] = "none"
  /\ call' = [call EXCEPT ![t] = "pop"]
  /\ dat' = [dat EXCEPT ![t] = NoValue]
  /\ UNCHANGED <<ring, m_readers, m_writers, readWait, writeWait>>

Running(t, c) == call[t] = c /\ t \notin readWait \cup writeWait

(* One turn of the loop of mpQueuePush that finds the ring full.           *)
PushStalls(t) ==
  /\ Running(t, "push") /\ Full
  /\ m_writers' = m_writers + 1
  /\ writeWait' = writeWait \cup {t}
  /\ UNCHANGED <<ring, m_readers, readWait, call, dat>>

PushStores(t) ==
  /\ Running(t, "push") /\ ~Full
  /\ r_queueData' = [r_queueData EXCEPT ![m_writerPos] = dat[t]]
  /\ m_writerPos' = Succ(m_writerPos)
  /\ SignalReader
  /\ Returns(t, NoValue)
  /\ UNCHANGED <<m_readerPos, m_writers, writeWait>>

(* Mistake: the reader sleeps without counting itself.                     *)
PopStalls_Uncounted(t) ==
  /\ Running(t, "pop") /\ Empty
  /\ readWait' = readWait \cup {t}
  /\ UNCHANGED <<ring, m_readers, m_writers, writeWait, call, dat>>

(* One turn of the loop of mpQueuePop that finds the ring empty.           *)
PopStalls(t) ==
  /\ Running(t, "pop") /\ Empty
  /\ m_readers' = m_readers + 1
  /\ readWait' = readWait \cup {t}
  /\ UNCHANGED <<ring, m_writers, writeWait, call, dat>>

(* Mistake: the slot is read after the position has advanced.              *)
PopTakes_Late(t) ==
  /\ Running(t, "pop") /\ ~Empty
  /\ m_readerPos' = Succ(m_readerPos)
  /\ SignalWriter
  /\ Returns(t, r_queueData[Succ(m_readerPos)])
  /\ UNCHANGED <<m_writerPos, r_queueData, m_readers, readWait>>

PopTakes(t) ==
  /\ Running(t, "pop") /\ ~Empty
  /\ m_readerPos' = Succ(m_readerPos)
  /\ SignalWriter
  /\ Returns(t, r_queueData[m_readerPos])
  /\ UNCHANGED <<m_writerPos, r_queueData, m_readers, readWait>>

(* Mistakes: Clear leaves the sleeping writers, or forgets the readers.    *)
Clear_NoNotify ==
  /\ m_readerPos' = 0 /\ m_writerPos' = 0
  /\ UNCHANGED <<r_queueData, m_readers, m_writers, readWait, writeWait, call, dat>>

Clear_ResetsReaders ==
  /\ m_readerPos' = 0 /\ m_writerPos' = 0
  /\ m_readers' = 0 /\ m_writers' = 0
  /\ writeWait' = {}
  /\ UNCHANGED <<r_queueData, readWait, call, dat>>

(* mpQueueClear empties the ring and signals once for every counted        *)
(* writer.                                                                 *)
Clear ==
  /\ m_readerPos' = 0 /\ m_writerPos' = 0
  /\ m_writers' = 0
  /\ \E woken \in SUBSET writeWait :
       /\ \/ Cardinality(woken) = m_writers
          \/ woken = writeWait /\ Cardinality(woken) < m_writers
       /\ writeWait' = writeWait \ woken
  /\ UNCHANGED <<r_queueData, m_readers, readWait, call, dat>>

(* x_pthread_cond_wait may return without a signal.                        *)
WakeReader(t) ==
  /\ t \in readWait /\ m_readers < MaxStalled
  /\ readWait' = readWait \ {t}
  /\ UNCHANGED <<ring, m_readers, m_writers, writeWait, call, dat>>

WakeWriter(t) ==
  /\ t \in writeWait /\ m_writers < MaxStalled
  /\ writeWait' = writeWait \ {t}
  /\ UNCHANGED <<ring, m_readers, m_writers, readWait, call, dat>>

Step(t) == PushStalls(t) \/ PushStores(t) \/ PopStalls(t) \/ PopTakes(t)

Next ==
  \/ \E t \in Threads : \/ \E v \in Values : CallPush(t, v)
                        \/ CallPop(t)
                        \/ Step(t)
                        \/ WakeReader(t) \/ WakeWriter(t)
  \/ Clear

Spec == Init /\ [][Next]_vars

(* A thread that can run does run; nothing makes a thread call, clear, or  *)
(* wake without a signal.                                                  *)
FairSpec == Spec /\ \A t \in Threads : WF_vars(Step(t))

-----------------------------------------------------------------------------
Calls == {"none", "push", "pop"}

(* Both positions stay inside the ring and the counters of stalled threads *)
(* never go below zero, whatever mpQueuePush, mpQueuePop and mpQueueClear  *)
(* do to them.                                                             *)
TypeOK ==
  /\ m_writerPos \in Slots /\ m_readerPos \in Slots
  /\ m_readers \in Nat /\ m_writers \in Nat
  /\ r_queueData \in [Slots -> Values \cup {NoValue}]
  /\ readWait \in SUBSET Threads /\ writeWait \in SUBSET Threads
  /\ call \in [Threads -> Calls]
  /\ dat \in [Threads -> Values \cup {NoValue}]

(* The number of values in the ring, and the ring read as a sequence.      *)
Count == (m_writerPos - m_readerPos) % QueueSize
Items == [i \in 1 .. Count |-> r_queueData[(m_readerPos + i - 1) % QueueSize]]

(* Readers (writers) that hold a call and are awake.                       *)
AwakeReaders == {t \in Threads \ readWait : call[t] = "pop"}
AwakeWriters == {t \in Threads \ writeWait : call[t] = "push"}

(* A counter may exceed the sleepers it stands for (a sleeper that woke    *)
(* without a signal counts itself again) but never falls short of them:    *)
(* a counter short by one is a thread no later call will signal.           *)
CountersCoverSleepers ==
  /\ Cardinality(readWait) <= m_readers
  /\ Cardinality(writeWait) <= m_writers

(* No wake-up is lost.  While a reader sleeps, there are at least as many  *)
(* awake readers on their way to the ring as there are values in it; while *)
(* a writer sleeps, at least as many awake writers as free slots.  Signals *)
(* that outrun the mutex, threads that overtake the woken one and values   *)
(* that arrive while nobody is counted all have to keep this balance.      *)
NoLostWakeup ==
  /\ readWait # {} => Count <= Cardinality(AwakeReaders)
  /\ writeWait # {} => MaxSize - Count <= Cardinality(AwakeWriters)

(* Why the balance holds from step to step: only callers sleep, and each   *)
(* on the condition of its own side.                                       *)
SleepersInCall ==
  /\ \A t \in readWait : call[t] = "pop"
  /\ \A t \in writeWait : call[t] = "push"

IInv == TypeOK /\ SleepersInCall /\ CountersCoverSleepers /\ NoLostWakeup

(* The ring is a first-in first-out buffer of MaxSize values: BoundedFifo. *)
Fifo == INSTANCE BoundedFifo WITH items <- Items, Capacity <- MaxSize
ImplementsFifo == Fifo!Spec

(* The queue cannot hold values for ever against threads that want them:   *)
(* some mpQueuePop returns, again and again.                               *)
PopProgress ==
  \/ []<>(Empty \/ \A t \in Threads : call[t] # "pop")
  \/ []<><<\E t \in Threads : PopTakes(t)>>_vars

(* Nor room against threads that want it: some mpQueuePush returns, again  *)
(* and again.                                                              *)
PushProgress ==
  \/ []<>(Full \/ \A t \in Threads : call[t] # "push")
  \/ []<><<\E t \in Threads : PushStores(t)>>_vars
=============================================================================
