--------------------------- MODULE MpQueueProofs ---------------------------
(***************************************************************************)
(* Proofs about MpQueue, for every set of threads, capacity and bound: its *)
(* type invariant, the invariants about the stalled-thread counters and    *)
(* lost wake-ups, and that it implements BoundedFifo.                      *)
(***************************************************************************)
EXTENDS MpQueue, Sequences, FiniteSetTheorems, SequenceTheorems, TLAPS

(* The queue's size and its slots, as the provers need them.               *)
LEMMA SizeFacts ==
  /\ QueueSize \in Nat \ {0}
  /\ Slots = 0 .. QueueSize - 1
BY MaxSizeAssumption DEF QueueSize, Slots

(* Succ walks round the ring.                                              *)
LEMMA SuccFacts ==
  ASSUME NEW p \in Slots
  PROVE  /\ Succ(p) \in Slots
         /\ Succ(p) = IF p = MaxSize THEN 0 ELSE p + 1
<1>1. MaxSize \in Nat
  BY MaxSizeAssumption
<1>2. CASE p = MaxSize
  <2>1. Succ(p) = QueueSize % QueueSize
    BY <1>2 DEF Succ, QueueSize
  <2>2. QED
    BY <1>1, <1>2, <2>1 DEF QueueSize, Slots
<1>3. CASE p # MaxSize
  <2>1. p + 1 \in 0 .. QueueSize - 1
    BY <1>1, <1>3 DEF QueueSize, Slots
  <2>2. (p + 1) % QueueSize = p + 1
    BY <1>1, <2>1 DEF QueueSize
  <2>3. QED
    BY <1>1, <1>3, <2>1, <2>2 DEF Succ, QueueSize, Slots
<1>4. QED
  BY <1>2, <1>3

(* The number of values between two positions, without the remainder.      *)
LEMMA DistanceFacts ==
  ASSUME NEW w \in Slots, NEW r \in Slots
  PROVE  /\ (w - r) % QueueSize = IF w >= r THEN w - r ELSE w - r + QueueSize
         /\ (w - r) % QueueSize \in 0 .. MaxSize
<1>1. MaxSize \in Nat
  BY MaxSizeAssumption
<1>2. CASE w >= r
  <2>1. w - r \in 0 .. QueueSize - 1
    BY <1>1, <1>2 DEF QueueSize, Slots
  <2>2. QED
    BY <1>1, <1>2, <2>1 DEF QueueSize
<1>3. CASE ~(w >= r)
  <2>1. w - r \in -QueueSize .. -1
    BY <1>1, <1>3 DEF QueueSize, Slots
  <2>2. QED
    BY <1>1, <1>3, <2>1 DEF QueueSize
<1>4. QED
  BY <1>2, <1>3

(* The tests of the two loops, said with the number of values.             *)
LEMMA CountFacts ==
  ASSUME m_writerPos \in Slots, m_readerPos \in Slots
  PROVE  /\ Count \in 0 .. MaxSize
         /\ Empty <=> Count = 0
         /\ Full <=> Count = MaxSize
<1>1. MaxSize \in Nat
  BY MaxSizeAssumption
<1>2. Count = IF m_writerPos >= m_readerPos
                THEN m_writerPos - m_readerPos
                ELSE m_writerPos - m_readerPos + QueueSize
  BY DistanceFacts DEF Count
<1>3. Succ(m_writerPos) = IF m_writerPos = MaxSize THEN 0 ELSE m_writerPos + 1
  BY SuccFacts
<1>4. QED
  BY <1>1, <1>2, <1>3 DEF Empty, Full, QueueSize, Slots

(* A store adds one value, a take removes one.                             *)
LEMMA CountSteps ==
  ASSUME m_writerPos \in Slots, m_readerPos \in Slots,
         m_writerPos' \in Slots, m_readerPos' \in Slots
  PROVE  /\ /\ ~Full /\ m_writerPos' = Succ(m_writerPos)
            /\ m_readerPos' = m_readerPos
            => Count' = Count + 1
         /\ /\ ~Empty /\ m_readerPos' = Succ(m_readerPos)
            /\ m_writerPos' = m_writerPos
            => Count' = Count - 1
<1>1. MaxSize \in Nat
  BY MaxSizeAssumption
<1>2. Count = IF m_writerPos >= m_readerPos
                THEN m_writerPos - m_readerPos
                ELSE m_writerPos - m_readerPos + QueueSize
  BY DistanceFacts DEF Count
<1>3. Count' = IF m_writerPos' >= m_readerPos'
                 THEN m_writerPos' - m_readerPos'
                 ELSE m_writerPos' - m_readerPos' + QueueSize
  BY DistanceFacts DEF Count
<1>4. /\ Succ(m_writerPos) = IF m_writerPos = MaxSize THEN 0 ELSE m_writerPos + 1
      /\ Succ(m_readerPos) = IF m_readerPos = MaxSize THEN 0 ELSE m_readerPos + 1
  BY SuccFacts
<1>5. ASSUME ~Full, m_writerPos' = Succ(m_writerPos), m_readerPos' = m_readerPos
      PROVE  Count' = Count + 1
  <2>1. CASE m_writerPos = MaxSize
    BY <1>1, <1>2, <1>3, <1>4, <1>5, <2>1 DEF Full, QueueSize, Slots
  <2>2. CASE m_writerPos # MaxSize
    BY <1>1, <1>2, <1>3, <1>4, <1>5, <2>2 DEF Full, QueueSize, Slots
  <2>3. QED
    BY <2>1, <2>2
<1>6. ASSUME ~Empty, m_readerPos' = Succ(m_readerPos), m_writerPos' = m_writerPos
      PROVE  Count' = Count - 1
  <2>1. CASE m_readerPos = MaxSize
    BY <1>1, <1>2, <1>3, <1>4, <1>6, <2>1 DEF Empty, QueueSize, Slots
  <2>2. CASE m_readerPos # MaxSize
    BY <1>1, <1>2, <1>3, <1>4, <1>6, <2>2 DEF Empty, QueueSize, Slots
  <2>3. QED
    BY <2>1, <2>2
<1>7. QED
  BY <1>5, <1>6

(* What a signal does to a set of sleepers.                                *)
LEMMA SignalledFacts ==
  ASSUME NEW S, IsFiniteSet(S), NEW T \in Signalled(S)
  PROVE  /\ T \subseteq S
         /\ IsFiniteSet(T)
         /\ S = {} => T = {}
         /\ S # {} => \E x \in S : T = S \ {x}
         /\ Cardinality(T) = IF S = {} THEN 0 ELSE Cardinality(S) - 1
<1>1. CASE S = {}
  BY <1>1, FS_EmptySet DEF Signalled
<1>2. CASE S # {}
  <2>1. PICK x \in S : T = S \ {x}
    BY <1>2 DEF Signalled
  <2>2. QED
    BY <1>2, <2>1, FS_RemoveElement
<1>3. QED
  BY <1>1, <1>2

(* The sets whose sizes the invariants compare are finite.                 *)
LEMMA Finiteness ==
  ASSUME NEW S \in SUBSET Threads
  PROVE  IsFiniteSet(S) /\ Cardinality(S) \in Nat
BY ThreadsAssumption, FS_Subset, FS_CardinalityType

(* One thread more or less in a set of threads.                            *)
LEMMA OneThread ==
  ASSUME NEW S \in SUBSET Threads, NEW t \in Threads
  PROVE  /\ Cardinality(S) \in Nat
         /\ Cardinality(S \cup {t}) \in Nat /\ Cardinality(S \ {t}) \in Nat
         /\ t \notin S => Cardinality(S \cup {t}) = Cardinality(S) + 1
         /\ t \in S => Cardinality(S \ {t}) = Cardinality(S) - 1
         /\ Cardinality(S \cup {t}) <= Cardinality(S) + 1
         /\ Cardinality(S \ {t}) <= Cardinality(S)
<1>1. IsFiniteSet(S) /\ Cardinality(S) \in Nat
  BY Finiteness
<1>2. Cardinality(S \cup {t}) \in Nat /\ Cardinality(S \ {t}) \in Nat
  BY Finiteness
<1>3. Cardinality(S \cup {t}) = IF t \in S THEN Cardinality(S) ELSE Cardinality(S) + 1
  BY <1>1, FS_AddElement, Zenon
<1>4. Cardinality(S \ {t}) = IF t \in S THEN Cardinality(S) - 1 ELSE Cardinality(S)
  BY <1>1, FS_RemoveElement, Zenon
<1>5. QED
  BY <1>1, <1>2, <1>3, <1>4

-----------------------------------------------------------------------------
(* Every field keeps its type in every step.                               *)
LEMMA TypeStep == TypeOK /\ [Next]_vars => TypeOK'
<1> SUFFICES ASSUME TypeOK, [Next]_vars PROVE TypeOK'
  OBVIOUS
<1> USE DEF TypeOK, Calls
<1>1. ASSUME NEW t \in Threads, NEW v \in Values, CallPush(t, v) PROVE TypeOK'
  BY <1>1 DEF CallPush, ring
<1>2. ASSUME NEW t \in Threads, CallPop(t) PROVE TypeOK'
  BY <1>2 DEF CallPop, ring
<1>3. ASSUME NEW t \in Threads, PushStalls(t) PROVE TypeOK'
  BY <1>3 DEF PushStalls, ring
<1>4. ASSUME NEW t \in Threads, PushStores(t) PROVE TypeOK'
  <2>1. m_writerPos' \in Slots /\ m_readerPos' \in Slots
    BY <1>4, SuccFacts DEF PushStores
  <2>2. m_readers' \in Nat /\ readWait' \in SUBSET Threads
    BY <1>4 DEF PushStores, SignalReader, Signalled
  <2>3. call' \in [Threads -> Calls] /\ dat' \in [Threads -> Values \cup {NoValue}]
    BY <1>4 DEF PushStores, Returns
  <2>4. r_queueData' \in [Slots -> Values \cup {NoValue}]
    BY <1>4 DEF PushStores
  <2>5. m_writers' \in Nat /\ writeWait' \in SUBSET Threads
    BY <1>4 DEF PushStores
  <2>6. QED
    BY <2>1, <2>2, <2>3, <2>4, <2>5
<1>5. ASSUME NEW t \in Threads, PopStalls(t) PROVE TypeOK'
  BY <1>5 DEF PopStalls, ring
<1>6. ASSUME NEW t \in Threads, PopTakes(t) PROVE TypeOK'
  <2>1. m_writerPos' \in Slots /\ m_readerPos' \in Slots
    BY <1>6, SuccFacts DEF PopTakes
  <2>2. m_writers' \in Nat /\ writeWait' \in SUBSET Threads
    BY <1>6 DEF PopTakes, SignalWriter, Signalled
  <2>3. call' \in [Threads -> Calls] /\ dat' \in [Threads -> Values \cup {NoValue}]
    BY <1>6 DEF PopTakes, Returns
  <2>4. /\ r_queueData' \in [Slots -> Values \cup {NoValue}]
        /\ m_readers' \in Nat /\ readWait' \in SUBSET Threads
    BY <1>6 DEF PopTakes
  <2>5. QED
    BY <2>1, <2>2, <2>3, <2>4
<1>7. ASSUME NEW t \in Threads, WakeReader(t) PROVE TypeOK'
  BY <1>7 DEF WakeReader, ring
<1>8. ASSUME NEW t \in Threads, WakeWriter(t) PROVE TypeOK'
  BY <1>8 DEF WakeWriter, ring
<1>9. CASE Clear
  BY <1>9, MaxSizeAssumption DEF Clear, Slots
<1>10. CASE UNCHANGED vars
  BY <1>10 DEF vars, ring
<1>11. QED
  BY <1>1, <1>2, <1>3, <1>4, <1>5, <1>6, <1>7, <1>8, <1>9, <1>10 DEF Next, Step

(* Types: every behaviour of the queue keeps TypeOK.                       *)
THEOREM TypeCorrect == Spec => []TypeOK
<1>1. Init => TypeOK
  BY MaxSizeAssumption DEF Init, TypeOK, Slots, Calls
<1>2. QED
  BY <1>1, TypeStep, PTL DEF Spec

-----------------------------------------------------------------------------
(* Only callers sleep: a step that ends or starts a call is the step of a  *)
(* thread that is awake.                                                   *)
LEMMA SleepersStep ==
  TypeOK /\ SleepersInCall /\ [Next]_vars => SleepersInCall'
<1> SUFFICES ASSUME TypeOK, SleepersInCall, [Next]_vars PROVE SleepersInCall'
  OBVIOUS
<1> USE DEF TypeOK, SleepersInCall
<1>1. ASSUME NEW t \in Threads, NEW v \in Values, CallPush(t, v)
      PROVE  SleepersInCall'
  BY <1>1 DEF CallPush
<1>2. ASSUME NEW t \in Threads, CallPop(t) PROVE SleepersInCall'
  BY <1>2 DEF CallPop
<1>3. ASSUME NEW t \in Threads, PushStalls(t) PROVE SleepersInCall'
  BY <1>3 DEF PushStalls, Running
<1>4. ASSUME NEW t \in Threads, PushStores(t) PROVE SleepersInCall'
  <2>1. readWait' \subseteq readWait
    BY <1>4 DEF PushStores, SignalReader, Signalled
  <2>2. QED
    BY <1>4, <2>1 DEF PushStores, Running, Returns
<1>5. ASSUME NEW t \in Threads, PopStalls(t) PROVE SleepersInCall'
  BY <1>5 DEF PopStalls, Running
<1>6. ASSUME NEW t \in Threads, PopTakes(t) PROVE SleepersInCall'
  <2>1. writeWait' \subseteq writeWait
    BY <1>6 DEF PopTakes, SignalWriter, Signalled
  <2>2. QED
    BY <1>6, <2>1 DEF PopTakes, Running, Returns
<1>7. ASSUME NEW t \in Threads, WakeReader(t) PROVE SleepersInCall'
  BY <1>7 DEF WakeReader
<1>8. ASSUME NEW t \in Threads, WakeWriter(t) PROVE SleepersInCall'
  BY <1>8 DEF WakeWriter
<1>9. CASE Clear
  BY <1>9 DEF Clear
<1>10. CASE UNCHANGED vars
  BY <1>10 DEF vars
<1>11. QED
  BY <1>1, <1>2, <1>3, <1>4, <1>5, <1>6, <1>7, <1>8, <1>9, <1>10 DEF Next, Step

(* The loop of mpQueueClear leaves no writer asleep.                       *)
LEMMA ClearWakesAll ==
  ASSUME TypeOK, CountersCoverSleepers, Clear
  PROVE  writeWait' = {}
<1>1. PICK woken \in SUBSET writeWait :
        /\ Cardinality(woken) = m_writers \/ woken = writeWait
        /\ writeWait' = writeWait \ woken
  BY DEF Clear
<1>2. CASE woken = writeWait
  BY <1>1, <1>2
<1>3. CASE Cardinality(woken) = m_writers
  <2>1. IsFiniteSet(writeWait) /\ Cardinality(writeWait) \in Nat
    BY Finiteness DEF TypeOK
  <2>2. /\ Cardinality(woken) <= Cardinality(writeWait)
        /\ Cardinality(writeWait) = Cardinality(woken) => writeWait = woken
    BY <2>1, FS_Subset
  <2>3. QED
    BY <1>1, <1>3, <2>1, <2>2 DEF CountersCoverSleepers, TypeOK
<1>4. QED
  BY <1>1, <1>2, <1>3

(* A sleeper's counter never falls short of the sleepers.                  *)
LEMMA CountersStep ==
  TypeOK /\ CountersCoverSleepers /\ [Next]_vars => CountersCoverSleepers'
<1> SUFFICES ASSUME TypeOK, CountersCoverSleepers, [Next]_vars
             PROVE  CountersCoverSleepers'
  OBVIOUS
<1> USE DEF CountersCoverSleepers
<1>1. /\ IsFiniteSet(readWait) /\ Cardinality(readWait) \in Nat
      /\ IsFiniteSet(writeWait) /\ Cardinality(writeWait) \in Nat
      /\ m_readers \in Nat /\ m_writers \in Nat
  BY Finiteness DEF TypeOK
<1>2. ASSUME NEW t \in Threads, NEW v \in Values, CallPush(t, v)
      PROVE  CountersCoverSleepers'
  BY <1>2 DEF CallPush
<1>3. ASSUME NEW t \in Threads, CallPop(t) PROVE CountersCoverSleepers'
  BY <1>3 DEF CallPop
<1>4. ASSUME NEW t \in Threads, PushStalls(t) PROVE CountersCoverSleepers'
  <2>1. /\ Cardinality(writeWait \cup {t}) \in Nat
        /\ Cardinality(writeWait \cup {t}) <= Cardinality(writeWait) + 1
    BY OneThread DEF TypeOK
  <2>2. QED
    BY <1>1, <1>4, <2>1 DEF PushStalls
<1>5. ASSUME NEW t \in Threads, PushStores(t) PROVE CountersCoverSleepers'
  <2>1. CASE m_readers > 0
    <3>1. readWait' \in Signalled(readWait) /\ m_readers' = m_readers - 1
      BY <1>5, <2>1 DEF PushStores, SignalReader
    <3>2. Cardinality(readWait') =
            IF readWait = {} THEN 0 ELSE Cardinality(readWait) - 1
      BY <1>1, <3>1, SignalledFacts
    <3>3. QED
      BY <1>1, <1>5, <2>1, <3>1, <3>2 DEF PushStores
  <2>2. CASE ~(m_readers > 0)
    BY <1>5, <2>2 DEF PushStores, SignalReader
  <2>3. QED
    BY <2>1, <2>2
<1>6. ASSUME NEW t \in Threads, PopStalls(t) PROVE CountersCoverSleepers'
  <2>1. /\ Cardinality(readWait \cup {t}) \in Nat
        /\ Cardinality(readWait \cup {t}) <= Cardinality(readWait) + 1
    BY OneThread DEF TypeOK
  <2>2. QED
    BY <1>1, <1>6, <2>1 DEF PopStalls
<1>7. ASSUME NEW t \in Threads, PopTakes(t) PROVE CountersCoverSleepers'
  <2>1. CASE m_writers > 0
    <3>1. writeWait' \in Signalled(writeWait) /\ m_writers' = m_writers - 1
      BY <1>7, <2>1 DEF PopTakes, SignalWriter
    <3>2. Cardinality(writeWait') =
            IF writeWait = {} THEN 0 ELSE Cardinality(writeWait) - 1
      BY <1>1, <3>1, SignalledFacts
    <3>3. QED
      BY <1>1, <1>7, <2>1, <3>1, <3>2 DEF PopTakes
  <2>2. CASE ~(m_writers > 0)
    BY <1>7, <2>2 DEF PopTakes, SignalWriter
  <2>3. QED
    BY <2>1, <2>2
<1>8. ASSUME NEW t \in Threads, WakeReader(t) PROVE CountersCoverSleepers'
  <2>1. /\ Cardinality(readWait \ {t}) \in Nat
        /\ Cardinality(readWait \ {t}) <= Cardinality(readWait)
    BY OneThread DEF TypeOK
  <2>2. QED
    BY <1>1, <1>8, <2>1 DEF WakeReader
<1>9. ASSUME NEW t \in Threads, WakeWriter(t) PROVE CountersCoverSleepers'
  <2>1. /\ Cardinality(writeWait \ {t}) \in Nat
        /\ Cardinality(writeWait \ {t}) <= Cardinality(writeWait)
    BY OneThread DEF TypeOK
  <2>2. QED
    BY <1>1, <1>9, <2>1 DEF WakeWriter
<1>10. CASE Clear
  <2>1. writeWait' = {}
    BY <1>10, ClearWakesAll
  <2>2. QED
    BY <1>1, <1>10, <2>1, FS_EmptySet DEF Clear
<1>11. CASE UNCHANGED vars
  BY <1>11 DEF vars
<1>12. QED
  BY <1>2, <1>3, <1>4, <1>5, <1>6, <1>7, <1>8, <1>9, <1>10, <1>11 DEF Next, Step

-----------------------------------------------------------------------------
(* The balance between values and awake readers.                           *)
ReadersServed == readWait # {} => Count <= Cardinality(AwakeReaders)
WritersServed == writeWait # {} => MaxSize - Count <= Cardinality(AwakeWriters)

(* A step that does not change the number of values, puts no reader to     *)
(* sleep and takes no call from an awake reader keeps the readers' balance.*)
LEMMA ReadersMonotone ==
  ASSUME TypeOK, ReadersServed, Count' <= Count, Count' \in Int,
         readWait' \subseteq readWait, AwakeReaders \subseteq AwakeReaders',
         AwakeReaders' \in SUBSET Threads
  PROVE  ReadersServed'
<1>1. Cardinality(AwakeReaders) <= Cardinality(AwakeReaders')
  BY Finiteness, FS_Subset
<1>2. Count \in 0 .. MaxSize
  BY CountFacts DEF TypeOK
<1>3. Cardinality(AwakeReaders) \in Nat /\ Cardinality(AwakeReaders') \in Nat
  BY Finiteness
<1>4. QED
  BY <1>1, <1>2, <1>3, MaxSizeAssumption DEF ReadersServed

(* The same for the writers.                                               *)
LEMMA WritersMonotone ==
  ASSUME TypeOK, WritersServed, Count <= Count', Count' \in Int,
         writeWait' \subseteq writeWait, AwakeWriters \subseteq AwakeWriters',
         AwakeWriters' \in SUBSET Threads
  PROVE  WritersServed'
<1>1. Cardinality(AwakeWriters) <= Cardinality(AwakeWriters')
  BY Finiteness, FS_Subset
<1>2. Count \in 0 .. MaxSize
  BY CountFacts DEF TypeOK
<1>3. Cardinality(AwakeWriters) \in Nat /\ Cardinality(AwakeWriters') \in Nat
  BY Finiteness
<1>4. QED
  BY <1>1, <1>2, <1>3, MaxSizeAssumption DEF WritersServed

(* Putting a value in and signalling for it keeps the readers' balance:    *)
(* the signal adds one awake reader for the one new value, and the counter *)
(* is positive whenever a reader sleeps.                                   *)
LEMMA StoreServesReaders ==
  ASSUME TypeOK, SleepersInCall, CountersCoverSleepers, ReadersServed, TypeOK',
         NEW t \in Threads, PushStores(t)
  PROVE  ReadersServed'
<1>1. Count \in 0 .. MaxSize /\ Count' = Count + 1
  BY CountFacts, CountSteps DEF PushStores, TypeOK
<1>2. CASE readWait = {}
  <2>1. readWait' = {}
    BY <1>2 DEF PushStores, SignalReader, Signalled
  <2>2. QED
    BY <2>1 DEF ReadersServed
<1>3. CASE readWait # {}
  <2>1. m_readers > 0
    <3>1. Cardinality(readWait) \in Nat /\ Cardinality(readWait) # 0
      BY <1>3, Finiteness, FS_EmptySet DEF TypeOK
    <3>2. QED
      BY <3>1 DEF CountersCoverSleepers, TypeOK
  <2>2. PICK x \in readWait : readWait' = readWait \ {x}
    BY <1>3, <2>1 DEF PushStores, SignalReader, Signalled
  <2>3. x \in Threads /\ x \notin AwakeReaders /\ call[x] = "pop"
    BY <2>2 DEF TypeOK, SleepersInCall, AwakeReaders
  <2>4. AwakeReaders' = AwakeReaders \cup {x}
    BY <2>2, <2>3 DEF PushStores, Running, Returns, AwakeReaders, TypeOK
  <2>5. Cardinality(AwakeReaders') = Cardinality(AwakeReaders) + 1
    BY <2>3, <2>4, OneThread DEF AwakeReaders
  <2>6. Cardinality(AwakeReaders) \in Nat
    BY Finiteness DEF AwakeReaders
  <2>7. QED
    BY <1>1, <1>3, <2>5, <2>6, MaxSizeAssumption DEF ReadersServed
<1>4. QED
  BY <1>2, <1>3

(* The same for a slot that becomes free.                                  *)
LEMMA TakeServesWriters ==
  ASSUME TypeOK, SleepersInCall, CountersCoverSleepers, WritersServed, TypeOK',
         NEW t \in Threads, PopTakes(t)
  PROVE  WritersServed'
<1>1. Count \in 0 .. MaxSize /\ Count' = Count - 1
  BY CountFacts, CountSteps DEF PopTakes, TypeOK
<1>2. CASE writeWait = {}
  <2>1. writeWait' = {}
    BY <1>2 DEF PopTakes, SignalWriter, Signalled
  <2>2. QED
    BY <2>1 DEF WritersServed
<1>3. CASE writeWait # {}
  <2>1. m_writers > 0
    <3>1. Cardinality(writeWait) \in Nat /\ Cardinality(writeWait) # 0
      BY <1>3, Finiteness, FS_EmptySet DEF TypeOK
    <3>2. QED
      BY <3>1 DEF CountersCoverSleepers, TypeOK
  <2>2. PICK x \in writeWait : writeWait' = writeWait \ {x}
    BY <1>3, <2>1 DEF PopTakes, SignalWriter, Signalled
  <2>3. x \in Threads /\ x \notin AwakeWriters /\ call[x] = "push"
    BY <2>2 DEF TypeOK, SleepersInCall, AwakeWriters
  <2>4. AwakeWriters' = AwakeWriters \cup {x}
    BY <2>2, <2>3 DEF PopTakes, Running, Returns, AwakeWriters, TypeOK
  <2>5. Cardinality(AwakeWriters') = Cardinality(AwakeWriters) + 1
    BY <2>3, <2>4, OneThread DEF AwakeWriters
  <2>6. Cardinality(AwakeWriters) \in Nat
    BY Finiteness DEF AwakeWriters
  <2>7. QED
    BY <1>1, <1>3, <2>5, <2>6, MaxSizeAssumption DEF WritersServed
<1>4. QED
  BY <1>2, <1>3

(* The thread that stores was one of the awake writers its free slot was   *)
(* balanced by.                                                            *)
LEMMA StoreServesWriters ==
  ASSUME TypeOK, WritersServed, TypeOK', NEW t \in Threads, PushStores(t)
  PROVE  WritersServed'
<1>1. Count \in 0 .. MaxSize /\ Count' = Count + 1
  BY CountFacts, CountSteps DEF PushStores, TypeOK
<1>2. t \in AwakeWriters /\ AwakeWriters' = AwakeWriters \ {t}
  BY DEF PushStores, Running, Returns, AwakeWriters, TypeOK
<1>3. /\ Cardinality(AwakeWriters) \in Nat
      /\ Cardinality(AwakeWriters') = Cardinality(AwakeWriters) - 1
  BY <1>2, OneThread DEF AwakeWriters
<1>4. writeWait' = writeWait
  BY DEF PushStores
<1>5. QED
  BY <1>1, <1>3, <1>4, MaxSizeAssumption DEF WritersServed

(* The thread that takes was one of the awake readers of its value.        *)
LEMMA TakeServesReaders ==
  ASSUME TypeOK, ReadersServed, TypeOK', NEW t \in Threads, PopTakes(t)
  PROVE  ReadersServed'
<1>1. Count \in 0 .. MaxSize /\ Count' = Count - 1
  BY CountFacts, CountSteps DEF PopTakes, TypeOK
<1>2. t \in AwakeReaders /\ AwakeReaders' = AwakeReaders \ {t}
  BY DEF PopTakes, Running, Returns, AwakeReaders, TypeOK
<1>3. /\ Cardinality(AwakeReaders) \in Nat
      /\ Cardinality(AwakeReaders') = Cardinality(AwakeReaders) - 1
  BY <1>2, OneThread DEF AwakeReaders
<1>4. readWait' = readWait
  BY DEF PopTakes
<1>5. QED
  BY <1>1, <1>3, <1>4, MaxSizeAssumption DEF ReadersServed

(* No step loses a wake-up.                                                *)
LEMMA ServedStep ==
  ASSUME IInv, TypeOK', [Next]_vars
  PROVE  NoLostWakeup'
<1> USE DEF IInv
<1>1. ReadersServed /\ WritersServed
  BY DEF NoLostWakeup, ReadersServed, WritersServed
<1>2. SUFFICES ReadersServed' /\ WritersServed'
  BY DEF NoLostWakeup, ReadersServed, WritersServed
<1>3. Count \in 0 .. MaxSize /\ Count' \in 0 .. MaxSize
  BY DistanceFacts DEF Count, TypeOK
<1>4. AwakeReaders' \in SUBSET Threads /\ AwakeWriters' \in SUBSET Threads
  BY DEF AwakeReaders, AwakeWriters
<1>5. Count \in Int /\ Count' \in Int /\ Count <= Count
  BY <1>3, MaxSizeAssumption
<1>6. UNCHANGED ring => Count' = Count
  BY DEF Count, ring
<1>7. ASSUME NEW t \in Threads, NEW v \in Values, CallPush(t, v)
      PROVE  ReadersServed' /\ WritersServed'
  <2>1. Count' = Count
    BY <1>6, <1>7 DEF CallPush
  <2>2. AwakeReaders \subseteq AwakeReaders' /\ AwakeWriters \subseteq AwakeWriters'
    BY <1>7 DEF CallPush, AwakeReaders, AwakeWriters, TypeOK
  <2>3. readWait' = readWait /\ writeWait' = writeWait
    BY <1>7 DEF CallPush
  <2>4. QED
    BY <1>1, <1>4, <1>5, <2>1, <2>2, <2>3, ReadersMonotone, WritersMonotone
<1>8. ASSUME NEW t \in Threads, CallPop(t) PROVE ReadersServed' /\ WritersServed'
  <2>1. Count' = Count
    BY <1>6, <1>8 DEF CallPop
  <2>2. AwakeReaders \subseteq AwakeReaders' /\ AwakeWriters \subseteq AwakeWriters'
    BY <1>8 DEF CallPop, AwakeReaders, AwakeWriters, TypeOK
  <2>3. readWait' = readWait /\ writeWait' = writeWait
    BY <1>8 DEF CallPop
  <2>4. QED
    BY <1>1, <1>4, <1>5, <2>1, <2>2, <2>3, ReadersMonotone, WritersMonotone
<1>9. ASSUME NEW t \in Threads, PushStalls(t) PROVE ReadersServed' /\ WritersServed'
  <2>1. Count' = Count /\ Count = MaxSize
    BY <1>6, <1>9, CountFacts DEF PushStalls, TypeOK
  <2>2. AwakeReaders \subseteq AwakeReaders' /\ readWait' = readWait
    BY <1>9 DEF PushStalls, AwakeReaders
  <2>3. ReadersServed'
    BY <1>1, <1>4, <1>5, <2>1, <2>2, ReadersMonotone
  <2>4. Cardinality(AwakeWriters') \in Nat
    BY <1>4, Finiteness
  <2>5. QED
    BY <2>1, <2>3, <2>4, MaxSizeAssumption DEF WritersServed
<1>10. ASSUME NEW t \in Threads, PushStores(t) PROVE ReadersServed' /\ WritersServed'
  BY <1>1, <1>10, StoreServesReaders, StoreServesWriters
<1>11. ASSUME NEW t \in Threads, PopStalls(t) PROVE ReadersServed' /\ WritersServed'
  <2>1. Count' = Count /\ Count = 0
    BY <1>6, <1>11, CountFacts DEF PopStalls, TypeOK
  <2>2. AwakeWriters \subseteq AwakeWriters' /\ writeWait' = writeWait
    BY <1>11 DEF PopStalls, AwakeWriters
  <2>3. WritersServed'
    BY <1>1, <1>4, <1>5, <2>1, <2>2, WritersMonotone
  <2>4. Cardinality(AwakeReaders') \in Nat
    BY <1>4, Finiteness
  <2>5. QED
    BY <2>1, <2>3, <2>4 DEF ReadersServed
<1>12. ASSUME NEW t \in Threads, PopTakes(t) PROVE ReadersServed' /\ WritersServed'
  BY <1>1, <1>12, TakeServesReaders, TakeServesWriters
<1>13. ASSUME NEW t \in Threads, WakeReader(t) PROVE ReadersServed' /\ WritersServed'
  <2>1. Count' = Count
    BY <1>6, <1>13 DEF WakeReader
  <2>2. AwakeReaders \subseteq AwakeReaders' /\ AwakeWriters \subseteq AwakeWriters'
    BY <1>13 DEF WakeReader, AwakeReaders, AwakeWriters
  <2>3. readWait' \subseteq readWait /\ writeWait' = writeWait
    BY <1>13 DEF WakeReader
  <2>4. QED
    BY <1>1, <1>4, <1>5, <2>1, <2>2, <2>3, ReadersMonotone, WritersMonotone
<1>14. ASSUME NEW t \in Threads, WakeWriter(t) PROVE ReadersServed' /\ WritersServed'
  <2>1. Count' = Count
    BY <1>6, <1>14 DEF WakeWriter
  <2>2. AwakeReaders \subseteq AwakeReaders' /\ AwakeWriters \subseteq AwakeWriters'
    BY <1>14 DEF WakeWriter, AwakeReaders, AwakeWriters
  <2>3. readWait' = readWait /\ writeWait' \subseteq writeWait
    BY <1>14 DEF WakeWriter
  <2>4. QED
    BY <1>1, <1>4, <1>5, <2>1, <2>2, <2>3, ReadersMonotone, WritersMonotone
<1>15. CASE Clear
  <2>1. Count' = 0
    <3>1. 0 % QueueSize = 0
      BY SizeFacts
    <3>2. QED
      BY <1>15, <3>1 DEF Clear, Count
  <2>2. writeWait' = {} /\ readWait' = readWait /\ AwakeReaders' = AwakeReaders
    BY <1>15, ClearWakesAll DEF Clear, AwakeReaders
  <2>3. Cardinality(AwakeReaders) \in Nat
    BY <1>4, <2>2, Finiteness
  <2>4. QED
    BY <2>1, <2>2, <2>3 DEF ReadersServed, WritersServed
<1>16. CASE UNCHANGED vars
  BY <1>1, <1>16 DEF vars, ring, ReadersServed, WritersServed, Count,
                     AwakeReaders, AwakeWriters
<1>17. QED
  BY <1>7, <1>8, <1>9, <1>10, <1>11, <1>12, <1>13, <1>14, <1>15, <1>16
     DEF Next, Step

(* The inductive invariant.                                                *)
THEOREM InductiveInvariant == Spec => []IInv
<1>1. Init => IInv
  <2> SUFFICES ASSUME Init PROVE IInv
    OBVIOUS
  <2>1. TypeOK
    BY MaxSizeAssumption DEF Init, TypeOK, Slots, Calls
  <2>2. SleepersInCall /\ NoLostWakeup
    BY DEF Init, SleepersInCall, NoLostWakeup
  <2>3. CountersCoverSleepers
    BY FS_EmptySet DEF Init, CountersCoverSleepers
  <2>4. QED
    BY <2>1, <2>2, <2>3 DEF IInv
<1>2. IInv /\ [Next]_vars => IInv'
  BY TypeStep, SleepersStep, CountersStep, ServedStep DEF IInv
<1>3. QED
  BY <1>1, <1>2, PTL DEF Spec

(* Counters never fall short of the sleepers they stand for.               *)
THEOREM CountersCorrect == Spec => []CountersCoverSleepers
<1>1. IInv => CountersCoverSleepers
  BY DEF IInv
<1>2. QED
  BY <1>1, InductiveInvariant, PTL

(* No wake-up of mpQueuePush, mpQueuePop or mpQueueClear is lost.          *)
THEOREM NoWakeupIsLost == Spec => []NoLostWakeup
<1>1. IInv => NoLostWakeup
  BY DEF IInv
<1>2. QED
  BY <1>1, InductiveInvariant, PTL

-----------------------------------------------------------------------------
(* The slot that is k places after position p.                             *)
At(p, k) == (p + k) % QueueSize

(* Walking round the ring: where the slots k places on are, and which of   *)
(* them differ.                                                            *)
LEMMA AtFacts ==
  ASSUME NEW p \in Slots, NEW k \in 0 .. MaxSize
  PROVE  /\ At(p, k) \in Slots
         /\ At(p, k) = IF p + k <= MaxSize THEN p + k ELSE p + k - QueueSize
<1>1. MaxSize \in Nat
  BY MaxSizeAssumption
<1>2. CASE p + k <= MaxSize
  <2>1. p + k \in 0 .. QueueSize - 1
    BY <1>1, <1>2 DEF QueueSize, Slots
  <2>2. QED
    BY <1>1, <1>2, <2>1 DEF At, QueueSize, Slots
<1>3. CASE ~(p + k <= MaxSize)
  <2>1. /\ QueueSize \in Nat \ {0} /\ p \in Nat /\ k \in Nat
        /\ QueueSize <= p + k /\ p + k < QueueSize + QueueSize
    BY <1>1, <1>3 DEF QueueSize, Slots
  <2>2. (p + k) % QueueSize = p + k - QueueSize
    BY <2>1
  <2>3. QED
    BY <1>1, <1>3, <2>1, <2>2 DEF At, QueueSize, Slots
<1>4. QED
  BY <1>2, <1>3

(* The ring read as a sequence.                                            *)
Data == Values \cup {NoValue}

(* Items is a sequence of as many values as the ring holds.                *)
LEMMA ItemsFacts ==
  ASSUME TypeOK
  PROVE  /\ Items \in Seq(Data)
         /\ Len(Items) = Count
         /\ \A i \in 1 .. Count : Items[i] = r_queueData[At(m_readerPos, i - 1)]
<1>1. Count \in 0 .. MaxSize /\ MaxSize \in Nat
  BY CountFacts, MaxSizeAssumption DEF TypeOK
<1>2. ASSUME NEW i \in 1 .. Count
      PROVE  r_queueData[(m_readerPos + i - 1) % QueueSize] \in Data
  <2>1. i - 1 \in 0 .. MaxSize /\ m_readerPos + i - 1 = m_readerPos + (i - 1)
    BY <1>1 DEF TypeOK, Slots
  <2>2. (m_readerPos + i - 1) % QueueSize \in Slots
    BY <2>1, AtFacts DEF At, TypeOK
  <2>3. QED
    BY <2>2 DEF TypeOK, Data
<1>3. Items \in [1 .. Count -> Data]
  BY <1>2 DEF Items
<1>4. Items \in Seq(Data) /\ Len(Items) = Count
  BY <1>1, <1>3
<1>5. \A i \in 1 .. Count : Items[i] = r_queueData[At(m_readerPos, i - 1)]
  <2> TAKE i \in 1 .. Count
  <2>1. m_readerPos + i - 1 = m_readerPos + (i - 1)
    BY <1>1 DEF TypeOK, Slots
  <2>2. QED
    BY <2>1 DEF Items, At
<1>6. QED
  BY <1>4, <1>5

(* A store appends at the young end.                                       *)
LEMMA StoreAppends ==
  ASSUME TypeOK, TypeOK', NEW t \in Threads, PushStores(t)
  PROVE  Items' = Append(Items, dat[t]) /\ Len(Items) < MaxSize
<1>1. Count \in 0 .. MaxSize /\ MaxSize \in Nat /\ Count' = Count + 1
      /\ Count # MaxSize
  BY CountFacts, CountSteps, MaxSizeAssumption DEF PushStores, TypeOK
<1>2. /\ Items' \in Seq(Data) /\ Len(Items') = Count'
      /\ \A i \in 1 .. Count' : Items'[i] = r_queueData'[At(m_readerPos', i - 1)]
  <2>1. Count' \in 0 .. MaxSize
    BY <1>1
  <2>2. ASSUME NEW i \in 1 .. Count'
        PROVE  /\ r_queueData'[(m_readerPos' + i - 1) % QueueSize] \in Data
               /\ (m_readerPos' + i - 1) % QueueSize = At(m_readerPos', i - 1)
    <3>1. i - 1 \in 0 .. MaxSize /\ m_readerPos' + i - 1 = m_readerPos' + (i - 1)
      BY <1>1 DEF TypeOK, Slots
    <3>2. (m_readerPos' + i - 1) % QueueSize \in Slots
      BY <3>1, AtFacts DEF At, TypeOK
    <3>3. QED
      BY <3>1, <3>2 DEF TypeOK, Data, At
  <2>3. Items' \in [1 .. Count' -> Data]
    BY <2>2 DEF Items
  <2>4. Items' \in Seq(Data) /\ Len(Items') = Count'
    BY <2>1, <2>3
  <2>5. QED
    BY <2>2, <2>4 DEF Items
<1>3. dat[t] \in Data
  BY DEF TypeOK, Data
<1>4. /\ Append(Items, dat[t]) \in Seq(Data)
      /\ Len(Append(Items, dat[t])) = Count + 1
      /\ \A i \in 1 .. Count : Append(Items, dat[t])[i] = Items[i]
      /\ Append(Items, dat[t])[Count + 1] = dat[t]
  BY <1>1, <1>3, ItemsFacts, AppendProperties
<1>5. At(m_readerPos, Count) = m_writerPos
  <2>1. m_writerPos \in Slots /\ m_readerPos \in Slots
    BY DEF TypeOK
  <2>2. At(m_readerPos, Count) = IF m_readerPos + Count <= MaxSize
                                   THEN m_readerPos + Count
                                   ELSE m_readerPos + Count - QueueSize
    BY <1>1, <2>1, AtFacts
  <2>3. Count = IF m_writerPos >= m_readerPos
                  THEN m_writerPos - m_readerPos
                  ELSE m_writerPos - m_readerPos + QueueSize
    BY <2>1, DistanceFacts DEF Count
  <2>4. QED
    BY <1>1, <2>1, <2>2, <2>3 DEF QueueSize, Slots
<1>6. ASSUME NEW i \in 1 .. Count + 1
      PROVE  Items'[i] = Append(Items, dat[t])[i]
  <2>1. Items'[i] = [r_queueData EXCEPT ![m_writerPos] = dat[t]][At(m_readerPos, i - 1)]
    BY <1>1, <1>2 DEF PushStores
  <2>2. i - 1 \in 0 .. MaxSize /\ At(m_readerPos, i - 1) \in Slots
    BY <1>1, AtFacts DEF TypeOK
  <2>3. CASE i = Count + 1
    <3>1. At(m_readerPos, i - 1) = m_writerPos
      BY <1>1, <1>5, <2>3
    <3>2. Items'[i] = dat[t]
      BY <2>1, <2>2, <3>1 DEF TypeOK
    <3>3. QED
      BY <1>4, <2>3, <3>2
  <2>4. CASE i \in 1 .. Count
    <3>1. At(m_readerPos, i - 1) # At(m_readerPos, Count)
      <4>1. At(m_readerPos, i - 1) = IF m_readerPos + (i - 1) <= MaxSize
                                       THEN m_readerPos + (i - 1)
                                       ELSE m_readerPos + (i - 1) - QueueSize
        BY <2>2, AtFacts DEF TypeOK
      <4>2. At(m_readerPos, Count) = IF m_readerPos + Count <= MaxSize
                                       THEN m_readerPos + Count
                                       ELSE m_readerPos + Count - QueueSize
        BY <1>1, AtFacts DEF TypeOK
      <4>3. m_readerPos \in 0 .. MaxSize
        BY DEF TypeOK, Slots
      <4>4. QED
        BY <1>1, <2>4, <4>1, <4>2, <4>3 DEF QueueSize
    <3>2. Items'[i] = r_queueData[At(m_readerPos, i - 1)]
      BY <1>5, <2>1, <2>2, <3>1 DEF TypeOK
    <3>3. QED
      BY <1>4, <2>4, <3>2, ItemsFacts
  <2>5. i = Count + 1 \/ i \in 1 .. Count
    BY <1>1
  <2>6. QED
    BY <2>3, <2>4, <2>5
<1>7. Items' = Append(Items, dat[t])
  BY <1>1, <1>2, <1>4, <1>6, SeqEqual
<1>8. QED
  BY <1>1, <1>7, ItemsFacts

(* A take removes at the old end.                                          *)
LEMMA TakeRemoves ==
  ASSUME TypeOK, TypeOK', NEW t \in Threads, PopTakes(t)
  PROVE  /\ Items # <<>>
         /\ r_queueData[m_readerPos] = Head(Items)
         /\ Items' = Tail(Items)
<1>1. Count \in 1 .. MaxSize /\ MaxSize \in Nat /\ Count' = Count - 1
  BY CountFacts, CountSteps, MaxSizeAssumption DEF PopTakes, TypeOK
<1>2. /\ Items \in Seq(Data) /\ Len(Items) = Count /\ Items # <<>>
      /\ \A i \in 1 .. Count : Items[i] = r_queueData[At(m_readerPos, i - 1)]
  BY <1>1, ItemsFacts
<1>3. At(m_readerPos, 0) = m_readerPos
  BY <1>1, AtFacts DEF TypeOK, Slots
<1>4. Head(Items) = r_queueData[m_readerPos]
  BY <1>1, <1>2, <1>3
<1>5. ASSUME NEW i \in 1 .. Count - 1
      PROVE  r_queueData'[(m_readerPos' + i - 1) % QueueSize] = Items[i + 1]
  <2>1. i - 1 \in 0 .. MaxSize /\ i \in 0 .. MaxSize
    BY <1>1
  <2>2. m_readerPos' = Succ(m_readerPos) /\ m_readerPos' \in Slots
    BY DEF PopTakes, TypeOK
  <2>3. Succ(m_readerPos) = IF m_readerPos = MaxSize THEN 0 ELSE m_readerPos + 1
    BY SuccFacts DEF TypeOK
  <2>4. At(m_readerPos', i - 1) = At(m_readerPos, i)
    <3>1. At(m_readerPos', i - 1) = IF m_readerPos' + (i - 1) <= MaxSize
                                      THEN m_readerPos' + (i - 1)
                                      ELSE m_readerPos' + (i - 1) - QueueSize
      BY <2>1, <2>2, AtFacts
    <3>2. At(m_readerPos, i) = IF m_readerPos + i <= MaxSize
                                 THEN m_readerPos + i
                                 ELSE m_readerPos + i - QueueSize
      BY <2>1, AtFacts DEF TypeOK
    <3>3. m_readerPos \in 0 .. MaxSize
      BY DEF TypeOK, Slots
    <3>4. QED
      BY <1>1, <2>2, <2>3, <3>1, <3>2, <3>3 DEF QueueSize
  <2>5. m_readerPos' + i - 1 = m_readerPos' + (i - 1)
    BY <1>1, <2>2 DEF Slots
  <2>6. i + 1 \in 1 .. Count /\ (i + 1) - 1 = i
    BY <1>1
  <2>7. QED
    BY <1>2, <2>4, <2>5, <2>6 DEF At, PopTakes
<1>6. Items' = [i \in 1 .. Count - 1 |-> Items[i + 1]]
  BY <1>1, <1>5 DEF Items
<1>7. Tail(Items) = [i \in 1 .. Count - 1 |-> Items[i + 1]]
  <2>1. /\ Tail(Items) \in Seq(Data) /\ Len(Tail(Items)) = Count - 1
        /\ \A i \in 1 .. Count - 1 : Tail(Items)[i] = Items[i + 1]
    BY <1>2, HeadTailProperties
  <2>2. Tail(Items) = [i \in 1 .. Count - 1 |-> Tail(Items)[i]]
    <3>1. Tail(Items) \in [1 .. Len(Tail(Items)) -> Data]
      BY <2>1, LenProperties
    <3>2. QED
      BY <2>1, <3>1
  <2>3. QED
    BY <2>1, <2>2
<1>8. QED
  BY <1>2, <1>4, <1>6, <1>7

(* Every step of the ring is a step of the abstract buffer, or hidden.     *)
LEMMA FifoStep ==
  ASSUME TypeOK, TypeOK', [Next]_vars
  PROVE  [Fifo!Next]_(Fifo!vars)
<1> USE DEF Fifo!Next, Fifo!vars
<1>1. UNCHANGED ring => Items' = Items
  BY DEF Items, Count, ring
<1>2. ASSUME NEW t \in Threads, NEW v \in Values, CallPush(t, v)
      PROVE  Fifo!Invoke(t, "push", v)
  BY <1>1, <1>2 DEF CallPush, Fifo!Invoke
<1>3. ASSUME NEW t \in Threads, CallPop(t) PROVE Fifo!Invoke(t, "pop", NoValue)
  BY <1>1, <1>3 DEF CallPop, Fifo!Invoke
<1>4. ASSUME NEW t \in Threads, PushStalls(t) PROVE UNCHANGED Fifo!vars
  BY <1>1, <1>4 DEF PushStalls
<1>5. ASSUME NEW t \in Threads, PushStores(t) PROVE Fifo!Put(t)
  BY <1>5, StoreAppends DEF PushStores, Running, Returns, Fifo!Put, Fifo!Return
<1>6. ASSUME NEW t \in Threads, PopStalls(t) PROVE UNCHANGED Fifo!vars
  BY <1>1, <1>6 DEF PopStalls
<1>7. ASSUME NEW t \in Threads, PopTakes(t) PROVE Fifo!Take(t)
  BY <1>7, TakeRemoves DEF PopTakes, Running, Returns, Fifo!Take, Fifo!Return
<1>8. ASSUME NEW t \in Threads, WakeReader(t) PROVE UNCHANGED Fifo!vars
  BY <1>1, <1>8 DEF WakeReader
<1>9. ASSUME NEW t \in Threads, WakeWriter(t) PROVE UNCHANGED Fifo!vars
  BY <1>1, <1>9 DEF WakeWriter
<1>10. ASSUME Clear PROVE Fifo!Discard
  <2>1. Count' = 0
    <3>1. 0 % QueueSize = 0
      BY SizeFacts
    <3>2. QED
      BY <1>10, <3>1 DEF Clear, Count
  <2>2. Items' = <<>>
    BY <2>1 DEF Items
  <2>3. QED
    BY <1>10, <2>2 DEF Clear, Fifo!Discard
<1>11. CASE UNCHANGED vars
  BY <1>1, <1>11 DEF vars, ring
<1>12. QED
  BY <1>2, <1>3, <1>4, <1>5, <1>6, <1>7, <1>8, <1>9, <1>10, <1>11 DEF Next, Step

(* The ring of mp_queue.c is a first-in first-out buffer of maxSize values.*)
THEOREM QueueIsFifo == Spec => ImplementsFifo
<1>1. Init => Fifo!Init
  <2> SUFFICES ASSUME Init PROVE Fifo!Init
    OBVIOUS
  <2>1. 0 % QueueSize = 0
    BY SizeFacts
  <2>2. Items = <<>>
    BY <2>1 DEF Init, Items, Count
  <2>3. QED
    BY <2>2 DEF Init, Fifo!Init
<1>2. TypeOK /\ TypeOK' /\ [Next]_vars => [Fifo!Next]_(Fifo!vars)
  BY FifoStep
<1>3. QED
  BY <1>1, <1>2, TypeCorrect, PTL DEF Spec, ImplementsFifo, Fifo!Spec
=============================================================================
