-------------------------- MODULE MpTaskWorldProofs -------------------------
(***************************************************************************)
(* Proofs about the pool of workers, for every number of workers, callers, *)
(* communications and tasks: that a communication has one owner, that no   *)
(* task runs twice, and that mpTerminate drops none.                       *)
(***************************************************************************)
EXTENDS MpTaskWorld, FiniteSetTheorems, SequenceTheorems, TLAPS

-----------------------------------------------------------------------------
(* How often the elements of a set occur among the values of a sequence or *)
(* of any function with a finite domain, and what a step does to it: who   *)
(* owns what is counted this way.                                          *)
Where(f, S) == {i \in DOMAIN f : f[i] \in S}
Count(f, S) == Cardinality(Where(f, S))
One(v, S) == IF v \in S THEN 1 ELSE 0

(* A count is a natural number, 0 if and only if no value is in the set.   *)
LEMMA CountType ==
  ASSUME NEW f, NEW S, IsFiniteSet(DOMAIN f)
  PROVE  /\ IsFiniteSet(Where(f, S))
         /\ Count(f, S) \in Nat
         /\ Count(f, S) = 0 <=> \A i \in DOMAIN f : f[i] \notin S
         /\ Count(f, S) <= Cardinality(DOMAIN f)
<1>1. Where(f, S) \in SUBSET (DOMAIN f) BY DEF Where
<1>2. /\ IsFiniteSet(Where(f, S))
      /\ Cardinality(Where(f, S)) <= Cardinality(DOMAIN f)
      BY <1>1, FS_Subset
<1>3. Cardinality(Where(f, S)) \in Nat BY <1>2, FS_CardinalityType
<1>4. Cardinality(Where(f, S)) = 0 <=> Where(f, S) = {} BY <1>2, FS_EmptySet
<1> QED BY <1>2, <1>3, <1>4 DEF Count, Where

(* Two places with values in the set make two.                             *)
LEMMA CountTwo ==
  ASSUME NEW f, NEW S, IsFiniteSet(DOMAIN f),
         NEW i \in DOMAIN f, NEW j \in DOMAIN f, i # j, f[i] \in S, f[j] \in S
  PROVE  Count(f, S) >= 2
<1>1. {i, j} \in SUBSET Where(f, S) BY DEF Where
<1>2. IsFiniteSet({i}) /\ Cardinality({i}) = 1 BY FS_Singleton
<1> DEFINE A == {i}
<1>a. j \notin A OBVIOUS
<1> HIDE DEF A
<1>b. Cardinality(A \cup {j}) = Cardinality(A) + 1 BY <1>2, <1>a, FS_AddElement DEF A
<1>3. Cardinality({i} \cup {j}) = 2 BY <1>2, <1>b DEF A
<1>4. {i} \cup {j} = {i, j} OBVIOUS
<1>5. Cardinality({i, j}) <= Cardinality(Where(f, S)) BY <1>1, CountType, FS_Subset
<1> QED BY <1>3, <1>4, <1>5 DEF Count

(* A function changed at one place.                                        *)
LEMMA CountExcept ==
  ASSUME NEW D, IsFiniteSet(D), NEW f, DOMAIN f = D, NEW g, DOMAIN g = D,
         NEW d \in D, \A i \in D \ {d} : g[i] = f[i], NEW S
  PROVE  Count(g, S) = Count(f, S) - One(f[d], S) + One(g[d], S)
<1> DEFINE A == Where(f, S) \ {d}
<1>1. A = Where(g, S) \ {d} BY DEF Where
<1>2. IsFiniteSet(Where(f, S)) /\ Count(f, S) \in Nat BY CountType
<1>3. IsFiniteSet(A) /\ Cardinality(A) = Count(f, S) - One(f[d], S)
      BY <1>2, FS_RemoveElement DEF Count, One, Where
<1>4. Where(g, S) = IF g[d] \in S THEN A \cup {d} ELSE A BY <1>1 DEF Where
<1>5. d \notin A OBVIOUS
<1>6. Cardinality(A \cup {d}) = Cardinality(A) + 1 BY <1>3, <1>5, FS_AddElement
<1>7. Cardinality(A) \in Nat BY <1>3, FS_CardinalityType
<1>8. Count(g, S) = Cardinality(A) + One(g[d], S)
  <2>1. CASE g[d] \in S BY <2>1, <1>4, <1>6 DEF Count, One
  <2>2. CASE g[d] \notin S
    <3>1. Count(g, S) = Cardinality(A) /\ One(g[d], S) = 0 BY <2>2, <1>4 DEF Count, One
    <3> QED BY <3>1, <1>7, SMT
  <2> QED BY <2>1, <2>2
<1> QED BY <1>3, <1>8

LEMMA SeqDomain ==
  ASSUME NEW T, NEW s \in Seq(T)
  PROVE  DOMAIN s = 1 .. Len(s) /\ Len(s) \in Nat /\ IsFiniteSet(DOMAIN s)
         /\ Cardinality(DOMAIN s) = Len(s)
<1>1. DOMAIN s = 1 .. Len(s) /\ Len(s) \in Nat BY LenProperties
<1>2. /\ IsFiniteSet(1 .. Len(s))
      /\ Cardinality(1 .. Len(s)) = IF 1 > Len(s) THEN 0 ELSE Len(s) - 1 + 1
      BY <1>1, FS_Interval, SMT
<1> QED BY <1>1, <1>2, SMT

LEMMA CountEmpty == \A S : Count(<<>>, S) = 0
  BY FS_EmptySet DEF Count, Where

LEMMA CountAppend ==
  ASSUME NEW T, NEW s \in Seq(T), NEW e \in T, NEW S
  PROVE  Count(Append(s, e), S) = Count(s, S) + One(e, S)
<1> DEFINE t == Append(s, e)
<1>1. /\ t \in Seq(T) /\ Len(t) = Len(s) + 1
      /\ \A i \in 1 .. Len(s) : t[i] = s[i]
      /\ t[Len(s) + 1] = e
      BY AppendProperties
<1>2. DOMAIN s = 1 .. Len(s) /\ Len(s) \in Nat /\ IsFiniteSet(DOMAIN s) BY SeqDomain
<1>3. DOMAIN t = 1 .. Len(s) + 1 BY <1>1, SeqDomain
<1> HIDE DEF t
<1>4. Where(t, S) = IF e \in S THEN Where(s, S) \cup {Len(s) + 1} ELSE Where(s, S)
  <2>1. \A i : i \in DOMAIN t <=> i \in DOMAIN s \/ i = Len(s) + 1 BY <1>2, <1>3, SMT
  <2>2. \A i \in DOMAIN s : t[i] = s[i] BY <1>1, <1>2
  <2>3. ASSUME NEW i PROVE i \in Where(t, S) <=> i \in Where(s, S) \/ (i = Len(s) + 1 /\ e \in S)
        BY <2>1, <2>2, <1>1 DEF Where
  <2> QED BY <2>3
<1>5. IsFiniteSet(Where(s, S)) /\ Cardinality(Where(s, S)) \in Nat BY <1>2, CountType DEF Count
<1>6. Len(s) + 1 \notin Where(s, S) BY <1>2, SMT DEF Where
<1>7. Cardinality(Where(s, S) \cup {Len(s) + 1}) = Cardinality(Where(s, S)) + 1
      BY <1>5, <1>6, FS_AddElement
<1>8. Count(t, S) = Count(s, S) + One(e, S) BY <1>4, <1>5, <1>7, SMT DEF Count, One
<1> QED BY <1>8 DEF t

LEMMA CountTail ==
  ASSUME NEW T, NEW s \in Seq(T), s # <<>>, NEW S
  PROVE  Count(Tail(s), S) = Count(s, S) - One(Head(s), S)
<1> DEFINE t == Tail(s)
<1>1. /\ t \in Seq(T) /\ Len(t) = Len(s) - 1
      /\ \A i \in 1 .. Len(t) : t[i] = s[i + 1]
      BY HeadTailProperties
<1>2. DOMAIN s = 1 .. Len(s) /\ Len(s) \in Nat \ {0} /\ IsFiniteSet(DOMAIN s)
      BY SeqDomain, EmptySeq
<1>3. DOMAIN t = 1 .. Len(s) - 1 /\ IsFiniteSet(DOMAIN t) BY <1>1, SeqDomain
<1>0. Head(s) = s[1] OBVIOUS
<1> HIDE DEF t
<1> DEFINE A == Where(s, S) \ {1}
           f == [i \in Where(t, S) |-> i + 1]
<1>4. \A i \in Where(t, S) : i \in Nat /\ i + 1 \in A
  <2> SUFFICES ASSUME NEW i \in Where(t, S) PROVE i \in Nat /\ i + 1 \in A OBVIOUS
  <2>1. i \in 1 .. Len(s) - 1 /\ t[i] \in S /\ t[i] = s[i + 1] BY <1>1, <1>3 DEF Where
  <2>2. i \in Nat /\ i + 1 \in 1 .. Len(s) /\ i + 1 # 1 BY <2>1, <1>2, SMT
  <2> QED BY <2>1, <2>2, <1>2 DEF Where
<1>5. \A j \in A : j - 1 \in Where(t, S) /\ (j - 1) + 1 = j
  <2> SUFFICES ASSUME NEW j \in A PROVE j - 1 \in Where(t, S) /\ (j - 1) + 1 = j OBVIOUS
  <2>1. j \in 1 .. Len(s) /\ j # 1 /\ s[j] \in S BY <1>2 DEF Where
  <2>2. j - 1 \in 1 .. Len(s) - 1 /\ (j - 1) + 1 = j BY <2>1, <1>2, SMT
  <2>3. t[j - 1] = s[j] BY <2>2, <1>1
  <2> QED BY <2>1, <2>2, <2>3, <1>3 DEF Where
<1>6. f \in Bijection(Where(t, S), A)
  <2>1. f \in [Where(t, S) -> A] BY <1>4
  <2>2. \A i, j \in Where(t, S) : f[i] = f[j] => i = j
    <3> SUFFICES ASSUME NEW i \in Where(t, S), NEW j \in Where(t, S), i + 1 = j + 1 PROVE i = j
        OBVIOUS
    <3>1. i \in Nat /\ j \in Nat BY <1>4
    <3> QED BY <3>1, SMT
  <2>3. \A j \in A : \E i \in Where(t, S) : f[i] = j BY <1>5
  <2> QED BY <2>1, <2>2, <2>3 DEF Bijection, Injection, Surjection, IsInjective
<1>7. IsFiniteSet(Where(t, S)) BY <1>3, CountType
<1>8. Cardinality(A) = Cardinality(Where(t, S)) BY <1>6, <1>7, FS_Bijection DEF ExistsBijection
<1>9. IsFiniteSet(Where(s, S)) /\ Cardinality(Where(s, S)) \in Nat BY <1>2, CountType DEF Count
<1>10. 1 \in Where(s, S) <=> Head(s) \in S BY <1>0, <1>2, SMT DEF Where
<1>11. Count(t, S) = Count(s, S) - One(Head(s), S)
  <2>1. Cardinality(A) = IF 1 \in Where(s, S) THEN Cardinality(Where(s, S)) - 1
                                              ELSE Cardinality(Where(s, S))
        BY <1>9, FS_RemoveElement
  <2> HIDE DEF A
  <2> QED BY <2>1, <1>8, <1>9, <1>10, SMT DEF Count, One
<1> QED BY <1>11 DEF t

(* A sequence without repetition is no longer than its set of values.      *)
LEMMA CountedOnce ==
  ASSUME NEW T, IsFiniteSet(T), NEW s \in Seq(T), \A v \in T : Count(s, {v}) < 2
  PROVE  Len(s) <= Cardinality(T)
<1>1. DOMAIN s = 1 .. Len(s) /\ IsFiniteSet(DOMAIN s) /\ Cardinality(DOMAIN s) = Len(s)
      BY SeqDomain
<1>2. \A i \in DOMAIN s : s[i] \in T BY <1>1, ElementOfSeq
<1>3. ASSUME NEW i \in DOMAIN s, NEW j \in DOMAIN s, s[i] = s[j], i # j PROVE FALSE
  <2>1. s[i] \in {s[i]} /\ s[j] \in {s[i]} /\ s[i] \in T BY <1>2, <1>3
  <2>2. Count(s, {s[i]}) >= 2 BY <1>1, <1>3, <2>1, CountTwo
  <2>3. Count(s, {s[i]}) < 2 /\ Count(s, {s[i]}) \in Nat BY <1>1, <2>1, CountType
  <2> QED BY <2>2, <2>3, SMT
<1>4. s \in [DOMAIN s -> T]
  <2>1. s = [i \in DOMAIN s |-> s[i]] BY SeqDef
  <2> QED BY <1>2, <2>1
<1>5. s \in Injection(DOMAIN s, T) BY <1>3, <1>4 DEF Injection, IsInjective
<1>6. Cardinality(DOMAIN s) <= Cardinality(T) BY <1>5, FS_Injection DEF ExistsInjection
<1> QED BY <1>1, <1>6

USE WorkersAssumption, CallersAssumption, MaxRaisesAssumption
    DEF queues, workers, callers, main, Nothing

-----------------------------------------------------------------------------
(* The stock, and what Owners counts.                                      *)
LEMMA Stock ==
  /\ Cardinality(Workers) \in Nat \ {0}
  /\ PerWorker * Cardinality(Workers) \in Nat
  /\ IsFiniteSet(Comms) /\ 0 \notin Comms /\ Comms \subseteq Nat
  /\ Cardinality(Comms) = PerWorker * Cardinality(Workers)
<1>1. Cardinality(Workers) \in Nat /\ Cardinality(Workers) # 0
      BY FS_CardinalityType, FS_EmptySet
<1>2. PerWorker * Cardinality(Workers) \in Nat BY <1>1, SMT
<1> DEFINE n == PerWorker * Cardinality(Workers)
<1> HIDE DEF n
<1>3. n \in Nat BY <1>2 DEF n
<1>4. /\ IsFiniteSet(1 .. n) /\ 0 \notin 1 .. n /\ 1 .. n \subseteq Nat
      /\ Cardinality(1 .. n) = n
      BY <1>3, FS_Interval, SMT
<1> QED BY <1>1, <1>3, <1>4 DEF Comms, n

LEMMA PlacesCount ==
  ASSUME NEW f, NEW c
  PROVE  Places(f, c) = Count(f, {c}) /\ Held(f, c) = Count(f, {c})
<1>1. {i \in DOMAIN f : f[i] = c} = Where(f, {c}) BY DEF Where
<1> QED BY <1>1 DEF Places, Held, Count

LEMMA OwnersSum ==
  ASSUME NEW c
  PROVE  /\ Owners(c) = Count(r_sendQueue, {c}) + Count(r_receiveQueue, {c})
                          + Count(cur, {c}) + Count(filling, {c}) + One(last, {c})
         /\ Owners(c)' = Count(r_sendQueue', {c}) + Count(r_receiveQueue', {c})
                           + Count(cur', {c}) + Count(filling', {c}) + One(last', {c})
<1>1. One(last, {c}) = IF last = c THEN 1 ELSE 0 BY DEF One
<1>2. One(last', {c}) = IF last' = c THEN 1 ELSE 0 BY DEF One
<1> QED BY <1>1, <1>2, PlacesCount DEF Owners

LEMMA CountsAreNat ==
  ASSUME TypeOK, NEW S
  PROVE  /\ Count(r_sendQueue, S) \in Nat /\ Count(r_receiveQueue, S) \in Nat
         /\ Count(cur, S) \in Nat /\ Count(filling, S) \in Nat /\ One(last, S) \in 0 .. 1
<1>1. IsFiniteSet(DOMAIN r_sendQueue) /\ IsFiniteSet(DOMAIN r_receiveQueue)
      BY SeqDomain DEF TypeOK
<1>2. IsFiniteSet(DOMAIN cur) /\ IsFiniteSet(DOMAIN filling) BY DEF TypeOK
<1>3. One(last, S) \in 0 .. 1 BY SMT DEF One
<1> QED BY <1>1, <1>2, <1>3, CountType

(* One owner, spelled out: who holds a communication holds it alone.       *)
LEMMA Alone ==
  ASSUME TypeOK, OneOwner, NEW c \in Comms
  PROVE  /\ \A k \in Callers : filling[k] = c =>
              /\ c \notin Sent /\ \A w \in Workers : cur[w] # c
              /\ \A j \in Callers : filling[j] = c => j = k
         /\ last = c => c \notin Sent /\ \A w \in Workers : cur[w] # c
         /\ \A w \in Workers : cur[w] = c =>
              c \notin Sent /\ \A v \in Workers : cur[v] = c => v = w
         /\ \A i, j \in DOMAIN r_sendQueue :
              r_sendQueue[i] = c /\ r_sendQueue[j] = c => i = j
<1> DEFINE s == Count(r_sendQueue, {c})
           h == Count(cur, {c})
           f == Count(filling, {c})
           o == One(last, {c})
<1>1. s \in Nat /\ h \in Nat /\ f \in Nat /\ o \in 0 .. 1 /\ Count(r_receiveQueue, {c}) \in Nat
      BY CountsAreNat
<1>2. s + Count(r_receiveQueue, {c}) + h + f + o <= 1 BY OwnersSum DEF OneOwner
<1>3. s + h + f + o <= 1 BY <1>1, <1>2, SMT
<1>4. IsFiniteSet(DOMAIN r_sendQueue) /\ DOMAIN cur = Workers /\ DOMAIN filling = Callers
      BY SeqDomain DEF TypeOK
<1>5. s = 0 <=> c \notin Sent BY <1>4, CountType DEF Sent
<1>6. h = 0 <=> \A w \in Workers : cur[w] # c
  <2>1. h = 0 <=> \A w \in Workers : cur[w] \notin {c} BY <1>4, CountType
  <2> QED BY <2>1
<1>7. f = 0 <=> \A k \in Callers : filling[k] # c
  <2>1. f = 0 <=> \A k \in Callers : filling[k] \notin {c} BY <1>4, CountType
  <2> QED BY <2>1
<1>8. o = 1 <=> last = c BY DEF One
<1>9. \A j, k \in Callers : filling[j] = c /\ filling[k] = c /\ j # k => f >= 2
      BY <1>4, CountTwo
<1>10. \A v, w \in Workers : cur[v] = c /\ cur[w] = c /\ v # w => h >= 2
      BY <1>4, CountTwo
<1>11. \A i, j \in DOMAIN r_sendQueue : r_sendQueue[i] = c /\ r_sendQueue[j] = c /\ i # j => s >= 2
      BY <1>4, CountTwo
<1> HIDE DEF s, h, f, o
<1>12. f # 0 => s = 0 /\ h = 0 /\ f < 2 BY <1>1, <1>3, SMT
<1>13. o = 1 => s = 0 /\ h = 0 BY <1>1, <1>3, SMT
<1>14. h # 0 => s = 0 /\ h < 2 BY <1>1, <1>3, SMT
<1>15. s < 2 BY <1>1, <1>3, SMT
<1>16. ~(f < 2 /\ f >= 2) /\ ~(h < 2 /\ h >= 2) /\ ~(s < 2 /\ s >= 2) BY <1>1, SMT
<1>17. \A k \in Callers : filling[k] = c =>
         /\ c \notin Sent /\ \A w \in Workers : cur[w] # c
         /\ \A j \in Callers : filling[j] = c => j = k
       BY <1>5, <1>6, <1>7, <1>9, <1>12, <1>16
<1>18. \A w \in Workers : cur[w] = c => c \notin Sent /\ \A v \in Workers : cur[v] = c => v = w
       BY <1>5, <1>6, <1>10, <1>14, <1>16
<1> QED BY <1>5, <1>6, <1>8, <1>11, <1>13, <1>15, <1>16, <1>17, <1>18

-----------------------------------------------------------------------------
(* What a step does to the queues.                                         *)
LEMMA Popped ==
  ASSUME NEW q \in Seq(Comms), q # <<>>
  PROVE  /\ Head(q) \in Comms /\ Tail(q) \in Seq(Comms) /\ 1 \in DOMAIN q /\ q[1] = Head(q)
         /\ DOMAIN q = 1 .. Len(q) /\ DOMAIN Tail(q) = 1 .. Len(q) - 1 /\ Len(q) \in Nat
         /\ \A i \in DOMAIN Tail(q) : i + 1 \in DOMAIN q /\ Tail(q)[i] = q[i + 1]
         /\ \A S : Count(Tail(q), S) = Count(q, S) - One(Head(q), S)
<1>1. /\ Head(q) \in Comms /\ Tail(q) \in Seq(Comms) /\ Len(Tail(q)) = Len(q) - 1
      /\ \A i \in 1 .. Len(Tail(q)) : Tail(q)[i] = q[i + 1]
      BY HeadTailProperties
<1>2. DOMAIN q = 1 .. Len(q) /\ Len(q) \in Nat \ {0} BY SeqDomain, EmptySeq
<1>3. DOMAIN Tail(q) = 1 .. Len(q) - 1 BY <1>1, SeqDomain
<1>4. 1 \in DOMAIN q BY <1>2, SMT
<1>5. \A i \in 1 .. Len(q) - 1 : i + 1 \in 1 .. Len(q) BY <1>2, SMT
<1>6. q[1] = Head(q) OBVIOUS
<1>7. \A S : Count(Tail(q), S) = Count(q, S) - One(Head(q), S) BY CountTail
<1> QED BY <1>1, <1>2, <1>3, <1>4, <1>5, <1>6, <1>7

LEMMA Pushed ==
  ASSUME NEW q \in Seq(Comms), NEW c \in Comms
  PROVE  /\ Append(q, c) \in Seq(Comms)
         /\ DOMAIN q = 1 .. Len(q) /\ DOMAIN Append(q, c) = 1 .. Len(q) + 1 /\ Len(q) \in Nat
         /\ \A i \in DOMAIN q : i \in DOMAIN Append(q, c) /\ Append(q, c)[i] = q[i]
         /\ Len(q) + 1 \in DOMAIN Append(q, c) /\ Append(q, c)[Len(q) + 1] = c
         /\ \A S : Count(Append(q, c), S) = Count(q, S) + One(c, S)
<1>1. /\ Append(q, c) \in Seq(Comms) /\ Len(Append(q, c)) = Len(q) + 1
      /\ \A i \in 1 .. Len(q) : Append(q, c)[i] = q[i]
      /\ Append(q, c)[Len(q) + 1] = c
      BY AppendProperties
<1>2. DOMAIN q = 1 .. Len(q) /\ Len(q) \in Nat BY SeqDomain
<1>3. DOMAIN Append(q, c) = 1 .. Len(q) + 1 BY <1>1, SeqDomain
<1>4. Len(q) + 1 \in 1 .. Len(q) + 1 /\ \A i \in 1 .. Len(q) : i \in 1 .. Len(q) + 1
      BY <1>2, SMT
<1>5. \A S : Count(Append(q, c), S) = Count(q, S) + One(c, S) BY CountAppend
<1> QED BY <1>1, <1>2, <1>3, <1>4, <1>5

LEMMA SentPushed ==
  ASSUME TypeOK, NEW c \in Comms, r_sendQueue' = Append(r_sendQueue, c)
  PROVE  Sent' = Sent \cup {c}
<1>1. r_sendQueue \in Seq(Comms) BY DEF TypeOK
<1>2. \A i \in DOMAIN r_sendQueue' : i \in DOMAIN r_sendQueue \/ i = Len(r_sendQueue) + 1
      BY <1>1, Pushed, SMT
<1> QED BY <1>1, <1>2, Pushed DEF Sent

LEMMA SentPopped ==
  ASSUME TypeOK, OneOwner, r_sendQueue # <<>>, r_sendQueue' = Tail(r_sendQueue)
  PROVE  Head(r_sendQueue) \in Sent /\ Sent' = Sent \ {Head(r_sendQueue)}
<1> DEFINE q == r_sendQueue
<1>1. q \in Seq(Comms) BY DEF TypeOK
<1>2. Head(q) \in Sent BY <1>1, Popped DEF Sent
<1>3. ASSUME NEW c \in Sent, c # Head(q) PROVE c \in Sent'
  <2>1. PICK i \in DOMAIN q : c = q[i] BY DEF Sent
  <2>2. i \in 1 .. Len(q) /\ Len(q) \in Nat /\ i # 1 BY <2>1, <1>1, <1>3, Popped
  <2>3. i - 1 \in 1 .. Len(q) - 1 /\ (i - 1) + 1 = i BY <2>2, SMT
  <2>4. i - 1 \in DOMAIN Tail(q) /\ Tail(q)[i - 1] = c BY <2>1, <2>3, <1>1, Popped
  <2> QED BY <2>4 DEF Sent
<1>4. ASSUME NEW c \in Sent' PROVE c \in Sent /\ c # Head(q)
  <2>1. PICK i \in DOMAIN Tail(q) : c = Tail(q)[i] BY DEF Sent
  <2>2. i + 1 \in DOMAIN q /\ c = q[i + 1] /\ i + 1 # 1
    <3>1. i \in 1 .. Len(q) - 1 /\ Len(q) \in Nat BY <1>1, Popped
    <3>2. i + 1 # 1 BY <3>1, SMT
    <3> QED BY <2>1, <3>2, <1>1, Popped
  <2>3. c \in Sent BY <2>2 DEF Sent
  <2>4. c # Head(q)
    <3>1. c \in Comms BY <2>2, <1>1, Popped, ElementOfSeq
    <3> QED BY <2>2, <3>1, <1>1, Popped, Alone
  <2> QED BY <2>3, <2>4
<1> QED BY <1>2, <1>3, <1>4

(* A communication that changes hands keeps the number of its owners.      *)
LEMMA OwnersKept ==
  ASSUME OneOwner, \A c \in Comms : Owners(c)' = Owners(c), Quitters' = Quitters
  PROVE  OneOwner'
<1>1. {c \in Comms : Owners(c) = 0}' = {c \in Comms : Owners(c) = 0} BY DEF Comms
<1>2. \A c \in Comms : Owners(c)' <= 1 BY DEF OneOwner
<1> QED BY <1>1, <1>2 DEF OneOwner, Comms

(* Nobody changes hands.                                                   *)
LEMMA OwnersSame ==
  ASSUME UNCHANGED <<r_sendQueue, r_receiveQueue, cur, filling, last>>
  PROVE  \A c : Owners(c)' = Owners(c)
  BY OwnersSum

(* The exchange of one holder's communication.                             *)
LEMMA HoldersMove ==
  ASSUME TypeOK, NEW v, NEW S
  PROVE  /\ \A w \in Workers : cur' = [cur EXCEPT ![w] = v] =>
              Count(cur', S) = Count(cur, S) - One(cur[w], S) + One(v, S)
         /\ \A k \in Callers : filling' = [filling EXCEPT ![k] = v] =>
              Count(filling', S) = Count(filling, S) - One(filling[k], S) + One(v, S)
<1>1. ASSUME NEW w \in Workers, cur' = [cur EXCEPT ![w] = v]
      PROVE  Count(cur', S) = Count(cur, S) - One(cur[w], S) + One(v, S)
  <2>1. cur \in [Workers -> Comms \cup {Nothing}] BY DEF TypeOK
  <2>2. /\ DOMAIN cur = Workers /\ DOMAIN cur' = Workers /\ cur'[w] = v
        /\ \A u \in Workers \ {w} : cur'[u] = cur[u]
        BY <2>1, <1>1
  <2>3. Count(cur', S) = Count(cur, S) - One(cur[w], S) + One(cur'[w], S) BY <2>2, CountExcept
  <2> QED BY <2>2, <2>3
<1>2. ASSUME NEW k \in Callers, filling' = [filling EXCEPT ![k] = v]
      PROVE  Count(filling', S) = Count(filling, S) - One(filling[k], S) + One(v, S)
  <2>1. filling \in [Callers -> Comms \cup {Nothing}] BY DEF TypeOK
  <2>2. /\ DOMAIN filling = Callers /\ DOMAIN filling' = Callers /\ filling'[k] = v
        /\ \A j \in Callers \ {k} : filling'[j] = filling[j]
        BY <2>1, <1>2
  <2>3. Count(filling', S) = Count(filling, S) - One(filling[k], S) + One(filling'[k], S)
        BY <2>2, CountExcept
  <2> QED BY <2>2, <2>3
<1> QED BY <1>1, <1>2

LEMMA OwnersType ==
  ASSUME TypeOK, NEW c
  PROVE  Owners(c) \in Nat
<1> DEFINE s == Count(r_sendQueue, {c})
           r == Count(r_receiveQueue, {c})
           h == Count(cur, {c})
           f == Count(filling, {c})
           o == One(last, {c})
<1>1. s \in Nat /\ r \in Nat /\ h \in Nat /\ f \in Nat /\ o \in 0 .. 1 BY CountsAreNat
<1>2. Owners(c) = s + r + h + f + o BY OwnersSum
<1> HIDE DEF s, r, h, f, o
<1> QED BY <1>1, <1>2, SMT

(* mpInit: every communication is in the receive queue, once.              *)
LEMMA Stocked ==
  ASSUME NEW c \in Comms
  PROVE  Count(<<>>, {c}) + Count([d \in Comms |-> d], {c})
           + Count([w \in Workers |-> Nothing], {c})
           + Count([k \in Callers |-> Nothing], {c}) + One(Nothing, {c}) = 1
<1>1. c # 0 BY Stock
<1>2. Where([d \in Comms |-> d], {c}) = {c} BY DEF Where
<1>3. Count([d \in Comms |-> d], {c}) = 1 BY <1>2, FS_Singleton DEF Count
<1>4. /\ Where([w \in Workers |-> Nothing], {c}) = {}
      /\ Where([k \in Callers |-> Nothing], {c}) = {}
      BY <1>1 DEF Where
<1>5. /\ Count([w \in Workers |-> Nothing], {c}) = 0
      /\ Count([k \in Callers |-> Nothing], {c}) = 0
      BY <1>4, FS_EmptySet DEF Count
<1>6. One(Nothing, {c}) = 0 BY <1>1 DEF One
<1>7. Count(<<>>, {c}) = 0 BY CountEmpty
<1> QED BY <1>3, <1>5, <1>6, <1>7, SMT

LEMMA AllOwned ==
  ASSUME \A c \in Comms : Owners(c) = 1, Quitters = {}
  PROVE  OneOwner
<1>1. {c \in Comms : Owners(c) = 0} = {} BY SMT
<1>2. \A c \in Comms : Owners(c) <= 1 BY SMT
<1> QED BY <1>1, <1>2 DEF OneOwner

LEMMA InitHolds == Init => IInv
<1> SUFFICES ASSUME Init PROVE IInv OBVIOUS
<1> USE DEF Init
<1>0. /\ r_receiveQueue \in Seq(Comms) /\ OneOwner /\ Quitters = {} /\ Raisers = {}
  <2>1. r_receiveQueue \in Seq(Comms) BY Stock DEF Comms
  <2>2. Quitters = {} /\ Raisers = {} BY DEF Quitters, Raisers
  <2>3. \A c \in Comms : Owners(c) = 1 BY Stocked, OwnersSum
  <2> QED BY <2>1, <2>2, <2>3, AllOwned
<1>1. TypeOK
  <2>1. 0 \in 0 .. Cardinality(Workers) BY Stock, SMT
  <2>2. <<>> \in Seq(Comms) BY EmptySeq
  <2> QED BY <1>0, <2>1, <2>2 DEF TypeOK
<1>2. Holding BY DEF Holding
<1>3. Sent = {} /\ Running = {} /\ Pending = {} BY DEF Sent, Running, Pending
<1>4. Carried BY <1>3 DEF Carried, Returned
<1>5. QuitsLast BY <1>0, <1>3 DEF QuitsLast, QuitsBehind
<1>6. RaisersCounted BY <1>0, FS_EmptySet, SMT DEF RaisersCounted
<1> QED BY <1>0, <1>1, <1>2, <1>4, <1>5, <1>6 DEF IInv

LEMMA InitAgainKeeps ==
  ASSUME IInv, InitAgain
  PROVE  IInv'
<1> USE DEF InitAgain
<1>1. filling = [k \in Callers |-> Nothing] /\ todo = [k \in Callers |-> {}]
      BY DEF IInv, TypeOK, Holding
<1>0. /\ r_receiveQueue' \in Seq(Comms) /\ OneOwner' /\ Quitters' = {} /\ Raisers' = {}
  <2>1. r_receiveQueue' \in Seq(Comms) BY Stock DEF Comms
  <2>2. Quitters' = {} /\ Raisers' = {} BY DEF Quitters, Raisers
  <2>3. \A c \in Comms : Owners(c)' = 1 BY <1>1, Stocked, OwnersSum
  <2>4. {c \in Comms : Owners(c) = 0}' = {} BY <2>3, SMT DEF Comms
  <2>5. \A c \in Comms : Owners(c)' <= 1 BY <2>3, SMT
  <2>6. OneOwner' BY <2>2, <2>4, <2>5 DEF OneOwner, Comms
  <2> QED BY <2>1, <2>2, <2>6
<1>2. TypeOK'
  <2>1. 0 \in 0 .. Cardinality(Workers) BY Stock, SMT
  <2>2. <<>> \in Seq(Comms) BY EmptySeq
  <2> QED BY <1>0, <1>1, <2>1, <2>2 DEF TypeOK, Comms
<1>3. Holding' BY <1>1 DEF Holding
<1>4. Sent' = {} /\ Running' = {} /\ Pending' = {} BY DEF Sent, Running, Pending
<1>5. Carried' BY <1>1, <1>4 DEF Carried, Returned
<1>6. QuitsLast' BY <1>0, <1>4 DEF QuitsLast, QuitsBehind
<1>7. RaisersCounted' BY <1>0, FS_EmptySet, SMT DEF RaisersCounted
<1> QED BY <1>0, <1>2, <1>3, <1>5, <1>6, <1>7 DEF IInv

-----------------------------------------------------------------------------
(* The callers.                                                            *)

LEMMA CallKeeps ==
  ASSUME IInv, NEW k \in Callers, NEW S \in SUBSET Tasks, Call(k, S)
  PROVE  IInv'
<1> USE DEF Call, IInv
<1>0. /\ Sent' = Sent /\ Running' = Running /\ Pending' = Pending
      /\ Quitters' = Quitters /\ Raisers' = Raisers /\ Returned' = Returned
      BY DEF Sent, Running, Pending, Quitters, Raisers, Returned
<1>1. TypeOK' BY DEF TypeOK, Comms
<1>2. OneOwner' BY <1>0, OwnersSame, OwnersKept
<1>3. Holding' BY DEF TypeOK, Holding
<1>4. Carried'
  <2>1. \A j \in Callers : todo'[j] = IF j = k THEN S ELSE todo[j] BY DEF TypeOK
  <2>2. S \cap launched = {} /\ \A j \in Callers : S \cap todo[j] = {} OBVIOUS
  <2>3. \A i, j \in Callers : i # j => todo'[i] \cap todo'[j] = {} BY <2>1, <2>2 DEF Carried
  <2>4. \A j \in Callers : todo'[j] \cap launched = {} BY <2>1, <2>2 DEF Carried
  <2> QED BY <1>0, <2>3, <2>4 DEF Carried
<1>5. QuitsLast' BY <1>0 DEF QuitsLast, QuitsBehind
<1>6. RaisersCounted' BY <1>0 DEF RaisersCounted
<1> QED BY <1>1, <1>2, <1>3, <1>4, <1>5, <1>6

LEMMA PopFreeKeeps ==
  ASSUME IInv, NEW k \in Callers, PopFree(k)
  PROVE  IInv'
<1> USE DEF PopFree, IInv
<1>0. /\ Sent' = Sent /\ Running' = Running /\ Pending' = Pending
      /\ Quitters' = Quitters /\ Raisers' = Raisers /\ Returned' = Returned
      BY DEF Sent, Running, Pending, Quitters, Raisers, Returned
<1>1. /\ r_receiveQueue \in Seq(Comms) /\ filling \in [Callers -> Comms \cup {Nothing}]
      BY DEF TypeOK
<1>2. Head(r_receiveQueue) \in Comms /\ Tail(r_receiveQueue) \in Seq(Comms) BY <1>1, Popped
<1>3. TypeOK' BY <1>1, <1>2 DEF TypeOK, Comms
<1>4. OneOwner'
  <2>1. ASSUME NEW c \in Comms PROVE Owners(c)' = Owners(c)
    <3>1. Count(filling', {c}) = Count(filling, {c}) - One(Nothing, {c})
                                    + One(Head(r_receiveQueue), {c})
      <4>1. filling' = [filling EXCEPT ![k] = Head(r_receiveQueue)] /\ filling[k] = Nothing OBVIOUS
      <4>2. Count(filling', {c}) = Count(filling, {c}) - One(filling[k], {c})
                                      + One(Head(r_receiveQueue), {c})
            BY <4>1, HoldersMove
      <4> QED BY <4>1, <4>2
    <3>2. Count(r_receiveQueue', {c}) = Count(r_receiveQueue, {c}) - One(Head(r_receiveQueue), {c})
          BY <1>1, Popped
    <3>3. One(Nothing, {c}) = 0 BY Stock DEF One
    <3>4. One(Head(r_receiveQueue), {c}) \in 0 .. 1 BY SMT DEF One
    <3>5. UNCHANGED <<r_sendQueue, cur, last>> OBVIOUS
    <3> HIDE DEF PopFree, IInv
    <3> QED BY <3>1, <3>2, <3>3, <3>4, <3>5, OwnersSum, CountsAreNat, SMT DEF IInv
  <2> QED BY <1>0, <2>1, OwnersKept
<1>5. Holding' BY <1>1 DEF Holding
<1>6. Carried' BY <1>0 DEF Carried
<1>7. QuitsLast' BY <1>0 DEF QuitsLast, QuitsBehind
<1>8. RaisersCounted' BY <1>0 DEF RaisersCounted
<1> QED BY <1>3, <1>4, <1>5, <1>6, <1>7, <1>8

(* The task leaves its caller's list and is carried by the communication.  *)
LEMMA PushActionKeeps ==
  ASSUME IInv, NEW k \in Callers, NEW t \in Tasks, PushAction(k, t)
  PROVE  IInv'
<1> USE DEF PushAction, IInv
<1> DEFINE f == filling[k]
<1>0. /\ f \in Comms /\ r_sendQueue \in Seq(Comms)
      /\ filling \in [Callers -> Comms \cup {Nothing}] /\ todo \in [Callers -> SUBSET Tasks]
      /\ says \in [Comms -> Tasks \cup {Quit}]
      BY DEF TypeOK
<1>1. /\ Running' = Running /\ Quitters' = Quitters /\ Raisers' = Raisers
      /\ Returned' = Returned /\ world = "up" /\ Quit # t
      BY DEF Running, Quitters, Raisers, Returned, Holding
<1>2. Sent' = Sent \cup {f} BY <1>0, SentPushed
<1>3. f \notin Sent /\ f \notin Running BY <1>0, Alone DEF Running
<1>4. /\ says' \in [Comms -> Tasks \cup {Quit}] /\ says'[f] = t
      /\ \A c \in Comms \ {f} : says'[c] = says[c]
      BY <1>0
<1>5. Sent \subseteq Comms /\ Running \subseteq Comms
  <2>1. Sent \subseteq Comms BY <1>0, ElementOfSeq, LenProperties DEF Sent
  <2>2. Running \subseteq Comms BY DEF Running, TypeOK, Holding
  <2> QED BY <2>1, <2>2
<1>6. Pending' = Pending \cup {f} BY <1>1, <1>2, <1>3, <1>4, <1>5 DEF Pending
<1>7. TypeOK' BY <1>0, <1>4, Pushed DEF TypeOK, Comms
<1>8. OneOwner'
  <2>1. ASSUME NEW c \in Comms PROVE Owners(c)' = Owners(c)
    <3>1. Count(filling', {c}) = Count(filling, {c}) - One(f, {c}) + One(Nothing, {c})
      <4>1. filling' = [filling EXCEPT ![k] = Nothing] OBVIOUS
      <4> QED BY <4>1, HoldersMove
    <3>2. Count(r_sendQueue', {c}) = Count(r_sendQueue, {c}) + One(f, {c})
          BY <1>0, Pushed
    <3>3. One(Nothing, {c}) = 0 BY Stock DEF One
    <3>4. One(f, {c}) \in 0 .. 1 BY SMT DEF One
    <3>5. UNCHANGED <<r_receiveQueue, cur, last>> OBVIOUS
    <3> HIDE DEF PushAction, IInv, f
    <3> QED BY <3>1, <3>2, <3>3, <3>4, <3>5, OwnersSum, CountsAreNat, SMT DEF IInv
  <2> QED BY <1>1, <2>1, OwnersKept
<1>9. Holding' BY <1>0, <1>1 DEF Holding
<1>10. Carried'
  <2>1. t \in todo[k] /\ t \notin launched BY DEF Carried
  <2>2. \A j \in Callers : todo'[j] = IF j = k THEN todo[k] \ {t} ELSE todo[j] BY <1>0
  <2>3. \A j \in Callers : j # k => t \notin todo[j] BY <2>1 DEF Carried
  <2>4. launched' = launched \cup {t} OBVIOUS
  <2>5. \A j \in Callers : todo'[j] \cap launched' = {} BY <2>2, <2>3, <2>4 DEF Carried
  <2>6. \A i, j \in Callers : i # j => todo'[i] \cap todo'[j] = {} BY <2>2 DEF Carried
  <2>7. \A c \in Pending : c # f /\ says'[c] = says[c] /\ says[c] # t
        BY <1>3, <1>4, <1>5, <2>1 DEF Pending, Carried
  <2>8. Returned' \subseteq launched' /\ t \notin Returned BY <1>1, <2>1, <2>4 DEF Carried
  <2>9. \A c \in Pending' : says'[c] \in launched' \ Returned'
        BY <1>1, <1>4, <1>6, <2>4, <2>7, <2>8 DEF Carried
  <2>10. \A u \in launched' \ Returned' : \E c \in Pending' : says'[c] = u
         BY <1>1, <1>4, <1>6, <2>4, <2>7 DEF Carried
  <2>11. \A c, d \in Pending' : says'[c] = says'[d] => c = d
         BY <1>4, <1>6, <2>7 DEF Carried
  <2> QED BY <2>5, <2>6, <2>8, <2>9, <2>10, <2>11 DEF Carried
<1>11. QuitsLast'
  <2>1. \A c \in Sent' : says'[c] # Quit BY <1>1, <1>2, <1>4, <1>5, <1>3 DEF QuitsLast
  <2> QED BY <1>1, <2>1 DEF QuitsLast, QuitsBehind, Sent
<1>12. RaisersCounted' BY <1>1 DEF RaisersCounted
<1> QED BY <1>7, <1>8, <1>9, <1>10, <1>11, <1>12

-----------------------------------------------------------------------------
(* The workers.                                                            *)

(* The communication goes from the send queue to the worker, or to nobody. *)
LEMMA ReceiveKeeps ==
  ASSUME IInv, NEW w \in Workers, Receive(w)
  PROVE  IInv'
<1> USE DEF Receive, IInv
<1> DEFINE c == Head(r_sendQueue)
<1>0. /\ r_sendQueue \in Seq(Comms) /\ pc \in [Workers -> {"pop", "run", "push", "ended"}]
      /\ cur \in [Workers -> Comms \cup {Nothing}] /\ cur[w] = Nothing
      /\ says \in [Comms -> Tasks \cup {Quit}]
      BY DEF TypeOK, Holding
<1>1. c \in Comms /\ c # 0 /\ r_sendQueue' \in Seq(Comms) BY <1>0, Popped, Stock
<1>2. c \in Sent /\ Sent' = Sent \ {c} BY SentPopped
<1>3. Returned' = Returned BY DEF Returned
<1>4. \A d \in Comms : One(c, {d}) \in 0 .. 1 /\ One(Nothing, {d}) = 0
                       /\ Count(r_sendQueue', {d}) = Count(r_sendQueue, {d}) - One(c, {d})
  <2>1. \A d \in Comms : One(c, {d}) \in 0 .. 1 BY SMT DEF One
  <2>2. \A d \in Comms : One(Nothing, {d}) = 0 BY Stock DEF One
  <2>3. \A d \in Comms : Count(r_sendQueue', {d}) = Count(r_sendQueue, {d}) - One(c, {d})
        BY <1>0, Popped
  <2> QED BY <2>1, <2>2, <2>3
<1>5. QuitsBehind'
  <2> SUFFICES ASSUME NEW i \in DOMAIN r_sendQueue', NEW j \in DOMAIN r_sendQueue', i < j,
                      says[r_sendQueue'[i]] = Quit
               PROVE  says[r_sendQueue'[j]] = Quit
      BY DEF QuitsBehind
  <2>1. /\ i + 1 \in DOMAIN r_sendQueue /\ r_sendQueue'[i] = r_sendQueue[i + 1]
        /\ j + 1 \in DOMAIN r_sendQueue /\ r_sendQueue'[j] = r_sendQueue[j + 1]
        BY <1>0, Popped
  <2>2. i + 1 < j + 1
    <3>1. /\ i \in 1 .. Len(r_sendQueue) - 1 /\ j \in 1 .. Len(r_sendQueue) - 1
          /\ Len(r_sendQueue) \in Nat
          BY <1>0, Popped
    <3>2. i < j OBVIOUS
    <3> HIDE DEF IInv, Receive
    <3> QED BY <3>1, <3>2, SMT
  <2> QED BY <2>1, <2>2 DEF QuitsLast, QuitsBehind
<1>6. CASE says[c] = Quit
  <2>1. /\ pc' = [pc EXCEPT ![w] = "ended"] /\ UNCHANGED cur
        /\ UNCHANGED <<r_receiveQueue, says, callers, main, ran, raised>>
        BY <1>6
  <2>2. /\ Running' = Running /\ Raisers' = Raisers
        /\ Quitters' = Quitters \cup {w} /\ w \notin Quitters
        BY <1>0, <2>1 DEF Running, Raisers, Quitters
  <2>3. Pending' = Pending BY <1>2, <1>6, <2>1, <2>2 DEF Pending
  <2>4. TypeOK' BY <1>0, <1>1, <2>1 DEF TypeOK, Comms
  <2>5. OneOwner'
    <3>1. \A d \in Comms : Owners(d)' = Owners(d) - One(c, {d})
      <4> SUFFICES ASSUME NEW d \in Comms PROVE Owners(d)' = Owners(d) - One(c, {d}) OBVIOUS
      <4>1. UNCHANGED <<r_receiveQueue, cur, filling, last>> BY <2>1
      <4> HIDE DEF IInv, Receive, c
      <4> QED BY <1>4, <4>1, OwnersSum, CountsAreNat, SMT DEF IInv
    <3>2. \A d \in Comms : One(c, {d}) = IF d = c THEN 1 ELSE 0 BY DEF One
    <3>3. Count(r_sendQueue, {c}) # 0
      <4>1. IsFiniteSet(DOMAIN r_sendQueue) /\ 1 \in DOMAIN r_sendQueue /\ r_sendQueue[1] = c
            BY <1>0, Popped, SeqDomain
      <4> QED BY <4>1, CountType
    <3>4. Owners(c) = 1
      <4>1. Owners(c) <= 1 BY <1>1 DEF OneOwner
      <4> HIDE DEF IInv, Receive, c
      <4> QED BY <3>3, <4>1, OwnersSum, CountsAreNat, SMT DEF IInv
    <3> DEFINE U == {d \in Comms : Owners(d) = 0}
               V == {d \in Comms : Owners(d)' = 0}
    <3>5. \A d \in Comms : Owners(d)' = IF d = c THEN 0 ELSE Owners(d)
      <4>1. \A d \in Comms : Owners(d) \in Nat BY OwnersType
      <4>2. ASSUME NEW d \in Comms PROVE Owners(d)' = IF d = c THEN 0 ELSE Owners(d)
        <5>1. CASE d = c
          <6>1. Owners(d)' = Owners(d) - One(c, {d}) /\ One(c, {d}) = 1 BY <5>1, <3>1, <3>2
          <6>2. Owners(d) = 1 BY <5>1, <3>4
          <6> HIDE DEF IInv, Receive, c
          <6> QED BY <5>1, <6>1, <6>2, SMT
        <5>2. CASE d # c
          <6>1. Owners(d)' = Owners(d) - 0 /\ Owners(d) \in Nat BY <5>2, <3>1, <3>2, <4>1
          <6> HIDE DEF IInv, Receive, c
          <6> QED BY <5>2, <6>1, SMT
        <5> QED BY <5>1, <5>2
      <4> QED BY <4>2
    <3>6. V = U \cup {c} /\ c \notin U BY <1>1, <3>4, <3>5
    <3>7. IsFiniteSet(U) BY Stock, FS_Subset
    <3>8. Cardinality(V) = Cardinality(U) + 1 BY <3>6, <3>7, FS_AddElement
    <3>9. IsFiniteSet(Quitters) BY FS_Subset DEF Quitters
    <3>10. Cardinality(Quitters') = Cardinality(Quitters) + 1 BY <2>2, <3>9, FS_AddElement
    <3>11. Cardinality(U) = Cardinality(Quitters) BY DEF OneOwner
    <3>12. Cardinality(V) = Cardinality(Quitters') BY <3>8, <3>10, <3>11
    <3>13. \A d \in Comms : Owners(d)' <= 1
      <4>1. \A d \in Comms : Owners(d) <= 1 BY DEF OneOwner
      <4> QED BY <3>5, <4>1, SMT
    <3>14. Comms' = Comms BY DEF Comms
    <3> QED BY <3>12, <3>13, <3>14 DEF OneOwner
  <2>6. Holding' BY <1>0, <2>1 DEF Holding
  <2>7. Carried' BY <1>3, <2>1, <2>3 DEF Carried
  <2>8. QuitsLast'
    <3>1. world # "up" BY <1>2, <1>6 DEF QuitsLast
    <3>2. \A d \in Sent : says[d] = Quit
      <4> SUFFICES ASSUME NEW d \in Sent PROVE says[d] = Quit OBVIOUS
      <4>1. PICK i \in DOMAIN r_sendQueue : d = r_sendQueue[i] BY DEF Sent
      <4>2. 1 \in DOMAIN r_sendQueue /\ r_sendQueue[1] = c
            /\ i \in 1 .. Len(r_sendQueue) /\ Len(r_sendQueue) \in Nat
            BY <1>0, <4>1, Popped
      <4>3. i = 1 \/ 1 < i BY <4>2, SMT
      <4> QED BY <1>6, <4>1, <4>2, <4>3 DEF QuitsLast, QuitsBehind
    <3>3. world = "down" => \A v \in Workers : pc'[v] = "ended" BY <1>0, <2>1 DEF QuitsLast
    <3>4. UNCHANGED <<world, says>> BY <2>1
    <3> QED BY <1>2, <1>5, <3>1, <3>2, <3>3, <3>4 DEF QuitsLast
  <2>9. RaisersCounted' BY <2>1, <2>2 DEF RaisersCounted
  <2> QED BY <2>4, <2>5, <2>6, <2>7, <2>8, <2>9
<1>7. CASE says[c] # Quit
  <2>1. /\ pc' = [pc EXCEPT ![w] = "run"] /\ cur' = [cur EXCEPT ![w] = c]
        /\ UNCHANGED <<r_receiveQueue, says, callers, main, ran, raised>>
        BY <1>7
  <2>2. /\ Running' = Running \cup {c} /\ Raisers' = Raisers /\ Quitters' = Quitters
        BY <1>0, <1>1, <2>1 DEF Running, Raisers, Quitters
  <2>3. Pending' = Pending BY <1>2, <1>7, <2>1, <2>2 DEF Pending
  <2>4. TypeOK' BY <1>0, <1>1, <2>1 DEF TypeOK, Comms
  <2>5. OneOwner'
    <3>1. ASSUME NEW d \in Comms PROVE Owners(d)' = Owners(d)
      <4>1. Count(cur', {d}) = Count(cur, {d}) - One(Nothing, {d}) + One(c, {d})
        <5>1. cur' = [cur EXCEPT ![w] = c] /\ cur[w] = Nothing BY <1>0, <2>1
        <5>2. Count(cur', {d}) = Count(cur, {d}) - One(cur[w], {d}) + One(c, {d})
              BY <5>1, HoldersMove
        <5> QED BY <5>1, <5>2
      <4>2. UNCHANGED <<r_receiveQueue, filling, last>> BY <2>1
      <4> HIDE DEF IInv, Receive, c
      <4> QED BY <1>4, <4>1, <4>2, OwnersSum, CountsAreNat, SMT DEF IInv
    <3> QED BY <2>2, <3>1, OwnersKept
  <2>6. Holding' BY <1>0, <1>1, <2>1 DEF Holding
  <2>7. Carried' BY <1>3, <2>1, <2>3 DEF Carried
  <2>8. QuitsLast'
    <3>1. \A v \in Workers : v # w => pc'[v] = pc[v] BY <1>0, <2>1
    <3>2. pc[w] # "ended" OBVIOUS
    <3>3. UNCHANGED <<world, says>> BY <2>1
    <3> QED BY <1>2, <1>5, <2>2, <3>1, <3>2, <3>3 DEF QuitsLast
  <2>9. RaisersCounted' BY <2>1, <2>2 DEF RaisersCounted
  <2> QED BY <2>4, <2>5, <2>6, <2>7, <2>8, <2>9
<1> QED BY <1>6, <1>7

(* What a worker holds is a task under way, which nobody else carries.     *)
LEMMA InHand ==
  ASSUME IInv, NEW w \in Workers, pc[w] = "run"
  PROVE  /\ cur[w] \in Comms /\ cur[w] # 0 /\ cur[w] \in Pending /\ cur[w] \notin Sent
         /\ says[cur[w]] \in (launched \ Returned) \cap Tasks
         /\ \A v \in Workers : cur[v] = cur[w] => v = w
<1> USE DEF IInv
<1>1. cur[w] \in Comms /\ cur[w] # 0 BY DEF TypeOK, Holding
<1>2. cur[w] \in Running BY DEF Running
<1>3. cur[w] \in Pending BY <1>2 DEF Pending
<1>4. says[cur[w]] \in launched \ Returned BY <1>3 DEF Carried
<1>5. launched \subseteq Tasks BY DEF TypeOK
<1> QED BY <1>1, <1>3, <1>4, <1>5, Alone

(* Its task returned, or raised: it is not under way any more.             *)
LEMMA TaskLeaves ==
  ASSUME IInv, NEW w \in Workers, pc[w] = "run", NEW p, p # "run",
         pc' = [pc EXCEPT ![w] = p], UNCHANGED <<queues, says, cur, callers>>,
         Returned' = Returned \cup {says[cur[w]]}
  PROVE  Carried'
<1> USE DEF IInv
<1> DEFINE c == cur[w]
<1>0. pc \in [Workers -> {"pop", "run", "push", "ended"}] BY DEF TypeOK
<1>1. Running' = Running \ {c} BY <1>0, InHand DEF Running
<1>2. Sent' = Sent BY DEF Sent
<1>3. Pending' = Pending \ {c} BY <1>1, <1>2, InHand DEF Pending
<1>4. c \in Pending /\ says[c] \in launched \ Returned BY InHand
<1>5. \A d \in Pending' : d \in Pending /\ says[d] # says[c] BY <1>3, <1>4 DEF Carried
<1>6. Returned' \subseteq launched' BY <1>4 DEF Carried
<1>7. \A d \in Pending' : says'[d] \in launched' \ Returned' BY <1>5 DEF Carried
<1>8. \A t \in launched' \ Returned' : \E d \in Pending' : says'[d] = t
      BY <1>3 DEF Carried
<1>9. \A d, e \in Pending' : says'[d] = says'[e] => d = e BY <1>5 DEF Carried
<1>10. UNCHANGED <<todo, launched>> OBVIOUS
<1> QED BY <1>6, <1>7, <1>8, <1>9, <1>10 DEF Carried

LEMMA RunKeeps ==
  ASSUME IInv, NEW w \in Workers, Run(w)
  PROVE  IInv'
<1> USE DEF Run, IInv
<1>0. pc \in [Workers -> {"pop", "run", "push", "ended"}] BY DEF TypeOK
<1>1. /\ Sent' = Sent /\ Quitters' = Quitters /\ Raisers' = Raisers
      /\ Returned' = Returned \cup {says[cur[w]]}
      BY <1>0 DEF Sent, Quitters, Raisers, Returned
<1>2. TypeOK' BY <1>0, InHand DEF TypeOK, Comms
<1>3. OneOwner' BY <1>1, OwnersSame, OwnersKept
<1>4. Holding' BY <1>0 DEF Holding
<1>5. Carried' BY <1>1, TaskLeaves
<1>6. QuitsLast' BY <1>0, <1>1 DEF QuitsLast, QuitsBehind
<1>7. RaisersCounted' BY <1>1 DEF RaisersCounted
<1> QED BY <1>2, <1>3, <1>4, <1>5, <1>6, <1>7

LEMMA RunRaisesKeeps ==
  ASSUME IInv, NEW w \in Workers, RunRaises(w)
  PROVE  IInv'
<1> USE DEF RunRaises, IInv
<1> DEFINE t == says[cur[w]]
<1>0. pc \in [Workers -> {"pop", "run", "push", "ended"}] BY DEF TypeOK
<1>1. /\ Sent' = Sent /\ Quitters' = Quitters /\ Raisers' = Raisers \cup {w}
      /\ w \notin Raisers /\ Returned' = Returned \cup {t} /\ t \notin raised
      BY <1>0, InHand DEF Sent, Quitters, Raisers, Returned
<1>2. TypeOK' BY <1>0, InHand DEF TypeOK, Comms
<1>3. OneOwner' BY <1>1, OwnersSame, OwnersKept
<1>4. Holding' BY <1>0 DEF Holding
<1>5. Carried' BY <1>1, TaskLeaves
<1>6. QuitsLast' BY <1>0, <1>1 DEF QuitsLast, QuitsBehind
<1>7. RaisersCounted'
  <2>1. IsFiniteSet(raised) /\ Cardinality(raised) < MaxRaises BY DEF RaisersCounted
  <2>2. /\ IsFiniteSet(raised \cup {t}) /\ Cardinality(raised) \in Nat
        /\ Cardinality(raised \cup {t}) = Cardinality(raised) + 1
        BY <1>1, <2>1, FS_AddElement, FS_CardinalityType
  <2>3. IsFiniteSet(Raisers) BY FS_Subset DEF Raisers
  <2>4. Cardinality(Raisers \cup {w}) = Cardinality(Raisers) + 1 BY <1>1, <2>3, FS_AddElement
  <2>5. Cardinality(raised) + 1 <= MaxRaises BY <2>1, <2>2, SMT
  <2>6. Cardinality(Raisers) = Cardinality(raised) BY DEF RaisersCounted
  <2> QED BY <1>1, <2>2, <2>4, <2>5, <2>6 DEF RaisersCounted
<1> QED BY <1>2, <1>3, <1>4, <1>5, <1>6, <1>7

LEMMA PutBackKeeps ==
  ASSUME IInv, NEW w \in Workers, PutBack(w)
  PROVE  IInv'
<1> USE DEF PutBack, IInv
<1> DEFINE c == cur[w]
<1>0. /\ pc \in [Workers -> {"pop", "run", "push", "ended"}] /\ r_receiveQueue \in Seq(Comms)
      /\ cur \in [Workers -> Comms \cup {Nothing}] /\ c \in Comms
      BY DEF TypeOK, Holding
<1>1. /\ Sent' = Sent /\ Running' = Running /\ Pending' = Pending
      /\ Quitters' = Quitters /\ Raisers' = Raisers /\ Returned' = Returned
  <2>1. \A v \in Workers : v # w => pc'[v] = pc[v] /\ cur'[v] = cur[v] BY <1>0
  <2>2. pc[w] = "push" /\ pc'[w] = "pop" BY <1>0
  <2>3. Running' = Running BY <2>1, <2>2 DEF Running
  <2>4. Quitters' = Quitters /\ Raisers' = Raisers BY <2>1, <2>2 DEF Quitters, Raisers
  <2>5. Sent' = Sent /\ Returned' = Returned BY DEF Sent, Returned
  <2> QED BY <2>3, <2>4, <2>5 DEF Pending
<1>2. TypeOK' BY <1>0, Pushed DEF TypeOK, Comms
<1>3. OneOwner'
  <2>1. ASSUME NEW d \in Comms PROVE Owners(d)' = Owners(d)
    <3>1. Count(cur', {d}) = Count(cur, {d}) - One(c, {d}) + One(Nothing, {d})
      <4>1. cur' = [cur EXCEPT ![w] = Nothing] OBVIOUS
      <4> QED BY <4>1, HoldersMove
    <3>2. Count(r_receiveQueue', {d}) = Count(r_receiveQueue, {d}) + One(c, {d})
          BY <1>0, Pushed
    <3>3. One(Nothing, {d}) = 0 BY Stock DEF One
    <3>4. One(c, {d}) \in 0 .. 1 BY SMT DEF One
    <3>5. UNCHANGED <<r_sendQueue, filling, last>> OBVIOUS
    <3> HIDE DEF PutBack, IInv, c
    <3> QED BY <3>1, <3>2, <3>3, <3>4, <3>5, OwnersSum, CountsAreNat, SMT DEF IInv
  <2> QED BY <1>1, <2>1, OwnersKept
<1>4. Holding' BY <1>0 DEF Holding
<1>5. Carried' BY <1>1 DEF Carried
<1>6. QuitsLast'
  <2>1. world # "down" BY DEF QuitsLast
  <2> QED BY <1>1, <2>1 DEF QuitsLast, QuitsBehind
<1>7. RaisersCounted' BY <1>1 DEF RaisersCounted
<1> QED BY <1>2, <1>3, <1>4, <1>5, <1>6, <1>7

-----------------------------------------------------------------------------
(* mpTerminate.                                                            *)

LEMMA StartTerminateKeeps ==
  ASSUME IInv, StartTerminate
  PROVE  IInv'
<1> USE DEF StartTerminate, IInv
<1>1. /\ Sent' = Sent /\ Running' = Running /\ Pending' = Pending
      /\ Quitters' = Quitters /\ Raisers' = Raisers /\ Returned' = Returned
      BY DEF Sent, Running, Pending, Quitters, Raisers, Returned
<1>2. TypeOK' BY DEF TypeOK, Comms
<1>3. OneOwner' BY <1>1, OwnersSame, OwnersKept
<1>4. Holding' BY DEF Holding
<1>5. Carried' BY <1>1 DEF Carried
<1>6. QuitsLast' BY <1>1 DEF QuitsLast, QuitsBehind
<1>7. RaisersCounted' BY <1>1 DEF RaisersCounted
<1> QED BY <1>2, <1>3, <1>4, <1>5, <1>6, <1>7

LEMMA PopToQuitKeeps ==
  ASSUME IInv, PopToQuit
  PROVE  IInv'
<1> USE DEF PopToQuit, IInv
<1> DEFINE c == Head(r_receiveQueue)
<1>0. r_receiveQueue \in Seq(Comms) BY DEF TypeOK
<1>1. /\ Sent' = Sent /\ Running' = Running /\ Pending' = Pending
      /\ Quitters' = Quitters /\ Raisers' = Raisers /\ Returned' = Returned
      BY DEF Sent, Running, Pending, Quitters, Raisers, Returned
<1>2. TypeOK' BY <1>0, Popped DEF TypeOK, Comms
<1>3. OneOwner'
  <2>1. ASSUME NEW d \in Comms PROVE Owners(d)' = Owners(d)
    <3>1. One(last, {d}) = 0 /\ One(last', {d}) = One(c, {d})
      <4>1. last = Nothing /\ last' = c OBVIOUS
      <4> QED BY <4>1, Stock DEF One
    <3>2. Count(r_receiveQueue', {d}) = Count(r_receiveQueue, {d}) - One(c, {d})
          BY <1>0, Popped
    <3>3. One(c, {d}) \in 0 .. 1 BY SMT DEF One
    <3>4. UNCHANGED <<r_sendQueue, filling, cur>> OBVIOUS
    <3> HIDE DEF PopToQuit, IInv, c
    <3> QED BY <3>1, <3>2, <3>3, <3>4, OwnersSum, CountsAreNat, SMT DEF IInv
  <2> QED BY <1>1, <2>1, OwnersKept
<1>4. Holding' BY DEF Holding
<1>5. Carried' BY <1>1 DEF Carried
<1>6. QuitsLast' BY <1>1 DEF QuitsLast, QuitsBehind
<1>7. RaisersCounted' BY <1>1 DEF RaisersCounted
<1> QED BY <1>2, <1>3, <1>4, <1>5, <1>6, <1>7

(* The communication says MESSAGE_QUIT, behind everything that was sent.   *)
LEMMA PushQuitKeeps ==
  ASSUME IInv, PushQuit
  PROVE  IInv'
<1> USE DEF PushQuit, IInv
<1>0. /\ last \in Comms /\ r_sendQueue \in Seq(Comms) /\ world = "quitting"
      /\ says \in [Comms -> Tasks \cup {Quit}]
      BY DEF TypeOK, Holding
<1>1. /\ Running' = Running /\ Quitters' = Quitters /\ Raisers' = Raisers
      /\ Returned' = Returned
      BY DEF Running, Quitters, Raisers, Returned
<1>2. Sent' = Sent \cup {last} BY <1>0, SentPushed
<1>3. last \notin Sent /\ last \notin Running BY <1>0, Alone DEF Running
<1>4. /\ says' \in [Comms -> Tasks \cup {Quit}] /\ says'[last] = Quit
      /\ \A c \in Comms \ {last} : says'[c] = says[c]
      BY <1>0
<1>5. Sent \subseteq Comms /\ Running \subseteq Comms
  <2>1. Sent \subseteq Comms BY <1>0, ElementOfSeq, LenProperties DEF Sent
  <2>2. Running \subseteq Comms BY DEF Running, TypeOK, Holding
  <2> QED BY <2>1, <2>2
<1>6. Pending' = Pending BY <1>1, <1>2, <1>3, <1>4, <1>5 DEF Pending
<1>7. TypeOK'
  <2>1. quits \in Nat /\ quits < Cardinality(Workers) BY Stock, SMT DEF TypeOK, Holding
  <2>2. quits' \in 0 .. Cardinality(Workers) BY <2>1, Stock, SMT
  <2> QED BY <1>0, <1>4, <2>2, Pushed DEF TypeOK, Comms
<1>8. OneOwner'
  <2>1. ASSUME NEW c \in Comms PROVE Owners(c)' = Owners(c)
    <3>1. Count(r_sendQueue', {c}) = Count(r_sendQueue, {c}) + One(last, {c})
          BY <1>0, Pushed
    <3>2. One(last', {c}) = 0 BY Stock DEF One
    <3>3. UNCHANGED <<r_receiveQueue, cur, filling>> OBVIOUS
    <3> HIDE DEF PushQuit, IInv
    <3> QED BY <3>1, <3>2, <3>3, OwnersSum, CountsAreNat, SMT DEF IInv
  <2> QED BY <1>1, <2>1, OwnersKept
<1>9. Holding' BY <1>0 DEF Holding
<1>10. Carried'
  <2>1. \A c \in Pending : says'[c] = says[c]
    <3>1. \A c \in Pending : c \in Comms /\ c # last BY <1>3, <1>5 DEF Pending
    <3> QED BY <1>4, <3>1
  <2> QED BY <1>1, <1>6, <2>1 DEF Carried
<1>11. QuitsBehind'
  <2> SUFFICES ASSUME NEW i \in DOMAIN r_sendQueue', NEW j \in DOMAIN r_sendQueue', i < j,
                      says'[r_sendQueue'[i]] = Quit
               PROVE  says'[r_sendQueue'[j]] = Quit
      BY DEF QuitsBehind
  <2>1. /\ DOMAIN r_sendQueue = 1 .. Len(r_sendQueue) /\ Len(r_sendQueue) \in Nat
        /\ DOMAIN r_sendQueue' = 1 .. Len(r_sendQueue) + 1
        /\ r_sendQueue'[Len(r_sendQueue) + 1] = last
        BY <1>0, Pushed
  <2>2. CASE j = Len(r_sendQueue) + 1 BY <1>4, <2>1, <2>2
  <2>3. CASE j # Len(r_sendQueue) + 1
    <3>1. i \in 1 .. Len(r_sendQueue) /\ j \in 1 .. Len(r_sendQueue)
      <4> HIDE DEF PushQuit, IInv
      <4> QED BY <2>1, <2>3, SMT
    <3>2. r_sendQueue'[i] = r_sendQueue[i] /\ r_sendQueue'[j] = r_sendQueue[j]
          BY <1>0, <2>1, <3>1, Pushed
    <3>3. r_sendQueue[i] \in Sent /\ r_sendQueue[j] \in Sent BY <2>1, <3>1 DEF Sent
    <3>4. /\ says'[r_sendQueue[i]] = says[r_sendQueue[i]]
          /\ says'[r_sendQueue[j]] = says[r_sendQueue[j]]
          BY <1>3, <1>4, <1>5, <3>3
    <3> QED BY <2>1, <3>1, <3>2, <3>4 DEF QuitsLast, QuitsBehind
  <2> QED BY <2>2, <2>3
<1>12. QuitsLast'
  <2>1. Quitters # {} => \A c \in Sent' : says'[c] = Quit
        BY <1>2, <1>3, <1>4, <1>5 DEF QuitsLast
  <2> QED BY <1>0, <1>1, <1>11, <2>1 DEF QuitsLast
<1>13. RaisersCounted' BY <1>1 DEF RaisersCounted
<1> QED BY <1>7, <1>8, <1>9, <1>10, <1>12, <1>13

LEMMA JoinKeeps ==
  ASSUME IInv, Join
  PROVE  IInv'
<1> USE DEF Join, IInv
<1>1. /\ Sent' = Sent /\ Running' = Running /\ Pending' = Pending
      /\ Quitters' = Quitters /\ Raisers' = Raisers /\ Returned' = Returned
      BY DEF Sent, Running, Pending, Quitters, Raisers, Returned
<1>2. TypeOK' BY DEF TypeOK, Comms
<1>3. OneOwner' BY <1>1, OwnersSame, OwnersKept
<1>4. Holding'
  <2>1. last = Nothing BY Stock, SMT DEF Holding
  <2> QED BY <2>1 DEF Holding
<1>5. Carried' BY <1>1 DEF Carried
<1>6. QuitsLast' BY <1>1 DEF QuitsLast, QuitsBehind
<1>7. RaisersCounted' BY <1>1 DEF RaisersCounted
<1> QED BY <1>2, <1>3, <1>4, <1>5, <1>6, <1>7

LEMMA StutterKeeps ==
  ASSUME IInv, UNCHANGED vars
  PROVE  IInv'
<1> USE DEF vars, IInv
<1>1. /\ Sent' = Sent /\ Running' = Running /\ Pending' = Pending
      /\ Quitters' = Quitters /\ Raisers' = Raisers /\ Returned' = Returned
      BY DEF Sent, Running, Pending, Quitters, Raisers, Returned
<1>2. TypeOK' BY DEF TypeOK, Comms
<1>3. OneOwner' BY <1>1, OwnersSame, OwnersKept
<1>4. Holding' BY DEF Holding
<1>5. Carried' BY <1>1 DEF Carried
<1>6. QuitsLast' BY <1>1 DEF QuitsLast, QuitsBehind
<1>7. RaisersCounted' BY <1>1 DEF RaisersCounted
<1> QED BY <1>2, <1>3, <1>4, <1>5, <1>6, <1>7
-----------------------------------------------------------------------------
LEMMA StepKeeps == IInv /\ [Next]_vars => IInv'
<1> SUFFICES ASSUME IInv, [Next]_vars PROVE IInv' OBVIOUS
<1>1. CASE Calls BY <1>1, CallKeeps DEF Calls
<1>2. CASE StartTerminate BY <1>2, StartTerminateKeeps
<1>3. CASE Terminates BY <1>3, PopToQuitKeeps, PushQuitKeeps, JoinKeeps DEF Terminates
<1>4. CASE InitAgain BY <1>4, InitAgainKeeps
<1>5. CASE \E k \in Callers : Launches(k)
      BY <1>5, PopFreeKeeps, PushActionKeeps DEF Launches
<1>6. CASE \E w \in Workers : Engine(w) \/ RunRaises(w)
      BY <1>6, ReceiveKeeps, RunKeeps, PutBackKeeps, RunRaisesKeeps DEF Engine
<1>7. CASE UNCHANGED vars BY <1>7, StutterKeeps
<1> QED BY <1>1, <1>2, <1>3, <1>4, <1>5, <1>6, <1>7 DEF Next

(* The inductive invariant of the pool: the communications and the tasks   *)
(* they carry are accounted for in every state of mp_taskWorld.c.          *)
THEOREM InductiveInvariant == Spec => []IInv
<1>1. Init => IInv BY InitHolds
<1>2. IInv /\ [Next]_vars => IInv' BY StepKeeps
<1> QED BY <1>1, <1>2, PTL DEF Spec

(* Both queues hold communications of r_comms only, and mpTerminate sends  *)
(* no more MESSAGE_QUITs than there are workers to read them.              *)
THEOREM TypeCorrect == Spec => []TypeOK
<1>1. IInv => TypeOK BY DEF IInv
<1> QED BY <1>1, InductiveInvariant, PTL

(* mpTaskLaunch, mpTaskEngine and mpTerminate write and read r_comms       *)
(* without a lock: each communication is in one queue or in the hands of   *)
(* one thread, and one is lost for each worker that was told to quit.      *)
THEOREM OwnedByOne == Spec => []OneOwner
<1>1. IInv => OneOwner BY DEF IInv
<1> QED BY <1>1, InductiveInvariant, PTL

(* mpTaskEngine calls no function twice for one mpTaskLaunch.              *)
THEOREM RunsOnce == Spec => RunOnce
<1>1. IInv => \A w \in Workers : Run(w) => says[cur[w]] \notin ran \cup raised
  <2> SUFFICES ASSUME IInv, NEW w \in Workers, Run(w)
               PROVE  says[cur[w]] \notin ran \cup raised
      OBVIOUS
  <2>1. pc[w] = "run" BY DEF Run
  <2>2. says[cur[w]] \in (launched \ Returned) \cap Tasks BY <2>1, InHand
  <2> QED BY <2>2 DEF Returned
<1>2. IInv /\ [Next]_vars
        => [\A w \in Workers : Run(w) => says[cur[w]] \notin ran \cup raised]_vars
      BY <1>1
<1> QED BY <1>2, InductiveInvariant, PTL DEF Spec, RunOnce

(* With fewer exceptions than workers, some worker was told to quit; it    *)
(* read everything before MESSAGE_QUIT, and the others returned.           *)
LEMMA DownIsDone ==
  ASSUME MaxRaises < Cardinality(Workers), IInv
  PROVE  NoneDropped
<1> SUFFICES ASSUME world = "down" PROVE launched = ran \cup raised BY DEF NoneDropped
<1>1. \A w \in Workers : pc[w] = "ended" BY DEF IInv, QuitsLast
<1>2. Quitters # {}
  <2> SUFFICES ASSUME Quitters = {} PROVE FALSE OBVIOUS
  <2>1. Raisers = Workers BY <1>1 DEF Quitters, Raisers
  <2>2. Cardinality(raised) <= MaxRaises /\ Cardinality(Workers) = Cardinality(raised)
        BY <2>1 DEF IInv, RaisersCounted
  <2> QED BY <2>2, Stock, SMT
<1>3. \A c \in Sent : says[c] = Quit BY <1>2 DEF IInv, QuitsLast
<1>4. Running = {} BY <1>1 DEF Running
<1>5. Pending = {} BY <1>3, <1>4 DEF Pending
<1> QED BY <1>5 DEF IInv, Carried, Returned

(* mpTerminate returns after every task launched before it has returned or *)
(* raised, if exceptions have not ended every worker (the handler of       *)
(* mpTaskEngine is outside its loop, so each one ends a thread).           *)
THEOREM NoTaskDropped ==
  ASSUME MaxRaises < Cardinality(Workers)
  PROVE  Spec => []NoneDropped
<1>1. IInv => NoneDropped BY DownIsDone
<1> QED BY <1>1, InductiveInvariant, PTL

(* mpInit makes both queues as large as the stock: neither ever holds      *)
(* more, so that mpQueuePush finds room and only a pop can wait.           *)
NeverFull ==
  Len(r_sendQueue) <= Cardinality(Comms) /\ Len(r_receiveQueue) <= Cardinality(Comms)

THEOREM PushesNeverWait == Spec => []NeverFull
<1>1. IInv => NeverFull
  <2> SUFFICES ASSUME IInv PROVE NeverFull OBVIOUS
  <2>1. r_sendQueue \in Seq(Comms) /\ r_receiveQueue \in Seq(Comms) BY DEF IInv, TypeOK
  <2>2. ASSUME NEW c \in Comms
        PROVE  Count(r_sendQueue, {c}) < 2 /\ Count(r_receiveQueue, {c}) < 2
    <3>1. Owners(c) <= 1 BY DEF IInv, OneOwner
    <3> QED BY <3>1, OwnersSum, CountsAreNat, SMT DEF IInv
  <2> QED BY <2>1, <2>2, Stock, CountedOnce DEF NeverFull
<1> QED BY <1>1, InductiveInvariant, PTL
=============================================================================
