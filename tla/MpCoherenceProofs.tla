------------------------- MODULE MpCoherenceProofs --------------------------
(***************************************************************************)
(* Proofs about the coherence scheduler, for every number of workers, rows *)
(* and pieces, and every kind of row.                                      *)
(***************************************************************************)
EXTENDS MpCoherence, FiniteSetTheorems, SequenceTheorems, TLAPS

-----------------------------------------------------------------------------
(* How often the elements of a set occur among the values of a sequence or *)
(* of any function with a finite domain, and what a step does to it: how   *)
(* many hands a piece is in, and how many workers wait, is counted so.     *)
Where(f, S) == {i \in DOMAIN f : f[i] \in S}
Count(f, S) == Cardinality(Where(f, S))
One(v, S) == IF v \in S THEN 1 ELSE 0

(* A count is a natural number, 0 if and only if no value is in the set.   *)
LEMMA CountType ==
  ASSUME NEW f, NEW S, IsFiniteSet(DOMAIN f)
  PROVE  /\ IsFiniteSet(Where(f, S))
         /\ Count(f, S) \in Nat
         /\ Count(f, S) = 0 <=> \A i \in DOMAIN f : f[i] \notin S
         /\ Count(f, S) <= Cardinality(DOMAIN f)
<1>1. Where(f, S) \in SUBSET (DOMAIN f) BY DEF Where
<1>2. /\ IsFiniteSet(Where(f, S))
      /\ Cardinality(Where(f, S)) <= Cardinality(DOMAIN f)
      BY <1>1, FS_Subset
<1>3. Cardinality(Where(f, S)) \in Nat BY <1>2, FS_CardinalityType
<1>4. Cardinality(Where(f, S)) = 0 <=> Where(f, S) = {} BY <1>2, FS_EmptySet
<1> QED BY <1>2, <1>3, <1>4 DEF Count, Where

(* Two places with values in the set make two.                             *)
LEMMA CountTwo ==
  ASSUME NEW f, NEW S, IsFiniteSet(DOMAIN f),
         NEW i \in DOMAIN f, NEW j \in DOMAIN f, i # j, f[i] \in S, f[j] \in S
  PROVE  Count(f, S) >= 2
<1>1. {i, j} \in SUBSET Where(f, S) BY DEF Where
<1>2. IsFiniteSet({i}) /\ Cardinality({i}) = 1 BY FS_Singleton
<1> DEFINE A == {i}
<1>a. j \notin A OBVIOUS
<1> HIDE DEF A
<1>b. Cardinality(A \cup {j}) = Cardinality(A) + 1 BY <1>2, <1>a, FS_AddElement DEF A
<1>3. Cardinality({i} \cup {j}) = 2 BY <1>2, <1>b DEF A
<1>4. {i} \cup {j} = {i, j} OBVIOUS
<1>5. Cardinality({i, j}) <= Cardinality(Where(f, S)) BY <1>1, CountType, FS_Subset
<1> QED BY <1>3, <1>4, <1>5 DEF Count

(* A function changed at one place.                                        *)
LEMMA CountExcept ==
  ASSUME NEW D, IsFiniteSet(D), NEW f, DOMAIN f = D, NEW g, DOMAIN g = D,
         NEW d \in D, \A i \in D \ {d} : g[i] = f[i], NEW S
  PROVE  Count(g, S) = Count(f, S) - One(f[d], S) + One(g[d], S)
<1> DEFINE A == Where(f, S) \ {d}
<1>1. A = Where(g, S) \ {d} BY DEF Where
<1>2. IsFiniteSet(Where(f, S)) /\ Count(f, S) \in Nat BY CountType
<1>3. IsFiniteSet(A) /\ Cardinality(A) = Count(f, S) - One(f[d], S)
      BY <1>2, FS_RemoveElement DEF Count, One, Where
<1>4. Where(g, S) = IF g[d] \in S THEN A \cup {d} ELSE A BY <1>1 DEF Where
<1>5. d \notin A OBVIOUS
<1>6. Cardinality(A \cup {d}) = Cardinality(A) + 1 BY <1>3, <1>5, FS_AddElement
<1>7. Cardinality(A) \in Nat BY <1>3, FS_CardinalityType
<1>8. Count(g, S) = Cardinality(A) + One(g[d], S)
  <2>1. CASE g[d] \in S BY <2>1, <1>4, <1>6 DEF Count, One
  <2>2. CASE g[d] \notin S
    <3>1. Count(g, S) = Cardinality(A) /\ One(g[d], S) = 0 BY <2>2, <1>4 DEF Count, One
    <3> QED BY <3>1, <1>7, SMT
  <2> QED BY <2>1, <2>2
<1> QED BY <1>3, <1>8

LEMMA SeqDomain ==
  ASSUME NEW T, NEW s \in Seq(T)
  PROVE  DOMAIN s = 1 .. Len(s) /\ Len(s) \in Nat /\ IsFiniteSet(DOMAIN s)
         /\ Cardinality(DOMAIN s) = Len(s)
<1>1. DOMAIN s = 1 .. Len(s) /\ Len(s) \in Nat BY LenProperties
<1>2. /\ IsFiniteSet(1 .. Len(s))
      /\ Cardinality(1 .. Len(s)) = IF 1 > Len(s) THEN 0 ELSE Len(s) - 1 + 1
      BY <1>1, FS_Interval, SMT
<1> QED BY <1>1, <1>2, SMT

LEMMA CountEmpty == \A S : Count(<<>>, S) = 0
  BY FS_EmptySet DEF Count, Where

LEMMA CountAppend ==
  ASSUME NEW T, NEW s \in Seq(T), NEW e \in T, NEW S
  PROVE  Count(Append(s, e), S) = Count(s, S) + One(e, S)
<1> DEFINE t == Append(s, e)
<1>1. /\ t \in Seq(T) /\ Len(t) = Len(s) + 1
      /\ \A i \in 1 .. Len(s) : t[i] = s[i]
      /\ t[Len(s) + 1] = e
      BY AppendProperties
<1>2. DOMAIN s = 1 .. Len(s) /\ Len(s) \in Nat /\ IsFiniteSet(DOMAIN s) BY SeqDomain
<1>3. DOMAIN t = 1 .. Len(s) + 1 BY <1>1, SeqDomain
<1> HIDE DEF t
<1>4. Where(t, S) = IF e \in S THEN Where(s, S) \cup {Len(s) + 1} ELSE Where(s, S)
  <2>1. \A i : i \in DOMAIN t <=> i \in DOMAIN s \/ i = Len(s) + 1 BY <1>2, <1>3, SMT
  <2>2. \A i \in DOMAIN s : t[i] = s[i] BY <1>1, <1>2
  <2>3. ASSUME NEW i PROVE i \in Where(t, S) <=> i \in Where(s, S) \/ (i = Len(s) + 1 /\ e \in S)
        BY <2>1, <2>2, <1>1 DEF Where
  <2> QED BY <2>3
<1>5. IsFiniteSet(Where(s, S)) /\ Cardinality(Where(s, S)) \in Nat BY <1>2, CountType DEF Count
<1>6. Len(s) + 1 \notin Where(s, S) BY <1>2, SMT DEF Where
<1>7. Cardinality(Where(s, S) \cup {Len(s) + 1}) = Cardinality(Where(s, S)) + 1
      BY <1>5, <1>6, FS_AddElement
<1>8. Count(t, S) = Count(s, S) + One(e, S) BY <1>4, <1>5, <1>7, SMT DEF Count, One
<1> QED BY <1>8 DEF t

LEMMA CountTail ==
  ASSUME NEW T, NEW s \in Seq(T), s # <<>>, NEW S
  PROVE  Count(Tail(s), S) = Count(s, S) - One(Head(s), S)
<1> DEFINE t == Tail(s)
<1>1. /\ t \in Seq(T) /\ Len(t) = Len(s) - 1
      /\ \A i \in 1 .. Len(t) : t[i] = s[i + 1]
      BY HeadTailProperties
<1>2. DOMAIN s = 1 .. Len(s) /\ Len(s) \in Nat \ {0} /\ IsFiniteSet(DOMAIN s)
      BY SeqDomain, EmptySeq
<1>3. DOMAIN t = 1 .. Len(s) - 1 /\ IsFiniteSet(DOMAIN t) BY <1>1, SeqDomain
<1>0. Head(s) = s[1] OBVIOUS
<1> HIDE DEF t
<1> DEFINE A == Where(s, S) \ {1}
           f == [i \in Where(t, S) |-> i + 1]
<1>4. \A i \in Where(t, S) : i \in Nat /\ i + 1 \in A
  <2> SUFFICES ASSUME NEW i \in Where(t, S) PROVE i \in Nat /\ i + 1 \in A OBVIOUS
  <2>1. i \in 1 .. Len(s) - 1 /\ t[i] \in S /\ t[i] = s[i + 1] BY <1>1, <1>3 DEF Where
  <2>2. i \in Nat /\ i + 1 \in 1 .. Len(s) /\ i + 1 # 1 BY <2>1, <1>2, SMT
  <2> QED BY <2>1, <2>2, <1>2 DEF Where
<1>5. \A j \in A : j - 1 \in Where(t, S) /\ (j - 1) + 1 = j
  <2> SUFFICES ASSUME NEW j \in A PROVE j - 1 \in Where(t, S) /\ (j - 1) + 1 = j OBVIOUS
  <2>1. j \in 1 .. Len(s) /\ j # 1 /\ s[j] \in S BY <1>2 DEF Where
  <2>2. j - 1 \in 1 .. Len(s) - 1 /\ (j - 1) + 1 = j BY <2>1, <1>2, SMT
  <2>3. t[j - 1] = s[j] BY <2>2, <1>1
  <2> QED BY <2>1, <2>2, <2>3, <1>3 DEF Where
<1>6. f \in Bijection(Where(t, S), A)
  <2>1. f \in [Where(t, S) -> A] BY <1>4
  <2>2. \A i, j \in Where(t, S) : f[i] = f[j] => i = j
    <3> SUFFICES ASSUME NEW i \in Where(t, S), NEW j \in Where(t, S), i + 1 = j + 1 PROVE i = j
        OBVIOUS
    <3>1. i \in Nat /\ j \in Nat BY <1>4
    <3> QED BY <3>1, SMT
  <2>3. \A j \in A : \E i \in Where(t, S) : f[i] = j BY <1>5
  <2> QED BY <2>1, <2>2, <2>3 DEF Bijection, Injection, Surjection, IsInjective
<1>7. IsFiniteSet(Where(t, S)) BY <1>3, CountType
<1>8. Cardinality(A) = Cardinality(Where(t, S)) BY <1>6, <1>7, FS_Bijection DEF ExistsBijection
<1>9. IsFiniteSet(Where(s, S)) /\ Cardinality(Where(s, S)) \in Nat BY <1>2, CountType DEF Count
<1>10. 1 \in Where(s, S) <=> Head(s) \in S BY <1>0, <1>2, SMT DEF Where
<1>11. Count(t, S) = Count(s, S) - One(Head(s), S)
  <2>1. Cardinality(A) = IF 1 \in Where(s, S) THEN Cardinality(Where(s, S)) - 1
                                              ELSE Cardinality(Where(s, S))
        BY <1>9, FS_RemoveElement
  <2> HIDE DEF A
  <2> QED BY <2>1, <1>8, <1>9, <1>10, SMT DEF Count, One
<1> QED BY <1>11 DEF t

-----------------------------------------------------------------------------
(* What the fields of mpCoMessage can hold: tid -1 and the sentinel are no *)
(* pieces.                                                                 *)
LEMMA Sizes ==
  /\ NData \in Nat \ {0} /\ CacheSize \in Nat \ {0} /\ MaxTasks \in Nat \ {0}
  /\ QueueMax \in Nat \ {0} /\ 0 \in 0 .. NData
  BY SizesAssumption, SMT

LEMMA Constants ==
  /\ NoTask \notin Tasks /\ Sentinel \notin Tasks /\ NoTask # Sentinel
  /\ Untouched \in Progress
  /\ Fresh \in Locals
  /\ Nobody \notin Workers
<1>1. NoTask \notin Tasks /\ Sentinel \notin Tasks /\ NoTask # Sentinel
      BY SizesAssumption, WidthAssumption, SMT DEF Tasks, Rows, NoTask, Sentinel
<1>2. Untouched \in Progress BY Sizes DEF Untouched, Progress
<1>3. Fresh \in Locals BY <1>2 DEF Fresh, Locals, PCs, Sites
<1> QED BY <1>1, <1>2, <1>3, NobodyAssumption

(* A worker's next access, all else the same.                              *)
LEMMA GotoIs ==
  ASSUME NEW l \in Locals, NEW p \in PCs
  PROVE  /\ Goto(l, p) \in Locals /\ Goto(l, p).pc = p
         /\ Goto(l, p).site = l.site /\ Goto(l, p).ret = l.ret /\ Goto(l, p).task = l.task
         /\ Goto(l, p).x = l.x /\ Goto(l, p).lo = l.lo /\ Goto(l, p).hi = l.hi
         /\ Goto(l, p).min = l.min /\ Goto(l, p).max = l.max /\ Goto(l, p).last = l.last
         /\ Goto(l, p).seen = l.seen /\ Goto(l, p).cs = l.cs /\ Goto(l, p).v = l.v
  BY DEF Goto, Locals

LEMMA LookIs ==
  ASSUME NEW l \in Locals, NEW x \in Nat
  PROVE  /\ Look(l, x) \in Locals /\ Look(l, x).pc = "look"
         /\ Look(l, x).site = l.site /\ Look(l, x).ret = l.ret /\ Look(l, x).task = l.task
         /\ Look(l, x).x = x /\ Look(l, x).lo = l.lo /\ Look(l, x).hi = l.hi
         /\ Look(l, x).min = l.min /\ Look(l, x).max = l.max /\ Look(l, x).last = l.last
         /\ Look(l, x).v = l.v
  BY Constants DEF Look, Locals, PCs

LEMMA CallIs ==
  ASSUME NEW l \in Locals, NEW r \in {"run", "signal"}
  PROVE  /\ CallObtain(l, r) \in Locals /\ CallObtain(l, r).pc = "count"
         /\ CallObtain(l, r).site = "obtain" /\ CallObtain(l, r).ret = r
         /\ CallObtain(l, r).task = NoTask
         /\ CallObtain(l, r).min = l.min /\ CallObtain(l, r).max = l.max
  BY Constants DEF CallObtain, Fresh, Locals, PCs, Sites

(* Back in fluidMP's loop, with a piece or with none.                      *)
LEMMA ReturnedIs ==
  ASSUME NEW l \in Locals
  PROVE  /\ Returned(l) \in Locals /\ Returned(l).task = l.task
         /\ Returned(l).pc = IF l.task = NoTask THEN "returned" ELSE "run"
         /\ Returned(l).site = "obtain" /\ Returned(l).x = 0 /\ Returned(l).max = 0
  BY Constants DEF Returned, Fresh, Locals, PCs, Sites

LEMMA BackIs ==
  ASSUME NEW l \in Locals
  PROVE  /\ BackFromObtain(l) \in Locals /\ BackFromObtain(l).task = l.task
         /\ l.ret = "run" => BackFromObtain(l) = Returned(l)
         /\ l.ret = "signal" => /\ BackFromObtain(l).pc = "signal"
                                /\ BackFromObtain(l).site = "obtain"
                                /\ BackFromObtain(l).x = 0
                                /\ BackFromObtain(l).min = l.min
                                /\ BackFromObtain(l).max = l.max
<1>1. CASE l.ret = "run" BY <1>1, ReturnedIs DEF BackFromObtain
<1>2. CASE l.ret # "run"
  BY <1>2, Constants DEF BackFromObtain, Fresh, Locals, PCs, Sites
<1>3. l.ret \in {"run", "signal"} BY DEF Locals
<1> QED BY <1>1, <1>2, <1>3

-----------------------------------------------------------------------------
(* What a worker may know and hold, when the bounds and rows are as they   *)
(* are.                                                                    *)
OK(l) == l \in Locals /\ InTable(l) /\ InHand(l) /\ AsRead(l)

LEMMA Worker ==
  ASSUME HandsInv, running, NEW w \in Workers
  PROVE  OK(loc[w]) /\ m_nTasks > 0 /\ m_nTasks \in Nat
<1>1. loc[w] \in Locals BY DEF HandsInv, HandsTypes
<1>2. InTable(loc[w]) /\ InHand(loc[w]) /\ AsRead(loc[w]) /\ m_nTasks > 0 BY DEF HandsInv
<1>3. m_nTasks \in Nat
  <2>1. m_nTasks \in 0 .. MaxTasks BY DEF HandsInv, HandsTypes
  <2> QED BY <2>1, Sizes, SMT
<1> QED BY <1>1, <1>2, <1>3 DEF OK

(* Between reads, a worker relies on nothing that others may change.       *)
LEMMA Relaxed ==
  ASSUME NEW l,
         l.pc \notin AfterRun \cup {"cache", "above", "take", "advance", "failed"}
  PROVE  AsRead(l)
  BY DEF AsRead, AfterRun

LEMMA BackOK ==
  ASSUME NEW l \in Locals, m_nTasks \in Nat, l.max < m_nTasks
  PROVE  OK(BackFromObtain(l)) /\ BackFromObtain(l).task = l.task
<1> DEFINE b == BackFromObtain(l)
<1>1. b \in Locals /\ b.task = l.task /\ b.x = 0 /\ b.site = "obtain"
      /\ (b.max = 0 \/ b.max = l.max)
      /\ (b.pc = "signal" \/ b.pc = IF l.task = NoTask THEN "returned" ELSE "run")
  <2>1. l.ret \in {"run", "signal"} BY DEF Locals
  <2> QED BY <2>1, BackIs, ReturnedIs
<1>2. l.max \in Nat BY DEF Locals
<1> HIDE DEF b
<1>3. b.max < m_nTasks /\ b.max <= m_nTasks BY <1>1, <1>2, SMT
<1>4. InTable(b) BY <1>1, <1>3 DEF InTable, Looking
<1>5. InHand(b) BY <1>1 DEF InHand, Handless, Looking, AfterRun
<1>6. AsRead(b) BY <1>1, Relaxed DEF AfterRun
<1> QED BY <1>1, <1>4, <1>5, <1>6 DEF OK, b

LEMMA ReturnedOK ==
  ASSUME NEW l \in Locals, m_nTasks \in Nat, l.max < m_nTasks
  PROVE  OK(Returned(l)) /\ Returned(l).task = l.task
<1> DEFINE b == Returned(l)
<1>1. /\ b \in Locals /\ b.task = l.task /\ b.x = 0 /\ b.site = "obtain" /\ b.max = 0
      /\ b.pc = IF l.task = NoTask THEN "returned" ELSE "run"
      BY ReturnedIs
<1>2. l.max \in Nat BY DEF Locals
<1> HIDE DEF b
<1>3. b.max < m_nTasks /\ b.max <= m_nTasks BY <1>1, <1>2, SMT
<1>4. InTable(b) BY <1>1, <1>3 DEF InTable, Looking
<1>5. InHand(b) BY <1>1 DEF InHand, Handless, Looking, AfterRun
<1>6. AsRead(b) BY <1>1, Relaxed DEF AfterRun
<1> QED BY <1>1, <1>4, <1>5, <1>6 DEF OK, b

LEMMA CallOK ==
  ASSUME NEW l \in Locals, NEW r \in {"run", "signal"}, m_nTasks \in Nat, l.max < m_nTasks
  PROVE  OK(CallObtain(l, r)) /\ CallObtain(l, r).task = NoTask
<1> DEFINE b == CallObtain(l, r)
<1>1. b \in Locals /\ b.task = NoTask /\ b.site = "obtain" /\ b.max = l.max /\ b.pc = "count"
      BY CallIs
<1>2. l.max \in Nat BY DEF Locals
<1> HIDE DEF b
<1>3. b.max < m_nTasks /\ b.max <= m_nTasks BY <1>1, <1>2, SMT
<1>4. InTable(b) BY <1>1, <1>3 DEF InTable, Looking
<1>5. InHand(b) BY <1>1 DEF InHand, AfterRun
<1>6. AsRead(b) BY <1>1, Relaxed DEF AfterRun
<1> QED BY <1>1, <1>4, <1>5, <1>6 DEF OK, b

(* A scan that goes on, or ends without a piece.                           *)
LEMMA LookOK ==
  ASSUME NEW l \in Locals, NEW x \in Nat, m_nTasks \in Nat, l.max < m_nTasks, l.task = NoTask,
         x < m_nTasks, l.site = "obtain" => l.hi < m_nTasks /\ l.last \in 1 .. m_nTasks
  PROVE  /\ OK(Look(l, x)) /\ (l.site = "forward" => OK([Look(l, x) EXCEPT !.pc = "recount"]))
         /\ Look(l, x).task = NoTask /\ [Look(l, x) EXCEPT !.pc = "recount"].task = NoTask
<1> DEFINE b == Look(l, x)
           c == [b EXCEPT !.pc = "recount"]
<1>1. /\ b \in Locals /\ b.task = NoTask /\ b.site = l.site /\ b.max = l.max /\ b.pc = "look"
      /\ b.hi = l.hi /\ b.last = l.last /\ b.x = x
      BY LookIs
<1>2. /\ c \in Locals /\ c.task = NoTask /\ c.site = l.site /\ c.max = l.max /\ c.pc = "recount"
      /\ c.x = x
  <2> HIDE DEF b
  <2>1. "recount" \in PCs BY DEF PCs
  <2>2. c = Goto(b, "recount") BY DEF Goto
  <2> QED BY <1>1, <2>1, <2>2, GotoIs
<1>3. l.max \in Nat BY DEF Locals
<1> HIDE DEF b, c
<1>4. l.max <= m_nTasks /\ x <= m_nTasks BY <1>3, SMT
<1>5. InTable(b) BY <1>1, <1>4 DEF InTable
<1>6. InTable(c) BY <1>2, <1>4 DEF InTable, Looking
<1>7. InHand(b) BY <1>1 DEF InHand, AfterRun
<1>8. l.site = "forward" => InHand(c) BY <1>2 DEF InHand, AfterRun
<1>9. AsRead(b) /\ AsRead(c) BY <1>1, <1>2, Relaxed DEF AfterRun
<1> QED BY <1>1, <1>2, <1>5, <1>6, <1>7, <1>8, <1>9 DEF OK, b, c

LEMMA MissedOK ==
  ASSUME NEW l \in Locals, m_nTasks \in Nat, l.max < m_nTasks, l.task = NoTask,
         l.site = "obtain" => l.hi < m_nTasks /\ l.last \in 1 .. m_nTasks,
         l.site # "obtain" => l.x <= m_nTasks
  PROVE  OK(Missed(l)) /\ Missed(l).task = NoTask
<1>0. /\ l.x \in Nat /\ l.lo \in Nat /\ l.hi \in Nat /\ l.max \in Nat /\ l.last \in Nat
      /\ l.site \in Sites
      BY DEF Locals
<1>1. CASE l.site = "obtain"
  <2>1. CASE l.x < l.hi
    <3>1. l.x + 1 \in Nat /\ l.x + 1 < m_nTasks BY <1>0, <1>1, <2>1, SMT
    <3> QED BY <3>1, <1>1, <2>1, LookOK DEF Missed
  <2>2. CASE ~(l.x < l.hi)
    <3> DEFINE b == Goto(l, "last")
    <3>1. /\ b \in Locals /\ b.pc = "last" /\ b.site = "obtain" /\ b.task = NoTask
          /\ b.max = l.max /\ b.last = l.last
          BY <1>1, GotoIs DEF PCs
    <3>2. Missed(l) = b BY <1>1, <2>2 DEF Missed
    <3> HIDE DEF b
    <3>3. l.max <= m_nTasks BY <1>0, SMT
    <3>4. InTable(b) BY <3>1, <3>3, <1>1 DEF InTable, Looking
    <3>5. InHand(b) BY <3>1 DEF InHand, AfterRun
    <3>6. AsRead(b) BY <3>1, Relaxed DEF AfterRun
    <3> QED BY <3>1, <3>2, <3>4, <3>5, <3>6 DEF OK
  <2> QED BY <2>1, <2>2
<1>2. CASE l.site = "near"
  <2>1. CASE l.x > l.lo
    <3>1. l.x - 1 \in Nat /\ l.x - 1 < m_nTasks BY <1>0, <1>2, <2>1, SMT
    <3> QED BY <3>1, <1>2, <2>1, LookOK DEF Missed
  <2>2. CASE ~(l.x > l.lo) BY <1>2, <2>2, CallOK DEF Missed
  <2> QED BY <2>1, <2>2
<1>3. CASE l.site = "forward"
  <2>1. CASE l.x > l.lo
    <3>1. l.x - 1 \in Nat /\ l.x - 1 < m_nTasks BY <1>0, <1>3, <2>1, SMT
    <3> QED BY <3>1, <1>3, <2>1, LookOK DEF Missed
  <2>2. CASE ~(l.x > l.lo)
    <3> DEFINE b == Goto(l, "unlock")
    <3>1. /\ b \in Locals /\ b.pc = "unlock" /\ b.site = "forward" /\ b.task = NoTask
          /\ b.max = l.max /\ b.x = l.x
          BY <1>3, GotoIs DEF PCs
    <3>2. Missed(l) = b BY <1>3, <2>2 DEF Missed
    <3> HIDE DEF b
    <3>3. l.max <= m_nTasks BY <1>0, SMT
    <3>4. InTable(b) BY <3>1, <3>3, <1>3 DEF InTable, Looking
    <3>5. InHand(b) BY <3>1 DEF InHand, AfterRun
    <3>6. AsRead(b) BY <3>1, Relaxed DEF AfterRun
    <3> QED BY <3>1, <3>2, <3>4, <3>5, <3>6 DEF OK
  <2> QED BY <2>1, <2>2
<1> QED BY <1>0, <1>1, <1>2, <1>3 DEF Sites

LEMMA FoundOK ==
  ASSUME NEW l \in Locals, m_nTasks \in Nat, l.max < m_nTasks, l.task # NoTask,
         l.site = "forward" => l.x <= m_nTasks
  PROVE  OK(Found(l)) /\ Found(l).task = l.task
<1>0. l.max \in Nat /\ l.site \in Sites BY DEF Locals
<1>1. CASE l.site = "obtain" BY <1>1, BackOK DEF Found
<1>2. CASE l.site # "obtain"
  <2> DEFINE p == IF l.site = "near" THEN "signal" ELSE "uncount"
             b == Goto(l, p)
  <2>1. /\ b \in Locals /\ b.pc = p /\ b.site = l.site /\ b.task = l.task
        /\ b.max = l.max /\ b.x = l.x
        BY GotoIs DEF PCs
  <2>2. Found(l) = b BY <1>0, <1>2 DEF Found, Sites
  <2> HIDE DEF b
  <2>3. l.max <= m_nTasks BY <1>0, SMT
  <2>4. InTable(b) BY <2>1, <2>3 DEF InTable, Looking
  <2>5. InHand(b) BY <2>1, <1>0, <1>2 DEF InHand, Handless, Looking, AfterRun, Sites
  <2>6. AsRead(b) BY <2>1, Relaxed DEF AfterRun
  <2> QED BY <2>1, <2>2, <2>4, <2>5, <2>6 DEF OK
<1> QED BY <1>1, <1>2

-----------------------------------------------------------------------------
(* A worker that only reads, or writes what no piece depends on.           *)
LEMMA HandsSame ==
  ASSUME HandsTypes, NEW w \in Workers, NEW l, l.task = loc[w].task, Becomes(w, l), r_q' = r_q
  PROVE  \A t : Hands(t)' = Hands(t)
<1>1. \A u \in Workers : loc'[u].task = loc[u].task BY DEF HandsTypes, Becomes
<1>2. \A t : {u \in Workers : loc'[u].task = t} = {u \in Workers : loc[u].task = t} BY <1>1
<1> QED BY <1>2 DEF Hands

LEMMA Quiet ==
  ASSUME HandsInv, running, NEW w \in Workers, NEW l, OK(l), l.task = loc[w].task, Becomes(w, l),
         UNCHANGED <<rows, bounds, progress, running, r_q>>, m_nCacheStart' \in 0 .. NData,
         m_nBlocking' \in Int, m_mutex' \in Workers \cup {Nobody}
  PROVE  HandsInv'
<1> USE DEF HandsInv, rows, bounds
<1>1. HandsTypes' BY DEF HandsTypes, OK, Becomes
<1>2. RowsInOrder' BY DEF RowsInOrder, Added
<1>3. \A t \in Tasks : Hands(t)' = IF GivenOut(t)' THEN 1 ELSE 0 BY HandsSame DEF GivenOut
<1>4. \A u \in Workers : OK(loc[u]) BY Worker
<1>5. \A u \in Workers : loc'[u] = IF u = w THEN l ELSE loc[u] BY DEF HandsTypes, Becomes
<1>6. \A u \in Workers : OK(loc'[u]) BY <1>4, <1>5
<1>7. \A u \in Workers : InTable(loc[u])' /\ InHand(loc[u])' /\ AsRead(loc[u])'
      BY <1>6 DEF OK, InTable, InHand, AsRead, Open, AnyOrder, Tid, Tsk
<1>8. running' /\ m_nTasks' > 0 OBVIOUS
<1> QED BY <1>1, <1>2, <1>3, <1>7, <1>8

LEMMA Reads ==
  ASSUME HandsInv, running, NEW w \in Workers, NEW l, OK(l), l.task = loc[w].task, Becomes(w, l),
         UNCHANGED Private
  PROVE  HandsInv'
<1>1. /\ m_nCacheStart' \in 0 .. NData /\ m_nBlocking' \in Int
      /\ m_mutex' \in Workers \cup {Nobody}
      BY DEF HandsInv, HandsTypes, Private
<1>2. UNCHANGED <<rows, bounds, progress, running, r_q>> BY DEF Private
<1> QED BY <1>1, <1>2, Quiet

-----------------------------------------------------------------------------
(* Pieces in hand, counted.                                                *)
Carrying(t) == {l \in Locals : l.task = t}

LEMMA HandsSum ==
  ASSUME NEW t
  PROVE  /\ HandsTypes => Hands(t) = Count(loc, Carrying(t)) + Count(r_q, {t})
         /\ HandsTypes' => Hands(t)' = Count(loc', Carrying(t)) + Count(r_q', {t})
<1>1. {i \in DOMAIN r_q : r_q[i] = t} = Where(r_q, {t}) BY DEF Where
<1>2. {i \in DOMAIN r_q' : r_q'[i] = t} = Where(r_q', {t}) BY DEF Where
<1>3. HandsTypes => {w \in Workers : loc[w].task = t} = Where(loc, Carrying(t))
      BY DEF HandsTypes, Where, Carrying
<1>4. HandsTypes' => {w \in Workers : loc'[w].task = t} = Where(loc', Carrying(t))
      BY DEF HandsTypes, Where, Carrying
<1> QED BY <1>1, <1>2, <1>3, <1>4 DEF Hands, Count

LEMMA CountsAreNat ==
  ASSUME HandsTypes, NEW S
  PROVE  /\ Count(loc, S) \in Nat /\ Count(r_q, S) \in Nat
         /\ Count(loc, S) = 0 <=> \A w \in Workers : loc[w] \notin S
         /\ Count(r_q, S) = 0 <=> \A i \in DOMAIN r_q : r_q[i] \notin S
         /\ Count(loc, S) <= Cardinality(Workers)
         /\ \A u, w \in Workers : u # w /\ loc[u] \in S /\ loc[w] \in S => Count(loc, S) >= 2
<1>1. DOMAIN loc = Workers /\ IsFiniteSet(DOMAIN loc)
      BY WorkersAssumption DEF HandsTypes
<1>2. IsFiniteSet(DOMAIN r_q) BY SeqDomain DEF HandsTypes
<1> QED BY <1>1, <1>2, CountType, CountTwo

(* Who has a piece has it alone, and its row goes on where it stands.      *)
LEMMA Held ==
  ASSUME HandsInv, NEW t \in Tasks
  PROVE  /\ \A w \in Workers : loc[w].task = t =>
              /\ GivenOut(t) /\ \A u \in Workers : loc[u].task = t => u = w
              /\ \A i \in DOMAIN r_q : r_q[i] # t
         /\ \A i \in DOMAIN r_q : r_q[i] = t => GivenOut(t) /\ \A w \in Workers : loc[w].task # t
<1> DEFINE h == Count(loc, Carrying(t))
           q == Count(r_q, {t})
<1>0. HandsTypes /\ loc \in [Workers -> Locals] BY DEF HandsInv, HandsTypes
<1>1. h \in Nat /\ q \in Nat BY <1>0, CountsAreNat
<1>2. h + q = IF GivenOut(t) THEN 1 ELSE 0 BY <1>0, HandsSum DEF HandsInv
<1>3. h = 0 <=> \A w \in Workers : loc[w].task # t
  <2>1. h = 0 <=> \A w \in Workers : loc[w] \notin Carrying(t) BY <1>0, CountsAreNat
  <2> QED BY <2>1, <1>0 DEF Carrying
<1>4. q = 0 <=> \A i \in DOMAIN r_q : r_q[i] # t
  <2>1. q = 0 <=> \A i \in DOMAIN r_q : r_q[i] \notin {t} BY <1>0, CountsAreNat
  <2> QED BY <2>1
<1>5. \A u, w \in Workers : u # w /\ loc[u].task = t /\ loc[w].task = t => h >= 2
      BY <1>0, CountsAreNat DEF Carrying
<1> HIDE DEF h, q
<1>6. (h # 0 => GivenOut(t) /\ q = 0 /\ ~(h >= 2)) /\ (q # 0 => GivenOut(t) /\ h = 0)
      BY <1>1, <1>2, SMT
<1> QED BY <1>3, <1>4, <1>5, <1>6

LEMMA Kinds ==
  ASSUME HandsTypes, NEW x \in Rows
  PROVE  /\ description[x] \in Descriptions
         /\ description[x].depend = "inorder" \/ description[x].depend = "any"
         /\ description[x].bottom \in Nat
         /\ progress[x] \in Progress
         /\ progress[x].completed \in 0 .. NData /\ progress[x].working \in 0 .. NData
         /\ progress[x].completed \in Nat /\ progress[x].working \in Nat
<1>1. description[x] \in [depend : {"inorder", "any"}, bottom : 0 .. 255]
      BY DescriptionsAssumption DEF HandsTypes
<1>2. \A b \in 0 .. 255 : b \in Nat BY SMT
<1>3. progress[x] \in Progress BY DEF HandsTypes
<1>4. progress[x].completed \in 0 .. NData /\ progress[x].working \in 0 .. NData
      BY <1>3 DEF Progress
<1>5. \A c \in 0 .. NData : c \in Nat BY Sizes, SMT
<1> QED BY <1>1, <1>2, <1>3, <1>4, <1>5 DEF HandsTypes

(* A worker's own piece, and its row.                                      *)
LEMMA Own ==
  ASSUME HandsInv, running, NEW w \in Workers, loc[w].task # NoTask
  PROVE  LET l == loc[w]
             p == progress[Tid(l)]
         IN  /\ l.task \in Tasks /\ l.task = <<Tid(l), Tsk(l)>> /\ GivenOut(l.task)
             /\ Tid(l) \in Added /\ Tid(l) \in Rows /\ Tid(l) \in Nat /\ Tid(l) < m_nTasks
             /\ Tsk(l) \in Nat /\ Tsk(l) < NData
             /\ p.completed \in Nat /\ p.working \in Nat
             /\ p.completed <= Tsk(l) /\ Tsk(l) < p.working /\ p.working <= NData
             /\ AnyOrder(l) \/ (p.completed = Tsk(l) /\ p.working = Tsk(l) + 1)
<1> DEFINE l == loc[w]
           p == progress[Tid(l)]
<1>0. HandsTypes /\ RowsInOrder BY DEF HandsInv
<1>1. l.task \in Tasks BY <1>0 DEF HandsTypes, Locals
<1>2. GivenOut(l.task) BY <1>1, Held
<1>3. l.task = <<Tid(l), Tsk(l)>> /\ Tid(l) \in Rows /\ Tsk(l) \in 0 .. NData - 1
      BY <1>1 DEF Tasks, Tid, Tsk
<1>4. Tid(l) < m_nTasks /\ Tsk(l) \in p.completed .. p.working - 1 BY <1>2 DEF GivenOut, Tid, Tsk
<1>5. m_nTasks \in Nat BY Worker
<1>6. p.completed \in 0 .. NData /\ p.working \in 0 .. NData BY <1>0, <1>3, Kinds
<1>7. Tid(l) \in Nat /\ Tid(l) \in Added BY <1>3, <1>4, <1>5, Sizes, SMT DEF Rows, Added
<1>8. AnyOrder(l) \/ p.working <= p.completed + 1
      BY <1>0, <1>3, <1>7, Kinds DEF RowsInOrder, AnyOrder
<1> HIDE DEF p
<1>9. /\ Tsk(l) \in Nat /\ Tsk(l) < NData /\ p.completed \in Nat /\ p.working \in Nat
      /\ p.completed <= Tsk(l) /\ Tsk(l) < p.working /\ p.working <= NData
      /\ p.working <= p.completed + 1 => p.completed = Tsk(l) /\ p.working = Tsk(l) + 1
      BY <1>3, <1>4, <1>6, Sizes, SMT
<1> QED BY <1>1, <1>2, <1>3, <1>4, <1>7, <1>8, <1>9 DEF p

-----------------------------------------------------------------------------
(* mpCTaskComplete past its spin: the piece is the next to be completed.   *)
Ready(l) ==
  /\ l \in Locals /\ l.task # NoTask /\ l.max <= m_nTasks
  /\ l.site = "forward" => l.x <= m_nTasks
  /\ l.seen.completed <= progress[Tid(l)].completed
  /\ progress[Tid(l)].completed = Tsk(l)
  /\ AnyOrder(l) \/ (l.seen = progress[Tid(l)] /\ l.seen.completed + 1 = l.seen.working)
  /\ l.max = Tid(l) => AnyOrder(l) \/ m_max = l.max

LEMMA PublishOK ==
  ASSUME NEW l, Ready(l)
  PROVE  OK(Publish(l)) /\ Publish(l).task = l.task
<1> DEFINE b == Goto(l, "publish")
<1>1. Publish(l) = b BY DEF Ready, Publish
<1>2. /\ b \in Locals /\ b.pc = "publish" /\ b.site = l.site /\ b.task = l.task
      /\ b.max = l.max /\ b.x = l.x /\ b.seen = l.seen
      BY GotoIs DEF Ready, PCs
<1>3. Tid(b) = Tid(l) /\ Tsk(b) = Tsk(l) /\ (AnyOrder(b) <=> AnyOrder(l))
      BY <1>2 DEF Tid, Tsk, AnyOrder
<1> HIDE DEF b
<1>4. InTable(b) BY <1>2 DEF Ready, InTable, Looking, AfterRun
<1>5. InHand(b) BY <1>2 DEF Ready, InHand, Handless, Looking, AfterRun
<1>6. AsRead(b) BY <1>2, <1>3 DEF Ready, AsRead, AfterRun
<1> QED BY <1>1, <1>2, <1>4, <1>5, <1>6 DEF OK

LEMMA PastMinOK ==
  ASSUME NEW l, Ready(l)
  PROVE  OK(PastMin(l)) /\ PastMin(l).task = l.task
<1> DEFINE k == IF l.seen.working = NData THEN [l EXCEPT !.min = @ + 1] ELSE l
           b == Goto(k, "raise")
<1>1. l \in Locals /\ l.min \in Nat BY DEF Ready, Locals
<1>2. /\ k \in Locals /\ k.pc = l.pc /\ k.site = l.site /\ k.task = l.task
      /\ k.max = l.max /\ k.x = l.x /\ k.seen = l.seen
  <2>1. l.min + 1 \in Nat BY <1>1, SMT
  <2>2. CASE l.seen.working = NData BY <1>1, <2>1, <2>2 DEF Locals
  <2>3. CASE l.seen.working # NData BY <1>1, <2>3
  <2> QED BY <2>2, <2>3
<1>3. Tid(k) = Tid(l) /\ Tsk(k) = Tsk(l) /\ (AnyOrder(k) <=> AnyOrder(l))
      BY <1>2 DEF Tid, Tsk, AnyOrder
<1>4. PastMin(l) = IF Tid(l) = l.max THEN b ELSE Publish(k) BY DEF PastMin
<1> HIDE DEF k
<1>5. Ready(k) BY <1>2, <1>3 DEF Ready
<1>6. CASE Tid(l) = l.max
  <2>1. /\ b \in Locals /\ b.pc = "raise" /\ b.site = k.site /\ b.task = k.task
        /\ b.max = k.max /\ b.x = k.x /\ b.seen = k.seen
        BY <1>2, GotoIs DEF PCs
  <2>2. Tid(b) = Tid(k) /\ Tsk(b) = Tsk(k) /\ (AnyOrder(b) <=> AnyOrder(k))
        BY <2>1 DEF Tid, Tsk, AnyOrder
  <2> HIDE DEF b
  <2>3. InTable(b) BY <2>1, <1>5 DEF Ready, InTable, Looking, AfterRun
  <2>4. InHand(b) BY <2>1, <1>5 DEF Ready, InHand, Handless, Looking, AfterRun
  <2>5. b.max = Tid(b) BY <1>2, <1>3, <1>6, <2>1, <2>2
  <2>6. AsRead(b) BY <2>1, <2>2, <2>5, <1>5 DEF Ready, AsRead, AfterRun
  <2> QED BY <1>2, <1>4, <1>6, <2>1, <2>3, <2>4, <2>6 DEF OK
<1>7. CASE Tid(l) # l.max BY <1>2, <1>4, <1>5, <1>7, PublishOK
<1> QED BY <1>6, <1>7

(* The progress read is what decides whether to spin: a worker whose turn  *)
(* it was then still has it.                                               *)
LEMMA PastSpinOK ==
  ASSUME HandsInv, running, NEW w \in Workers, NEW l \in Locals,
         loc[w].task # NoTask, l.task = loc[w].task, l.max <= m_nTasks,
         l.site = "forward" => l.x <= m_nTasks,
         l.seen.completed <= progress[Tid(l)].completed,
         AnyOrder(l) \/ l.seen = progress[Tid(l)],
         l.min = Tid(l) => AnyOrder(l) \/ m_min = l.min,
         l.max = Tid(l) => AnyOrder(l) \/ m_max = l.max
  PROVE  OK(PastSpin(l)) /\ PastSpin(l).task = l.task
<1> DEFINE p == progress[Tid(l)]
<1>1. /\ p.completed \in Nat /\ p.working \in Nat /\ p.completed <= Tsk(l) /\ Tsk(l) \in Nat
      /\ AnyOrder(l) \/ (p.completed = Tsk(l) /\ p.working = Tsk(l) + 1)
  <2>1. /\ Tid(l) = Tid(loc[w]) /\ Tsk(l) = Tsk(loc[w]) /\ (AnyOrder(l) <=> AnyOrder(loc[w]))
        BY DEF Tid, Tsk, AnyOrder
  <2> QED BY <2>1, Own
<1>2. l.seen \in Progress BY DEF Locals
<1>3. l.seen.completed \in Nat BY <1>2, Sizes, SMT DEF Progress
<1>4. CASE AnyOrder(l) /\ l.seen.completed # Tsk(l)
  <2> DEFINE b == Goto(l, "spin")
  <2>1. /\ b \in Locals /\ b.pc = "spin" /\ b.site = l.site /\ b.task = l.task
        /\ b.max = l.max /\ b.x = l.x /\ b.seen = l.seen
        BY GotoIs DEF PCs
  <2>2. Tid(b) = Tid(l) /\ (AnyOrder(b) <=> AnyOrder(l)) BY <2>1 DEF Tid, AnyOrder
  <2>3. PastSpin(l) = b BY <1>4 DEF PastSpin
  <2> HIDE DEF b
  <2>4. InTable(b) BY <2>1 DEF InTable, Looking, AfterRun
  <2>5. InHand(b) BY <2>1 DEF InHand, Handless, Looking, AfterRun
  <2>6. AsRead(b) BY <2>1, <2>2, <1>4 DEF AsRead, AfterRun
  <2> QED BY <2>1, <2>3, <2>4, <2>5, <2>6 DEF OK
<1>5. CASE ~(AnyOrder(l) /\ l.seen.completed # Tsk(l))
  <2>1. p.completed = Tsk(l)
    <3>1. CASE AnyOrder(l)
      <4>1. l.seen.completed = Tsk(l) BY <1>5, <3>1
      <4> HIDE DEF p
      <4>2. l.seen.completed <= p.completed BY DEF p
      <4> QED BY <1>1, <1>3, <4>1, <4>2, SMT
    <3>2. CASE ~AnyOrder(l) BY <1>1, <3>2
    <3> QED BY <3>1, <3>2
  <2>2. Ready(l) BY <1>1, <2>1 DEF Ready
  <2>3. CASE l.seen.working = NData /\ l.min = Tid(l)
    <3> DEFINE b == Goto(l, "shrink")
    <3>1. /\ b \in Locals /\ b.pc = "shrink" /\ b.site = l.site /\ b.task = l.task
          /\ b.max = l.max /\ b.x = l.x /\ b.seen = l.seen /\ b.min = l.min
          BY GotoIs DEF PCs
    <3>2. Tid(b) = Tid(l) /\ Tsk(b) = Tsk(l) /\ (AnyOrder(b) <=> AnyOrder(l))
          BY <3>1 DEF Tid, Tsk, AnyOrder
    <3>3. PastSpin(l) = b BY <1>5, <2>3 DEF PastSpin
    <3> HIDE DEF b
    <3>4. InTable(b) BY <3>1 DEF InTable, Looking, AfterRun
    <3>5. InHand(b) BY <3>1 DEF InHand, Handless, Looking, AfterRun
    <3>6. AsRead(b) BY <3>1, <3>2, <2>1, <2>3 DEF AsRead, AfterRun
    <3> QED BY <3>1, <3>3, <3>4, <3>5, <3>6 DEF OK
  <2>4. CASE ~(l.seen.working = NData /\ l.min = Tid(l))
    <3>1. PastSpin(l) = PastMin(l) BY <1>5, <2>4 DEF PastSpin
    <3> QED BY <2>2, <3>1, PastMinOK
  <2> QED BY <2>3, <2>4
<1> QED BY <1>4, <1>5

-----------------------------------------------------------------------------
(* The steps of mpCTaskObtain that write nothing, or nothing that pieces   *)
(* depend on.                                                              *)

LEMMA Scanning ==
  ASSUME HandsInv, running, NEW w \in Workers, loc[w].pc \in Looking
  PROVE  LET l == loc[w]
         IN  /\ l \in Locals /\ l.task = NoTask /\ m_nTasks \in Nat
             /\ l.max < m_nTasks /\ l.max <= m_nTasks /\ l.x < m_nTasks /\ l.x <= m_nTasks
             /\ l.site = "obtain" => l.hi < m_nTasks /\ l.last \in 1 .. m_nTasks
             /\ l.x \in Rows /\ l.x \in Nat /\ l.x \in Added
             /\ OK(Missed(l)) /\ Missed(l).task = l.task
<1> DEFINE l == loc[w]
<1>1. OK(l) /\ m_nTasks \in Nat BY Worker
<1>2. l \in Locals /\ l.max < m_nTasks /\ l.max <= m_nTasks /\ l.x < m_nTasks /\ l.task = NoTask
      /\ (l.site = "obtain" => l.hi < m_nTasks /\ l.last \in 1 .. m_nTasks)
      BY <1>1 DEF OK, InTable, InHand, Looking, Handless, AfterRun
<1>3. l.x \in Rows /\ l.x <= m_nTasks /\ l.x \in Nat /\ l.x \in Added
  <2>1. l.x \in Nat BY <1>2 DEF Locals
  <2>2. m_nTasks \in 0 .. MaxTasks BY DEF HandsInv, HandsTypes
  <2> QED BY <1>2, <2>1, <2>2, Sizes, SMT DEF Rows, Added
<1>4. OK(Missed(l)) /\ Missed(l).task = l.task BY <1>1, <1>2, <1>3, MissedOK
<1> QED BY <1>1, <1>2, <1>3, <1>4

(* The scan of a row goes on with what was read of it.                     *)
LEMMA ScanOK ==
  ASSUME HandsInv, running, NEW w \in Workers, loc[w].pc \in Looking, NEW b \in Locals,
         b.site = loc[w].site, b.task = loc[w].task, b.max = loc[w].max, b.x = loc[w].x,
         b.hi = loc[w].hi, b.last = loc[w].last,
         b.pc \in {"cache", "above", "take"}, Open(b.x, b.seen)
  PROVE  OK(b)
<1>1. InTable(b) BY Scanning DEF InTable, AfterRun
<1>2. InHand(b) BY Scanning DEF InHand, AfterRun
<1>3. AsRead(b) BY DEF AsRead, AfterRun
<1> QED BY <1>1, <1>2, <1>3 DEF OK

LEMMA LookAtKeeps ==
  ASSUME HandsInv, NEW w \in Workers, LookAt(w)
  PROVE  HandsInv'
<1> DEFINE l == loc[w]
           p == progress[l.x]
           b == [l EXCEPT !.pc = "cache", !.seen = p]
<1>1. running /\ l.pc = "look" /\ l.pc \in Looking BY DEF LookAt, At, Looking
<1>2. CASE Open(l.x, p)
  <2>1. p \in Progress BY <1>1, Scanning, Kinds DEF HandsInv
  <2>2. b \in Locals
    <3>1. l \in Locals BY <1>1, Scanning
    <3> HIDE DEF l
    <3> QED BY <2>1, <3>1 DEF Locals, PCs
  <2>3. /\ b.pc = "cache" /\ b.seen = p /\ b.site = l.site /\ b.task = l.task /\ b.max = l.max
        /\ b.x = l.x /\ b.hi = l.hi /\ b.last = l.last
        BY <1>1, Scanning DEF Locals
  <2>4. Becomes(w, b) /\ UNCHANGED Private BY <1>2 DEF LookAt
  <2> HIDE DEF b
  <2>5. OK(b) BY <1>1, <1>2, <2>2, <2>3, ScanOK
  <2> QED BY <1>1, <2>3, <2>4, <2>5, Reads
<1>3. CASE ~Open(l.x, p)
  <2>1. Becomes(w, Missed(l)) /\ UNCHANGED Private BY <1>3 DEF LookAt
  <2> QED BY <1>1, <2>1, Scanning, Reads
<1> QED BY <1>2, <1>3

LEMMA LookAtCacheKeeps ==
  ASSUME HandsInv, NEW w \in Workers, LookAtCache(w)
  PROVE  HandsInv'
<1> DEFINE l == loc[w]
           p == IF l.x = 0 THEN "take" ELSE "above"
           b == [l EXCEPT !.pc = p, !.cs = m_nCacheStart]
<1>1. running /\ l.pc = "cache" /\ l.pc \in Looking BY DEF LookAtCache, At, Looking
<1>2. CASE ~OutsideCache(l.seen.working, m_nCacheStart)
  <2>1. m_nCacheStart \in Nat
    <3>1. m_nCacheStart \in 0 .. NData BY DEF HandsInv, HandsTypes
    <3> QED BY <3>1, Sizes, SMT
  <2>2. b \in Locals
    <3>1. l \in Locals BY <1>1, Scanning
    <3> HIDE DEF l
    <3> QED BY <2>1, <3>1 DEF Locals, PCs
  <2>3. /\ b.pc = p /\ b.seen = l.seen /\ b.site = l.site /\ b.task = l.task /\ b.max = l.max
        /\ b.x = l.x /\ b.hi = l.hi /\ b.last = l.last
        BY <1>1, Scanning DEF Locals
  <2>4. Becomes(w, b) /\ UNCHANGED Private BY <1>2 DEF LookAtCache
  <2>5. Open(l.x, l.seen) BY <1>1, Worker DEF OK, AsRead
  <2>6. p \in {"cache", "above", "take"} OBVIOUS
  <2> HIDE DEF b, p
  <2>7. OK(b) BY <1>1, <2>2, <2>3, <2>5, <2>6, ScanOK
  <2> QED BY <1>1, <2>3, <2>4, <2>7, Reads
<1>3. CASE OutsideCache(l.seen.working, m_nCacheStart)
  <2>1. Becomes(w, Missed(l)) /\ UNCHANGED Private BY <1>3 DEF LookAtCache
  <2> QED BY <1>1, <2>1, Scanning, Reads
<1> QED BY <1>2, <1>3

LEMMA LookAboveKeeps ==
  ASSUME HandsInv, NEW w \in Workers, LookAbove(w)
  PROVE  HandsInv'
<1> DEFINE l == loc[w]
           b == Goto(l, "take")
<1>1. running /\ l.pc = "above" /\ l.pc \in Looking BY DEF LookAbove, At, Looking
<1>2. CASE Becomes(w, b) /\ UNCHANGED Private
  <2>1. b \in Locals /\ b.pc = "take" /\ b.seen = l.seen /\ b.site = l.site /\ b.task = l.task
        /\ b.max = l.max /\ b.x = l.x /\ b.hi = l.hi /\ b.last = l.last
        BY <1>1, Scanning, GotoIs DEF PCs
  <2>2. Open(l.x, l.seen) BY <1>1, Worker DEF OK, AsRead
  <2> HIDE DEF b
  <2>3. OK(b) BY <1>1, <2>1, <2>2, ScanOK
  <2> QED BY <1>1, <1>2, <2>1, <2>3, Reads
<1>3. CASE Becomes(w, Missed(l)) /\ UNCHANGED Private BY <1>1, <1>3, Scanning, Reads
<1> QED BY <1>2, <1>3 DEF LookAbove

(* The cache region moves by one, up to the last piece at most.            *)
LEMMA AdvanceCacheKeeps ==
  ASSUME HandsInv, NEW w \in Workers, AdvanceCache(w)
  PROVE  HandsInv'
<1> DEFINE l == loc[w]
<1>1. running /\ l.pc = "advance" BY DEF AdvanceCache, At
<1>2. OK(l) /\ m_nTasks \in Nat BY <1>1, Worker
<1>3. l \in Locals /\ l.task # NoTask /\ l.max < m_nTasks /\ l.cs < NData
      /\ (l.site = "forward" => l.x <= m_nTasks)
      BY <1>1, <1>2 DEF OK, InTable, InHand, AsRead, AfterRun
<1>4. OK(Found(l)) /\ Found(l).task = l.task BY <1>2, <1>3, FoundOK
<1>5. m_nCacheStart' \in 0 .. NData
  <2>1. m_nCacheStart \in 0 .. NData BY DEF HandsInv, HandsTypes
  <2>2. l.cs \in Nat BY <1>3 DEF Locals
  <2>3. m_nCacheStart' = l.cs + 1 \/ m_nCacheStart' = m_nCacheStart BY DEF AdvanceCache
  <2> QED BY <2>1, <2>2, <2>3, <1>3, Sizes, SMT
<1>6. Becomes(w, Found(l)) /\ UNCHANGED <<rows, bounds, progress, running, r_q>>
      BY DEF AdvanceCache
<1>7. m_nBlocking' \in Int /\ m_mutex' \in Workers \cup {Nobody}
      BY DEF AdvanceCache, HandsInv, HandsTypes
<1> QED BY <1>1, <1>4, <1>5, <1>6, <1>7, Quiet

(* Another access, with what is known already.                             *)
LEMMA GoesOK ==
  ASSUME NEW l \in Locals, l.max < m_nTasks, l.max <= m_nTasks,
         l.site = "forward" => l.x <= m_nTasks,
         NEW p \in {"last", "quit", "block", "pop", "announce", "lock", "again", "unlock"},
         p \in Handless => l.task = NoTask, p = "last" => l.last \in 1 .. m_nTasks,
         p \in {"lock", "again"} => l.site # "forward", p = "unlock" => l.site = "forward"
  PROVE  OK(Goto(l, p)) /\ Goto(l, p).task = l.task
<1> DEFINE b == Goto(l, p)
<1>1. /\ b \in Locals /\ b.pc = p /\ b.site = l.site /\ b.task = l.task /\ b.max = l.max
      /\ b.x = l.x /\ b.last = l.last
      BY GotoIs DEF PCs
<1> HIDE DEF b
<1>2. InTable(b) BY <1>1 DEF InTable, Looking
<1>3. InHand(b) BY <1>1 DEF InHand, AfterRun
<1>4. AsRead(b) BY <1>1, Relaxed DEF AfterRun
<1> QED BY <1>1, <1>2, <1>3, <1>4 DEF OK, b

(* What holds of a worker that is not completing a piece.                  *)
LEMMA Elsewhere ==
  ASSUME HandsInv, running, NEW w \in Workers, loc[w].pc \notin AfterRun \cup {"span"}
  PROVE  LET l == loc[w]
         IN  /\ OK(l) /\ l \in Locals /\ m_nTasks \in Nat /\ l.max < m_nTasks /\ l.max <= m_nTasks
             /\ l.site = "forward" => l.x <= m_nTasks
             /\ l.pc \in Handless => l.task = NoTask
<1>1. OK(loc[w]) /\ m_nTasks \in Nat BY Worker
<1> QED BY <1>1 DEF OK, InTable, InHand

LEMMA StartKeeps ==
  ASSUME HandsInv, NEW w \in Workers, Start(w)
  PROVE  HandsInv'
<1> DEFINE l == loc[w]
<1>1. running /\ l.pc = "start" BY DEF Start, At
<1>2. l.pc \notin AfterRun \cup {"span"} /\ l.pc \in Handless BY <1>1 DEF AfterRun, Handless
<1>3. OK(CallObtain(l, "run")) /\ CallObtain(l, "run").task = l.task
      BY <1>1, <1>2, Elsewhere, CallOK
<1>4. Becomes(w, CallObtain(l, "run")) /\ UNCHANGED Private BY DEF Start
<1> QED BY <1>1, <1>3, <1>4, Reads

LEMMA ReadCountKeeps ==
  ASSUME HandsInv, NEW w \in Workers, ReadCount(w)
  PROVE  HandsInv'
<1> DEFINE l == loc[w]
           b == [l EXCEPT !.pc = "from", !.last = m_nTasks]
<1>1. running /\ l.pc = "count" BY DEF ReadCount, At
<1>2. l.pc \notin AfterRun \cup {"span"} /\ l.pc \in Handless BY <1>1 DEF AfterRun, Handless
<1>3. /\ l \in Locals /\ m_nTasks \in Nat /\ l.max < m_nTasks /\ l.max <= m_nTasks
      /\ (l.site = "forward" => l.x <= m_nTasks) /\ l.task = NoTask
      BY <1>1, <1>2, Elsewhere
<1>4. m_nTasks \in 1 .. m_nTasks BY <1>1, Worker, SMT
<1>5. b \in Locals BY <1>3 DEF Locals, PCs
<1>6. /\ b.pc = "from" /\ b.site = l.site /\ b.task = l.task /\ b.max = l.max
      /\ b.x = l.x /\ b.last = m_nTasks
      BY <1>3 DEF Locals
<1>7. Becomes(w, b) /\ UNCHANGED Private BY DEF ReadCount
<1> HIDE DEF b
<1>8. InTable(b) BY <1>3, <1>4, <1>6 DEF InTable, Looking
<1>9. InHand(b) BY <1>3, <1>6 DEF InHand, AfterRun
<1>10. AsRead(b) BY <1>6, Relaxed DEF AfterRun
<1>11. OK(b) BY <1>5, <1>8, <1>9, <1>10 DEF OK
<1> QED BY <1>1, <1>6, <1>7, <1>11, Reads

LEMMA ReadFromKeeps ==
  ASSUME HandsInv, NEW w \in Workers, ReadFrom(w)
  PROVE  HandsInv'
<1> DEFINE l == loc[w]
           b == [l EXCEPT !.pc = "to", !.lo = m_min]
<1>1. running /\ l.pc = "from" BY DEF ReadFrom, At
<1>2. l.pc \notin AfterRun \cup {"span"} /\ l.pc \in Handless BY <1>1 DEF AfterRun, Handless
<1>3. /\ l \in Locals /\ m_nTasks \in Nat /\ l.max < m_nTasks /\ l.max <= m_nTasks
      /\ (l.site = "forward" => l.x <= m_nTasks) /\ l.task = NoTask /\ InTable(l)
      BY <1>1, <1>2, Elsewhere DEF OK
<1>4. l.last \in 1 .. m_nTasks BY <1>1, <1>3 DEF InTable
<1>5. b \in Locals
  <2>1. m_min \in 0 .. m_nTasks BY DEF HandsInv, HandsTypes
  <2>2. m_min \in Nat BY <1>3, <2>1, SMT
  <2> QED BY <1>3, <2>2 DEF Locals, PCs
<1>6. /\ b.pc = "to" /\ b.site = l.site /\ b.task = l.task /\ b.max = l.max
      /\ b.x = l.x /\ b.last = l.last
      BY <1>3 DEF Locals
<1>7. Becomes(w, b) /\ UNCHANGED Private BY DEF ReadFrom
<1> HIDE DEF b
<1>8. InTable(b) BY <1>3, <1>4, <1>6 DEF InTable, Looking
<1>9. InHand(b) BY <1>3, <1>6 DEF InHand, AfterRun
<1>10. AsRead(b) BY <1>6, Relaxed DEF AfterRun
<1>11. OK(b) BY <1>5, <1>8, <1>9, <1>10 DEF OK
<1> QED BY <1>1, <1>6, <1>7, <1>11, Reads

(* The scan goes no further than the rows that had been added.             *)
LEMMA ReadToKeeps ==
  ASSUME HandsInv, NEW w \in Workers, ReadTo(w)
  PROVE  HandsInv'
<1> DEFINE l == loc[w]
           hi == Lesser(m_max + 1, l.last - 1)
           k == [l EXCEPT !.hi = hi]
<1>1. running /\ l.pc = "to" BY DEF ReadTo, At
<1>2. l.pc \notin AfterRun \cup {"span"} /\ l.pc \in Handless BY <1>1 DEF AfterRun, Handless
<1>3. /\ l \in Locals /\ m_nTasks \in Nat /\ l.max < m_nTasks /\ l.max <= m_nTasks
      /\ (l.site = "forward" => l.x <= m_nTasks) /\ l.task = NoTask /\ InTable(l)
      BY <1>1, <1>2, Elsewhere DEF OK
<1>4. l.last \in 1 .. m_nTasks /\ l.lo \in Nat BY <1>1, <1>3 DEF InTable, Locals
<1>5. CASE l.lo <= hi
  <2>1. m_max \in Nat
    <3>1. m_max \in 0 .. m_nTasks BY DEF HandsInv, HandsTypes
    <3> QED BY <1>3, <3>1, SMT
  <2>2. hi \in Nat /\ hi < m_nTasks /\ l.lo < m_nTasks
    <3>1. hi <= l.last - 1 /\ hi \in Int BY <1>3, <1>4, <2>1, SMT DEF Lesser
    <3> HIDE DEF hi
    <3> QED BY <1>3, <1>4, <1>5, <3>1, SMT
  <2> HIDE DEF hi
  <2>3. k \in Locals BY <1>3, <2>2 DEF Locals
  <2>4. k.task = l.task /\ k.max = l.max /\ k.last = l.last /\ k.hi = hi
        BY <1>3 DEF Locals
  <2>5. Becomes(w, Look(k, l.lo)) /\ UNCHANGED Private BY <1>5 DEF ReadTo, hi
  <2> HIDE DEF k
  <2>6. OK(Look(k, l.lo)) /\ Look(k, l.lo).task = l.task
        BY <1>3, <1>4, <2>2, <2>3, <2>4, LookOK
  <2> QED BY <1>1, <2>5, <2>6, Reads
<1>6. CASE ~(l.lo <= hi)
  <2>1. Becomes(w, Goto(l, "last")) /\ UNCHANGED Private BY <1>6 DEF ReadTo
  <2>2. OK(Goto(l, "last")) /\ Goto(l, "last").task = l.task BY <1>3, <1>4, GoesOK
  <2> QED BY <1>1, <2>1, <2>2, Reads
<1> QED BY <1>5, <1>6

LEMMA LookAtLastKeeps ==
  ASSUME HandsInv, NEW w \in Workers, LookAtLast(w)
  PROVE  HandsInv'
<1> DEFINE l == loc[w]
           p == IF progress[l.last - 1].completed = NData THEN "quit" ELSE "block"
<1>1. running /\ l.pc = "last" BY DEF LookAtLast, At
<1>2. l.pc \notin AfterRun \cup {"span"} /\ l.pc \in Handless BY <1>1 DEF AfterRun, Handless
<1>3. Becomes(w, Goto(l, p)) /\ UNCHANGED Private BY DEF LookAtLast
<1>4. p = "quit" \/ p = "block" OBVIOUS
<1> HIDE DEF p
<1>5. OK(Goto(l, p)) /\ Goto(l, p).task = l.task BY <1>1, <1>2, <1>4, Elsewhere, GoesOK
<1> QED BY <1>1, <1>3, <1>5, Reads

LEMMA QuitsKeeps ==
  ASSUME HandsInv, NEW w \in Workers, Quits(w)
  PROVE  HandsInv'
<1> DEFINE l == loc[w]
           b == IF m_nBlocking >= 0 THEN Goto(l, "announce") ELSE BackFromObtain(l)
<1>1. running /\ l.pc = "quit" BY DEF Quits, At
<1>2. l.pc \notin AfterRun \cup {"span"} /\ l.pc \in Handless BY <1>1 DEF AfterRun, Handless
<1>3. /\ Becomes(w, b) /\ m_nBlocking' = -100
      /\ UNCHANGED <<rows, bounds, m_nCacheStart, progress, m_mutex, r_q, running>>
      BY DEF Quits
<1>4. OK(b) /\ b.task = l.task
  <2>1. OK(Goto(l, "announce")) /\ Goto(l, "announce").task = l.task
        BY <1>1, <1>2, Elsewhere, GoesOK
  <2>2. OK(BackFromObtain(l)) /\ BackFromObtain(l).task = l.task
        BY <1>1, <1>2, Elsewhere, BackOK
  <2> QED BY <2>1, <2>2
<1>5. /\ m_nCacheStart' \in 0 .. NData /\ m_nBlocking' \in Int
      /\ m_mutex' \in Workers \cup {Nobody}
      BY <1>3, SMT DEF HandsInv, HandsTypes
<1> HIDE DEF b
<1> QED BY <1>1, <1>3, <1>4, <1>5, Quiet

LEMMA BlockKeeps ==
  ASSUME HandsInv, NEW w \in Workers, Block(w)
  PROVE  HandsInv'
<1> DEFINE l == loc[w]
           b == Goto(l, "pop")
<1>1. running /\ l.pc = "block" BY DEF Block, At
<1>2. l.pc \notin AfterRun \cup {"span"} /\ l.pc \in Handless BY <1>1 DEF AfterRun, Handless
<1>3. /\ Becomes(w, b) /\ m_nBlocking' = m_nBlocking + 1
      /\ UNCHANGED <<rows, bounds, m_nCacheStart, progress, m_mutex, r_q, running>>
      BY DEF Block
<1>4. OK(b) /\ b.task = l.task BY <1>1, <1>2, Elsewhere, GoesOK
<1>5. m_nBlocking' \in Int
  <2>1. m_nBlocking \in Int BY DEF HandsInv, HandsTypes
  <2> QED BY <1>3, <2>1, SMT
<1>6. m_nCacheStart' \in 0 .. NData /\ m_mutex' \in Workers \cup {Nobody}
      BY <1>3 DEF HandsInv, HandsTypes
<1> HIDE DEF b
<1> QED BY <1>1, <1>3, <1>4, <1>5, <1>6, Quiet

-----------------------------------------------------------------------------
(* Forwarding, but for the push.                                           *)

LEMMA SpanKeeps ==
  ASSUME HandsInv, NEW w \in Workers, Span(w)
  PROVE  HandsInv'
<1> DEFINE l == loc[w]
           max == Lesser(l.max + 1, m_nTasks - 1)
           s == Lesser(IF l.x < l.min THEN l.min ELSE l.x, max)
           k == [Fresh EXCEPT !.site = "near", !.lo = s, !.min = l.min, !.max = max]
           x == Lesser(s + 1, max)
<1>1. running /\ l.pc = "span" BY DEF Span, At
<1>2. Becomes(w, Look(k, x)) /\ UNCHANGED Private BY DEF Span
<1>3. OK(l) /\ m_nTasks > 0 /\ m_nTasks \in Nat BY <1>1, Worker
<1>4. l.task = NoTask /\ l.max \in Nat /\ l.min \in Nat /\ l.x \in Nat
      BY <1>1, <1>3 DEF OK, InHand, Handless, Locals
<1>5. max \in Nat /\ max < m_nTasks BY <1>3, <1>4, SMT DEF Lesser
<1> HIDE DEF max
<1>6. s \in Nat BY <1>4, <1>5, SMT DEF Lesser
<1>7. x \in Nat /\ x < m_nTasks
  <2> HIDE DEF s
  <2> QED BY <1>3, <1>5, <1>6, SMT DEF Lesser
<1> HIDE DEF s, x, l
<1>8. k \in Locals BY <1>4, <1>5, <1>6, Constants DEF Fresh, Locals, PCs, Sites
<1>9. k.task = NoTask /\ k.site = "near" /\ k.max = max BY DEF Fresh
<1> HIDE DEF k
<1>10. OK(Look(k, x)) /\ Look(k, x).task = NoTask BY <1>3, <1>5, <1>7, <1>8, <1>9, LookOK
<1> QED BY <1>1, <1>2, <1>4, <1>10, Reads DEF l

LEMMA SignalKeeps ==
  ASSUME HandsInv, NEW w \in Workers, Signal(w)
  PROVE  HandsInv'
<1> DEFINE l == loc[w]
<1>1. running /\ l.pc = "signal" BY DEF Signal, At
<1>2. l.pc \notin AfterRun \cup {"span"} BY <1>1 DEF AfterRun
<1>3. l.site # "forward" BY <1>1, <1>2, Elsewhere DEF OK, InHand
<1>4. CASE Becomes(w, Goto(l, "lock")) /\ UNCHANGED Private
  <2>1. OK(Goto(l, "lock")) /\ Goto(l, "lock").task = l.task
        BY <1>1, <1>2, <1>3, Elsewhere, GoesOK DEF Handless, Looking
  <2> QED BY <1>1, <1>4, <2>1, Reads
<1>5. CASE Becomes(w, Returned(l)) /\ UNCHANGED Private
  <2>1. OK(Returned(l)) /\ Returned(l).task = l.task
        BY <1>1, <1>2, Elsewhere, ReturnedOK
  <2> QED BY <1>1, <1>5, <2>1, Reads
<1> QED BY <1>4, <1>5 DEF Signal

LEMMA LockKeeps ==
  ASSUME HandsInv, NEW w \in Workers, Lock(w)
  PROVE  HandsInv'
<1> DEFINE l == loc[w]
<1>1. running /\ l.pc = "lock" BY DEF Lock, At
<1>2. l.pc \notin AfterRun \cup {"span"} BY <1>1 DEF AfterRun
<1>3. l.site # "forward" BY <1>1, <1>2, Elsewhere DEF OK, InHand
<1>4. OK(Goto(l, "again")) /\ Goto(l, "again").task = l.task
      BY <1>1, <1>2, <1>3, Elsewhere, GoesOK DEF Handless, Looking
<1>5. /\ Becomes(w, Goto(l, "again")) /\ m_mutex' = w
      /\ UNCHANGED <<rows, bounds, m_nCacheStart, m_nBlocking, progress, r_q, running>>
      BY DEF Lock
<1>6. /\ m_nCacheStart' \in 0 .. NData /\ m_nBlocking' \in Int
      /\ m_mutex' \in Workers \cup {Nobody}
      BY <1>5 DEF HandsInv, HandsTypes
<1> QED BY <1>1, <1>4, <1>5, <1>6, Quiet

LEMMA SignalAgainKeeps ==
  ASSUME HandsInv, NEW w \in Workers, SignalAgain(w)
  PROVE  HandsInv'
<1> DEFINE l == loc[w]
           b == [l EXCEPT !.pc = "give", !.v = m_nBlocking]
<1>1. running /\ l.pc = "again" BY DEF SignalAgain, At
<1>2. l.pc \notin AfterRun \cup {"span"} BY <1>1 DEF AfterRun
<1>3. /\ l \in Locals /\ l.site # "forward" /\ l.max < m_nTasks /\ l.max <= m_nTasks
      BY <1>1, <1>2, Elsewhere DEF OK, InHand
<1>4. /\ UNCHANGED <<rows, bounds, m_nCacheStart, m_nBlocking, progress, r_q, running>>
      /\ m_mutex' = Nobody \/ m_mutex' = m_mutex
      BY DEF SignalAgain
<1>5. /\ m_nCacheStart' \in 0 .. NData /\ m_nBlocking' \in Int /\ m_nBlocking \in Int
      /\ m_mutex' \in Workers \cup {Nobody}
      BY <1>4 DEF HandsInv, HandsTypes
<1>6. CASE Becomes(w, Returned(l))
  <2>1. OK(Returned(l)) /\ Returned(l).task = l.task
        BY <1>1, <1>2, Elsewhere, ReturnedOK
  <2> QED BY <1>1, <1>4, <1>5, <1>6, <2>1, Quiet
<1>7. CASE Becomes(w, b)
  <2>1. b \in Locals BY <1>3, <1>5 DEF Locals, PCs
  <2>2. b.pc = "give" /\ b.site = l.site /\ b.task = l.task /\ b.max = l.max BY <1>3 DEF Locals
  <2> HIDE DEF b
  <2>3. InTable(b) BY <1>3, <2>2 DEF InTable, Looking
  <2>4. InHand(b) BY <1>3, <2>2 DEF InHand, Handless, Looking, AfterRun
  <2>5. AsRead(b) BY <2>2, Relaxed DEF AfterRun
  <2>6. OK(b) BY <2>1, <2>3, <2>4, <2>5 DEF OK
  <2> QED BY <1>1, <1>4, <1>5, <1>7, <2>2, <2>6, Quiet
<1> QED BY <1>6, <1>7 DEF SignalAgain

LEMMA UncountKeeps ==
  ASSUME HandsInv, NEW w \in Workers, Uncount(w)
  PROVE  HandsInv'
<1> DEFINE l == loc[w]
           g == Goto(l, "give")
           k == [Fresh EXCEPT !.site = "forward", !.lo = l.min, !.x = l.max + 1]
<1>1. running /\ l.pc = "uncount" BY DEF Uncount, At
<1>2. l.pc \notin AfterRun \cup {"span"} BY <1>1 DEF AfterRun
<1>3. /\ l \in Locals /\ m_nTasks \in Nat /\ l.max < m_nTasks /\ l.max <= m_nTasks
      /\ (l.site = "forward" => l.x <= m_nTasks) /\ InHand(l)
      BY <1>1, <1>2, Elsewhere DEF OK
<1>4. /\ UNCHANGED <<rows, bounds, m_nCacheStart, progress, m_mutex, r_q, running>>
      /\ m_nBlocking' = l.v - 1 \/ m_nBlocking' = m_nBlocking
      BY DEF Uncount
<1>5. /\ m_nCacheStart' \in 0 .. NData /\ m_nBlocking \in Int
      /\ m_mutex' \in Workers \cup {Nobody}
      BY <1>4 DEF HandsInv, HandsTypes
<1>6. m_nBlocking' \in Int
  <2>1. l.v \in Int BY <1>3 DEF Locals
  <2> QED BY <1>4, <1>5, <2>1, SMT
<1>7. CASE l.site = "forward"
  <2>1. Becomes(w, g) BY <1>7 DEF Uncount
  <2>2. /\ g \in Locals /\ g.pc = "give" /\ g.site = l.site /\ g.task = l.task
        /\ g.max = l.max /\ g.x = l.x
        BY <1>3, GotoIs DEF PCs
  <2> HIDE DEF g
  <2>3. InTable(g) BY <1>3, <2>2 DEF InTable, Looking
  <2>4. InHand(g) BY <1>1, <1>3, <1>7, <2>2 DEF InHand, Handless, Looking, AfterRun
  <2>5. AsRead(g) BY <2>2, Relaxed DEF AfterRun
  <2>6. OK(g) BY <2>2, <2>3, <2>4, <2>5 DEF OK
  <2> QED BY <1>1, <1>4, <1>5, <1>6, <2>1, <2>2, <2>6, Quiet
<1>8. CASE l.site # "forward"
  <2>1. Becomes(w, Missed(k)) BY <1>8 DEF Uncount
  <2>2. l.max + 1 \in Nat /\ l.max + 1 <= m_nTasks /\ l.min \in Nat /\ 0 < m_nTasks
    <3>1. l.max \in Nat /\ l.min \in Nat BY <1>3 DEF Locals
    <3> QED BY <1>3, <3>1, SMT
  <2>3. k \in Locals BY <2>2, Constants DEF Fresh, Locals, Sites
  <2>4. k.site = "forward" /\ k.x = l.max + 1 /\ k.task = NoTask /\ k.max = 0 BY DEF Fresh
  <2> HIDE DEF k
  <2>5. OK(Missed(k)) /\ Missed(k).task = NoTask BY <1>3, <2>2, <2>3, <2>4, MissedOK
  <2>6. l.task = NoTask BY <1>1, <1>3, <1>8 DEF InHand
  <2> QED BY <1>1, <1>4, <1>5, <1>6, <2>1, <2>5, <2>6, Quiet
<1> QED BY <1>7, <1>8

LEMMA RecountKeeps ==
  ASSUME HandsInv, NEW w \in Workers, Recount(w)
  PROVE  HandsInv'
<1> DEFINE l == loc[w]
           b == [l EXCEPT !.pc = "look", !.v = m_nBlocking]
<1>1. running /\ l.pc = "recount" BY DEF Recount, At
<1>2. l.pc \notin AfterRun \cup {"span"} /\ l.pc \in Handless BY <1>1 DEF AfterRun, Handless
<1>3. /\ l \in Locals /\ m_nTasks \in Nat /\ l.max < m_nTasks /\ l.max <= m_nTasks
      /\ (l.site = "forward" => l.x <= m_nTasks) /\ l.task = NoTask /\ InTable(l)
      BY <1>1, <1>2, Elsewhere DEF OK
<1>4. l.site = "forward" /\ l.x < m_nTasks BY <1>1, <1>2, Elsewhere DEF OK, InTable, InHand
<1>5. CASE Becomes(w, b) /\ UNCHANGED Private
  <2>1. m_nBlocking \in Int BY DEF HandsInv, HandsTypes
  <2>2. b \in Locals BY <1>3, <2>1 DEF Locals, PCs
  <2>3. /\ b.pc = "look" /\ b.site = l.site /\ b.task = l.task /\ b.max = l.max
        /\ b.x = l.x
        BY <1>3 DEF Locals
  <2> HIDE DEF b
  <2>4. InTable(b) BY <1>3, <1>4, <2>3 DEF InTable, Looking
  <2>5. InHand(b) BY <1>3, <2>3 DEF InHand, AfterRun
  <2>6. AsRead(b) BY <2>3, Relaxed DEF AfterRun
  <2>7. OK(b) BY <2>2, <2>4, <2>5, <2>6 DEF OK
  <2> QED BY <1>1, <1>5, <2>3, <2>7, Reads
<1>6. CASE Becomes(w, Goto(l, "unlock")) /\ UNCHANGED Private
  <2>1. OK(Goto(l, "unlock")) /\ Goto(l, "unlock").task = l.task BY <1>3, <1>4, GoesOK
  <2> QED BY <1>1, <1>6, <2>1, Reads
<1> QED BY <1>5, <1>6 DEF Recount

LEMMA UnlockKeeps ==
  ASSUME HandsInv, NEW w \in Workers, Unlock(w)
  PROVE  HandsInv'
<1> DEFINE l == loc[w]
<1>1. running /\ l.pc = "unlock" BY DEF Unlock, At
<1>2. l.pc \notin AfterRun \cup {"span"} /\ l.pc \in Handless BY <1>1 DEF AfterRun, Handless
<1>3. l.task = NoTask /\ m_nTasks \in Nat /\ Fresh.max < m_nTasks
  <2>1. m_nTasks > 0 /\ m_nTasks \in Nat BY <1>1, Worker
  <2>2. Fresh.max = 0 BY DEF Fresh
  <2> QED BY <1>1, <1>2, <2>1, <2>2, Elsewhere
<1>4. OK(CallObtain(Fresh, "run")) /\ CallObtain(Fresh, "run").task = NoTask
      BY <1>3, Constants, CallOK
<1>5. /\ Becomes(w, CallObtain(Fresh, "run")) /\ m_mutex' = Nobody
      /\ UNCHANGED <<rows, bounds, m_nCacheStart, m_nBlocking, progress, r_q, running>>
      BY DEF Unlock
<1>6. /\ m_nCacheStart' \in 0 .. NData /\ m_nBlocking' \in Int
      /\ m_mutex' \in Workers \cup {Nobody}
      BY <1>5 DEF HandsInv, HandsTypes
<1> QED BY <1>1, <1>3, <1>4, <1>5, <1>6, Quiet

-----------------------------------------------------------------------------
(* mpCTaskComplete, where it only reads or clears the cache region.        *)

LEMMA Completing ==
  ASSUME HandsInv, running, NEW w \in Workers, loc[w].pc \in AfterRun
  PROVE  LET l == loc[w]
         IN  /\ OK(l) /\ l \in Locals /\ m_nTasks \in Nat /\ l.max <= m_nTasks
             /\ l.site = "forward" => l.x <= m_nTasks
             /\ l.task # NoTask /\ Tid(l) \in Rows
             /\ l.seen.completed <= progress[Tid(l)].completed
             /\ AnyOrder(l) \/ l.seen = progress[Tid(l)]
             /\ l.pc \in {"shrink", "clear", "raise"} => Ready(l)
<1> DEFINE l == loc[w]
<1>1. OK(l) /\ m_nTasks \in Nat BY Worker
<1>2. /\ l \in Locals /\ l.max <= m_nTasks /\ (l.site = "forward" => l.x <= m_nTasks)
      /\ l.task # NoTask /\ l.seen.completed <= progress[Tid(l)].completed
      /\ (AnyOrder(l) \/ l.seen = progress[Tid(l)])
      BY <1>1 DEF OK, InTable, InHand, AsRead
<1>3. Tid(l) \in Rows BY <1>2, Own
<1>4. ASSUME l.pc \in {"shrink", "clear", "raise"} PROVE Ready(l)
  <2>1. progress[Tid(l)].completed = Tsk(l) /\ (l.max = Tid(l) => AnyOrder(l) \/ m_max = l.max)
        BY <1>1, <1>4 DEF OK, AsRead
  <2>2. AnyOrder(l) \/ progress[Tid(l)].working = progress[Tid(l)].completed + 1
        BY <1>2, Own
  <2> QED BY <1>2, <2>1, <2>2 DEF Ready
<1> QED BY <1>1, <1>2, <1>3, <1>4

LEMMA RanKeeps ==
  ASSUME HandsInv, NEW w \in Workers, Ran(w)
  PROVE  HandsInv'
<1> DEFINE l == loc[w]
           b == [l EXCEPT !.pc = "min", !.seen = progress[Tid(l)]]
<1>1. running /\ l.pc = "run" BY DEF Ran, At
<1>2. l.pc \notin AfterRun \cup {"span"} BY <1>1 DEF AfterRun
<1>3. /\ l \in Locals /\ m_nTasks \in Nat /\ l.max <= m_nTasks
      /\ (l.site = "forward" => l.x <= m_nTasks) /\ l.task # NoTask
      BY <1>1, <1>2, Elsewhere DEF OK, InHand
<1>4. progress[Tid(l)] \in Progress /\ progress[Tid(l)].completed \in Nat
      BY <1>1, <1>3, Own, Kinds DEF HandsInv
<1>5. b \in Locals BY <1>3, <1>4 DEF Locals, PCs
<1>6. /\ b.pc = "min" /\ b.site = l.site /\ b.task = l.task /\ b.max = l.max
      /\ b.x = l.x /\ b.seen = progress[Tid(l)]
      BY <1>3 DEF Locals
<1>7. Becomes(w, b) /\ UNCHANGED Private BY DEF Ran
<1> HIDE DEF b
<1>8. Tid(b) = Tid(l) /\ (AnyOrder(b) <=> AnyOrder(l)) BY <1>6 DEF Tid, AnyOrder
<1>9. progress[Tid(l)].completed <= progress[Tid(l)].completed BY <1>4, SMT
<1>10. InTable(b) BY <1>3, <1>6 DEF InTable, Looking, AfterRun
<1>11. InHand(b) BY <1>3, <1>6 DEF InHand, Handless, Looking, AfterRun
<1>12. AsRead(b) BY <1>6, <1>8, <1>9 DEF AsRead, AfterRun
<1>13. OK(b) BY <1>5, <1>10, <1>11, <1>12 DEF OK
<1> QED BY <1>1, <1>6, <1>7, <1>13, Reads

LEMMA ReadMinKeeps ==
  ASSUME HandsInv, NEW w \in Workers, ReadMin(w)
  PROVE  HandsInv'
<1> DEFINE l == loc[w]
           b == [l EXCEPT !.pc = "max", !.min = m_min]
<1>1. running /\ l.pc = "min" /\ l.pc \in AfterRun BY DEF ReadMin, At, AfterRun
<1>2. /\ l \in Locals /\ m_nTasks \in Nat /\ l.max <= m_nTasks
      /\ (l.site = "forward" => l.x <= m_nTasks) /\ l.task # NoTask
      /\ l.seen.completed <= progress[Tid(l)].completed
      /\ (AnyOrder(l) \/ l.seen = progress[Tid(l)])
      BY <1>1, Completing
<1>3. b \in Locals
  <2>1. m_min \in 0 .. m_nTasks BY DEF HandsInv, HandsTypes
  <2>2. m_min \in Nat BY <1>2, <2>1, SMT
  <2> QED BY <1>2, <2>2 DEF Locals, PCs
<1>4. /\ b.pc = "max" /\ b.site = l.site /\ b.task = l.task /\ b.max = l.max
      /\ b.x = l.x /\ b.seen = l.seen /\ b.min = m_min
      BY <1>2 DEF Locals
<1>5. Becomes(w, b) /\ UNCHANGED Private BY DEF ReadMin
<1> HIDE DEF b
<1>6. Tid(b) = Tid(l) /\ (AnyOrder(b) <=> AnyOrder(l)) BY <1>4 DEF Tid, AnyOrder
<1>7. InTable(b) BY <1>2, <1>4 DEF InTable, Looking, AfterRun
<1>8. InHand(b) BY <1>2, <1>4 DEF InHand, Handless, Looking, AfterRun
<1>9. AsRead(b) BY <1>2, <1>4, <1>6 DEF AsRead, AfterRun
<1>10. OK(b) BY <1>3, <1>7, <1>8, <1>9 DEF OK
<1> QED BY <1>1, <1>4, <1>5, <1>10, Reads

LEMMA ReadMaxKeeps ==
  ASSUME HandsInv, NEW w \in Workers, ReadMax(w)
  PROVE  HandsInv'
<1> DEFINE l == loc[w]
           b == [l EXCEPT !.max = m_max]
<1>1. running /\ l.pc = "max" /\ l.pc \in AfterRun BY DEF ReadMax, At, AfterRun
<1>2. /\ OK(l) /\ l \in Locals /\ m_nTasks \in Nat /\ l.max <= m_nTasks
      /\ (l.site = "forward" => l.x <= m_nTasks) /\ l.task # NoTask
      /\ l.seen.completed <= progress[Tid(l)].completed
      /\ (AnyOrder(l) \/ l.seen = progress[Tid(l)])
      BY <1>1, Completing
<1>3. m_max \in Nat /\ m_max <= m_nTasks
  <2>1. m_max \in 0 .. m_nTasks BY DEF HandsInv, HandsTypes
  <2> QED BY <1>2, <2>1, SMT
<1>4. b \in Locals BY <1>2, <1>3 DEF Locals
<1>5. /\ b.site = l.site /\ b.task = l.task /\ b.max = m_max
      /\ b.x = l.x /\ b.seen = l.seen /\ b.min = l.min
      BY <1>2 DEF Locals
<1>6. Becomes(w, PastSpin(b)) /\ UNCHANGED Private BY DEF ReadMax
<1>7. l.min = Tid(l) => AnyOrder(l) \/ m_min = l.min BY <1>1, <1>2 DEF OK, AsRead
<1> HIDE DEF b
<1>8. Tid(b) = Tid(l) /\ (AnyOrder(b) <=> AnyOrder(l)) BY <1>5 DEF Tid, AnyOrder
<1>9. OK(PastSpin(b)) /\ PastSpin(b).task = b.task
      BY <1>1, <1>2, <1>3, <1>4, <1>5, <1>7, <1>8, PastSpinOK
<1> QED BY <1>1, <1>5, <1>6, <1>9, Reads

LEMMA SpinKeeps ==
  ASSUME HandsInv, NEW w \in Workers, Spin(w)
  PROVE  HandsInv'
<1> DEFINE l == loc[w]
           b == [l EXCEPT !.seen = progress[Tid(l)]]
<1>1. running /\ l.pc = "spin" /\ l.pc \in AfterRun BY DEF Spin, At, AfterRun
<1>2. /\ OK(l) /\ l \in Locals /\ m_nTasks \in Nat /\ l.max <= m_nTasks
      /\ (l.site = "forward" => l.x <= m_nTasks) /\ l.task # NoTask /\ Tid(l) \in Rows
      BY <1>1, Completing
<1>3. AnyOrder(l) BY <1>1, <1>2 DEF OK, AsRead
<1>4. progress[Tid(l)] \in Progress /\ progress[Tid(l)].completed \in Nat
      BY <1>2, Kinds DEF HandsInv
<1>5. b \in Locals BY <1>2, <1>4 DEF Locals
<1>6. /\ b.site = l.site /\ b.task = l.task /\ b.max = l.max
      /\ b.x = l.x /\ b.seen = progress[Tid(l)]
      BY <1>2 DEF Locals
<1>7. Becomes(w, PastSpin(b)) /\ UNCHANGED Private BY DEF Spin
<1> HIDE DEF b
<1>8. Tid(b) = Tid(l) /\ (AnyOrder(b) <=> AnyOrder(l)) BY <1>6 DEF Tid, AnyOrder
<1>9. b.seen.completed <= progress[Tid(b)].completed BY <1>4, <1>6, <1>8, SMT
<1>10. OK(PastSpin(b)) /\ PastSpin(b).task = b.task
      BY <1>1, <1>2, <1>3, <1>5, <1>6, <1>8, <1>9, PastSpinOK
<1> QED BY <1>1, <1>6, <1>7, <1>10, Reads

LEMMA ClearCacheKeeps ==
  ASSUME HandsInv, NEW w \in Workers, ClearCache(w)
  PROVE  HandsInv'
<1> DEFINE l == loc[w]
<1>1. running /\ l.pc = "clear" /\ l.pc \in AfterRun BY DEF ClearCache, At, AfterRun
<1>2. Ready(l) BY <1>1, Completing
<1>3. OK(PastMin(l)) /\ PastMin(l).task = l.task BY <1>2, PastMinOK
<1>4. /\ Becomes(w, PastMin(l)) /\ m_nCacheStart' = 0
      /\ UNCHANGED <<rows, bounds, m_nBlocking, progress, m_mutex, r_q, running>>
      BY DEF ClearCache
<1>5. /\ m_nCacheStart' \in 0 .. NData /\ m_nBlocking' \in Int
      /\ m_mutex' \in Workers \cup {Nobody}
      BY <1>4, Sizes DEF HandsInv, HandsTypes
<1> QED BY <1>1, <1>3, <1>4, <1>5, Quiet

-----------------------------------------------------------------------------
(* The steps that move a piece, a bound or a row's progress.               *)

(* What a worker acts upon, when others have changed nothing of it.        *)
LEMMA StillRead ==
  ASSUME NEW u \in Workers, NEW l, AsRead(l), loc'[u] = l,
         l.pc \in {"cache", "above", "take"} => description'[l.x] = description[l.x],
         l.pc \in AfterRun =>
           /\ description'[Tid(l)] = description[Tid(l)]
           /\ l.seen.completed <= progress'[Tid(l)].completed
           /\ AnyOrder(l) \/ progress'[Tid(l)] = progress[Tid(l)],
         l.pc \in {"shrink", "clear", "raise", "publish"} =>
           progress'[Tid(l)].completed = progress[Tid(l)].completed,
         l.pc \in {"max", "shrink"} /\ l.min = Tid(l) => AnyOrder(l) \/ m_min' = m_min,
         l.pc \in {"shrink", "clear", "raise"} /\ l.max = Tid(l) => AnyOrder(l) \/ m_max' = m_max
  PROVE  AsRead(loc[u])'
  BY DEF AsRead, Open, AnyOrder, Tid, Tsk, AfterRun

LEMMA Moves ==
  ASSUME HandsInv, running, running', m_nTasks' = m_nTasks,
         NEW w \in Workers, NEW l, InTable(l), InHand(l), Becomes(w, l),
         HandsTypes', RowsInOrder', \A t \in Tasks : Hands(t)' = IF GivenOut(t)' THEN 1 ELSE 0,
         AsRead(loc[w])', \A u \in Workers \ {w} : AsRead(loc[u])'
  PROVE  HandsInv'
<1>1. \A u \in Workers : loc'[u] = IF u = w THEN l ELSE loc[u]
      BY DEF HandsInv, HandsTypes, Becomes
<1>2. \A u \in Workers : OK(loc[u]) BY Worker
<1>3. \A u \in Workers : InTable(loc'[u]) /\ InHand(loc'[u]) BY <1>1, <1>2 DEF OK
<1>4. \A u \in Workers : InTable(loc[u])' /\ InHand(loc[u])' BY <1>3 DEF InTable, InHand
<1>5. \A u \in Workers : AsRead(loc[u])' OBVIOUS
<1>6. m_nTasks' > 0 BY DEF HandsInv
<1> QED BY <1>4, <1>5, <1>6 DEF HandsInv

(* The workers with a piece, when one of them has another or none.         *)
LEMMA TaskMoves ==
  ASSUME HandsTypes, NEW w \in Workers, NEW l \in Locals, Becomes(w, l), NEW t
  PROVE  Count(loc', Carrying(t)) = Count(loc, Carrying(t))
           - (IF loc[w].task = t THEN 1 ELSE 0) + (IF l.task = t THEN 1 ELSE 0)
<1>1. /\ IsFiniteSet(Workers) /\ DOMAIN loc = Workers /\ DOMAIN loc' = Workers
      /\ \A u \in Workers \ {w} : loc'[u] = loc[u]
      /\ loc'[w] = l /\ loc[w] \in Locals
      BY WorkersAssumption DEF HandsTypes, Becomes
<1>2. Count(loc', Carrying(t)) = Count(loc, Carrying(t)) - One(loc[w], Carrying(t))
                                   + One(loc'[w], Carrying(t))
      BY <1>1, CountExcept
<1>3. /\ One(loc[w], Carrying(t)) = (IF loc[w].task = t THEN 1 ELSE 0)
      /\ One(loc'[w], Carrying(t)) = (IF l.task = t THEN 1 ELSE 0)
      BY <1>1 DEF One, Carrying
<1> QED BY <1>2, <1>3

(* A worker takes a piece from nobody, or lets one go for good.            *)
LEMMA HandsChange ==
  ASSUME HandsTypes, HandsTypes', NEW w \in Workers, NEW l \in Locals, Becomes(w, l), r_q' = r_q,
         NEW t
  PROVE  Hands(t)' = Hands(t)
           - (IF loc[w].task = t THEN 1 ELSE 0) + (IF l.task = t THEN 1 ELSE 0)
<1>1. /\ Hands(t) = Count(loc, Carrying(t)) + Count(r_q, {t})
      /\ Hands(t)' = Count(loc', Carrying(t)) + Count(r_q', {t})
      BY HandsSum
<1>2. Count(loc, Carrying(t)) \in Nat /\ Count(r_q, {t}) \in Nat BY CountsAreNat
<1> DEFINE a == IF loc[w].task = t THEN 1 ELSE 0
           b == IF l.task = t THEN 1 ELSE 0
<1>3. a \in Int /\ b \in Int OBVIOUS
<1>4. Count(loc', Carrying(t)) = Count(loc, Carrying(t)) - a + b BY TaskMoves
<1>5. Count(r_q', {t}) = Count(r_q, {t}) OBVIOUS
<1> HIDE DEF a, b
<1>6. Hands(t)' = Hands(t) - a + b BY <1>1, <1>2, <1>3, <1>4, <1>5, SMT
<1> QED BY <1>6 DEF a, b

(* Wherever it goes with a piece, it has yet to run its function.          *)
LEMMA FoundAt ==
  ASSUME NEW l \in Locals
  PROVE  Found(l).pc \in {"returned", "run", "signal", "uncount"}
<1>1. l.site \in Sites /\ l.ret \in {"run", "signal"} BY DEF Locals
<1>2. Goto(l, "signal").pc = "signal" /\ Goto(l, "uncount").pc = "uncount"
      BY GotoIs DEF PCs
<1>3. BackFromObtain(l).pc \in {"returned", "run", "signal"} BY <1>1, BackIs, ReturnedIs
<1> QED BY <1>1, <1>2, <1>3 DEF Found, Sites

LEMMA AddedAreRows ==
  ASSUME HandsTypes
  PROVE  Added \subseteq Rows /\ \A y \in Added : y \in Nat /\ y < m_nTasks
<1>1. m_nTasks \in 0 .. MaxTasks BY DEF HandsTypes
<1> QED BY <1>1, Sizes, SMT DEF Added, Rows

(* The compare-and-swap succeeds on a row of which the next piece is in    *)
(* nobody's hands: it is now in this worker's.                             *)
LEMMA TakeKeeps ==
  ASSUME HandsInv, NEW w \in Workers, Take(w)
  PROVE  HandsInv'
<1> DEFINE l == loc[w]
           x == l.x
           p == progress[x]
           k == p.working
           got == [l EXCEPT !.task = <<x, l.seen.working>>]
           b == IF l.seen.working + 1 > l.cs + CacheSize THEN Goto(got, "advance") ELSE Found(got)
<1>1. running /\ l.pc = "take" /\ l.pc \in Looking BY DEF Take, At, Looking
<1>2. CASE p # l.seen
  <2>1. Becomes(w, Missed(l)) /\ UNCHANGED Private BY <1>2 DEF Take, Private
  <2> QED BY <1>1, <2>1, Scanning, Reads
<1>3. CASE p = l.seen
  <2>0. HandsTypes /\ RowsInOrder BY DEF HandsInv
  <2>1. /\ l \in Locals /\ l.task = NoTask /\ m_nTasks \in Nat /\ l.max < m_nTasks
        /\ l.max <= m_nTasks /\ x < m_nTasks /\ x <= m_nTasks
        /\ x \in Rows /\ x \in Nat /\ x \in Added
        BY <1>1, Scanning
  <2>2. /\ Becomes(w, b) /\ progress' = [progress EXCEPT ![x].working = @ + 1]
        /\ UNCHANGED <<rows, bounds, m_nCacheStart, m_nBlocking, m_mutex, r_q, running>>
        BY <1>3 DEF Take
  <2>3. Open(x, p) BY <1>1, <1>3, Worker DEF OK, AsRead
  <2>4. /\ p \in Progress /\ p.completed \in Nat /\ k \in Nat /\ k <= NData /\ p.completed <= k
        /\ p.completed <= NData
    <3>1. p \in Progress /\ p.completed \in 0 .. NData /\ k \in 0 .. NData
          BY <2>0, <2>1, Kinds
    <3>2. p.completed <= k BY <2>0, <2>1 DEF RowsInOrder
    <3> QED BY <3>1, <3>2, Sizes, SMT
  <2>5. k < NData
    <3>1. (p.completed = k /\ p.completed # NData) \/ k # NData BY <2>3 DEF Open
    <3> HIDE DEF k, p
    <3> QED BY <2>4, <3>1, Sizes, SMT
  <2>6. description[x].depend = "inorder" => p.completed = k BY <2>3 DEF Open
  <2> DEFINE t == <<x, k>>
  <2>7. t \in Tasks /\ t # NoTask
    <3>1. k \in 0 .. NData - 1 BY <2>4, <2>5, Sizes, SMT
    <3> QED BY <2>1, <3>1, Constants DEF Tasks
  <2>8. got \in Locals /\ got.task = t /\ got.pc = l.pc /\ got.site = l.site /\ got.max = l.max
        /\ got.x = x /\ got.cs = l.cs /\ got.seen = l.seen
    <3>1. <<x, l.seen.working>> = t BY <1>3
    <3> HIDE DEF l, t
    <3> QED BY <2>1, <2>7, <3>1 DEF Locals
  <2> HIDE DEF got
  <2>9. OK(b) /\ b.task = t /\ b.pc \notin AfterRun \cup {"cache", "above", "take"}
    <3>1. CASE l.seen.working + 1 > l.cs + CacheSize
      <4> DEFINE g == Goto(got, "advance")
      <4>1. g \in Locals /\ g.pc = "advance" /\ g.site = l.site /\ g.task = t /\ g.max = l.max
            /\ g.x = x /\ g.cs = l.cs
            BY <2>8, GotoIs DEF PCs
      <4>2. l.cs < NData
        <5>1. l.cs \in Nat BY <2>1 DEF Locals
        <5>2. k + 1 > l.cs + CacheSize BY <3>1, <1>3
        <5> HIDE DEF k
        <5> QED BY <2>4, <2>5, <5>1, <5>2, Sizes, SMT
      <4>3. b = g BY <3>1
      <4> HIDE DEF g, b
      <4>4. InTable(g) BY <2>1, <4>1 DEF InTable, Looking
      <4>5. InHand(g) BY <2>7, <4>1 DEF InHand, Handless, Looking, AfterRun
      <4>6. AsRead(g) BY <4>1, <4>2 DEF AsRead, AfterRun
      <4> QED BY <4>1, <4>3, <4>4, <4>5, <4>6 DEF OK, AfterRun
    <3>2. CASE ~(l.seen.working + 1 > l.cs + CacheSize)
      <4>1. OK(Found(got)) /\ Found(got).task = t BY <2>1, <2>7, <2>8, FoundOK
      <4>2. Found(got).pc \notin AfterRun \cup {"cache", "above", "take"}
            BY <2>8, FoundAt DEF AfterRun
      <4> QED BY <3>2, <4>1, <4>2
    <3> QED BY <3>1, <3>2
  <2> HIDE DEF b
  <2>10. /\ \A y \in Rows \ {x} : progress'[y] = progress[y]
         /\ progress'[x] \in Progress
         /\ progress'[x].completed = p.completed /\ progress'[x].working = k + 1
    <3>1. p = [completed |-> p.completed, working |-> k] BY <2>4 DEF Progress
    <3>2. k + 1 \in 0 .. NData BY <2>4, <2>5, Sizes, SMT
    <3>3. progress'[x] = [completed |-> p.completed, working |-> k + 1]
          BY <2>0, <2>1, <2>2, <3>1 DEF HandsTypes
    <3>4. \A y \in Rows \ {x} : progress'[y] = progress[y] BY <2>0, <2>2 DEF HandsTypes
    <3>5. p.completed \in 0 .. NData BY <2>4, Sizes, SMT
    <3> QED BY <3>2, <3>3, <3>4, <3>5 DEF Progress
  <2>11. HandsTypes'
    <3>1. progress' \in [Rows -> Progress]
      <4>1. progress' = [y \in Rows |-> progress'[y]] BY <2>0, <2>2 DEF HandsTypes
      <4>2. \A y \in Rows : progress'[y] \in Progress BY <2>0, <2>10 DEF HandsTypes
      <4> QED BY <4>1, <4>2
    <3>2. loc' \in [Workers -> Locals] BY <2>0, <2>2, <2>9 DEF HandsTypes, OK, Becomes
    <3> QED BY <2>0, <2>2, <3>1, <3>2 DEF HandsTypes, rows, bounds
  <2>12. RowsInOrder'
    <3>1. p.completed <= k + 1 /\ (p.completed = k => k + 1 <= p.completed + 1)
          BY <2>4, SMT
    <3>2. \A y \in Rows : progress'[y].completed <= progress'[y].working
          BY <2>0, <2>10, <3>1 DEF RowsInOrder
    <3>3. \A y \in Added : description[y].depend = "inorder" =>
                             progress'[y].working <= progress'[y].completed + 1
      <4> SUFFICES ASSUME NEW y \in Added, description[y].depend = "inorder"
                   PROVE  progress'[y].working <= progress'[y].completed + 1
          OBVIOUS
      <4>1. y \in Rows BY <2>0, AddedAreRows
      <4>2. CASE y = x BY <2>6, <2>10, <3>1, <4>2
      <4>3. CASE y # x BY <2>0, <2>10, <4>1, <4>3 DEF RowsInOrder
      <4> QED BY <4>2, <4>3
    <3> QED BY <2>2, <3>2, <3>3 DEF RowsInOrder, Added, rows
  <2>13. ASSUME NEW s \in Tasks PROVE Hands(s)' = IF GivenOut(s)' THEN 1 ELSE 0
    <3>1. Hands(s) = IF GivenOut(s) THEN 1 ELSE 0 BY DEF HandsInv
    <3>2. Hands(s)' = Hands(s) - (IF NoTask = s THEN 1 ELSE 0) + (IF t = s THEN 1 ELSE 0)
          BY <2>0, <2>1, <2>2, <2>9, <2>11, HandsChange DEF OK
    <3>3. NoTask # s BY Constants
    <3>4. GivenOut(s)' <=> s = t \/ GivenOut(s)
      <4>1. s = <<s[1], s[2]>> /\ s[1] \in Rows /\ s[2] \in 0 .. NData - 1 BY DEF Tasks
      <4>2. GivenOut(s)' <=> s[1] < m_nTasks
                              /\ s[2] \in progress'[s[1]].completed .. progress'[s[1]].working - 1
            BY <2>2 DEF GivenOut, rows
      <4>3. CASE s[1] = x
        <5>1. s = t <=> s[2] = k BY <4>1, <4>3
        <5>2. GivenOut(s) <=> s[1] < m_nTasks /\ s[2] \in p.completed .. k - 1
              BY <4>3 DEF GivenOut
        <5>3. s[1] < m_nTasks BY <2>1, <4>3
        <5>4. progress'[s[1]].completed = p.completed /\ progress'[s[1]].working = k + 1
              BY <2>10, <4>3
        <5> HIDE DEF t, k, p, x, l
        <5>5. s[2] \in progress'[s[1]].completed .. progress'[s[1]].working - 1
                <=> s[2] = k \/ s[2] \in p.completed .. k - 1
              BY <2>4, <4>1, <5>4, SMT
        <5> QED BY <4>2, <5>1, <5>2, <5>3, <5>5
      <4>4. CASE s[1] # x
        <5>1. s # t BY <4>1, <4>4
        <5> QED BY <2>10, <4>1, <4>2, <4>4, <5>1 DEF GivenOut
      <4> QED BY <4>3, <4>4
    <3>5. ~GivenOut(t)
      <4>1. ~(k \in p.completed .. k - 1) BY <2>4, SMT
      <4> QED BY <4>1 DEF GivenOut
    <3>6. CASE s = t BY <3>1, <3>2, <3>3, <3>4, <3>5, <3>6
    <3>7. CASE s # t BY <3>1, <3>2, <3>3, <3>4, <3>7
    <3> QED BY <3>6, <3>7
  <2>14. AsRead(loc[w])'
    <3>1. loc'[w] = b BY <2>0, <2>2 DEF HandsTypes, Becomes
    <3>2. AsRead(b) BY <2>9 DEF OK
    <3> QED BY <2>9, <3>1, <3>2, StillRead DEF AfterRun
  <2>15. ASSUME NEW u \in Workers \ {w} PROVE AsRead(loc[u])'
    <3>1. loc'[u] = loc[u] BY <2>0, <2>2 DEF HandsTypes, Becomes
    <3>2. AsRead(loc[u]) BY <1>1, Worker DEF OK
    <3>3. description' = description /\ m_min' = m_min /\ m_max' = m_max
          BY <2>2 DEF rows, bounds
    <3>4. ASSUME loc[u].pc \in AfterRun
          PROVE  /\ loc[u].seen.completed <= progress'[Tid(loc[u])].completed
                 /\ AnyOrder(loc[u]) \/ progress'[Tid(loc[u])] = progress[Tid(loc[u])]
                 /\ progress'[Tid(loc[u])].completed = progress[Tid(loc[u])].completed
      <4>1. loc[u].task # NoTask /\ loc[u].seen.completed <= progress[Tid(loc[u])].completed
            BY <1>1, <3>4, Completing
      <4>2. CASE Tid(loc[u]) = x
        <5>1. AnyOrder(loc[u]) \/ k = p.completed + 1 BY <1>1, <4>1, <4>2, Own
        <5>2. AnyOrder(loc[u]) \/ p.completed = k
              BY <2>0, <2>1, <2>6, <4>2, Kinds DEF AnyOrder
        <5>3. AnyOrder(loc[u])
          <6> HIDE DEF k, p
          <6> QED BY <2>4, <5>1, <5>2, SMT
        <5> QED BY <2>10, <4>1, <4>2, <5>3
      <4>3. CASE Tid(loc[u]) # x
        <5>1. Tid(loc[u]) \in Rows BY <1>1, <4>1, Own
        <5> QED BY <2>10, <4>1, <4>3, <5>1
      <4> QED BY <4>2, <4>3
    <3> QED BY <3>1, <3>2, <3>3, <3>4, StillRead DEF AfterRun
  <2>16. running' /\ m_nTasks' = m_nTasks BY <1>1, <2>2 DEF rows
  <2> QED BY <1>1, <2>2, <2>9, <2>11, <2>12, <2>13, <2>14, <2>15, <2>16, Moves DEF OK
<1> QED BY <1>2, <1>3

(* A row's progress changes to another legal value.                        *)
LEMMA ProgressTyped ==
  ASSUME HandsTypes, NEW x \in Rows, NEW p \in Progress, progress' = [progress EXCEPT ![x] = p]
  PROVE  /\ progress' \in [Rows -> Progress] /\ progress'[x] = p
         /\ \A y \in Rows \ {x} : progress'[y] = progress[y]
  BY DEF HandsTypes

(* Nobody else acts upon the progress of a row without order, or of one    *)
(* whose only piece is this worker's.                                      *)
LEMMA CompleteKeeps ==
  ASSUME HandsInv, NEW w \in Workers, Complete(w)
  PROVE  HandsInv'
<1> DEFINE l == loc[w]
           x == Tid(l)
           k == Tsk(l)
           p == progress[x]
           t == l.task
           b == [l EXCEPT !.pc = "span", !.x = x, !.task = NoTask]
<1>0. HandsTypes /\ RowsInOrder BY DEF HandsInv
<1>1. running /\ l.pc = "publish" /\ l.pc \in AfterRun BY DEF Complete, At, AfterRun
<1>2. /\ OK(l) /\ l \in Locals /\ m_nTasks \in Nat /\ l.max <= m_nTasks
      /\ t # NoTask /\ (AnyOrder(l) \/ l.seen = p)
      BY <1>1, Completing
<1>3. /\ t \in Tasks /\ t = <<x, k>> /\ GivenOut(t)
      /\ x \in Added /\ x \in Rows /\ x \in Nat /\ x < m_nTasks /\ x <= m_nTasks
      /\ k \in Nat /\ k < NData /\ k < p.working /\ p.completed \in Nat
      /\ p.working \in Nat /\ p.working <= NData
      /\ (AnyOrder(l) \/ p.working = k + 1)
  <2>1. x \in Nat /\ x < m_nTasks BY <1>1, <1>2, Own
  <2>2. x <= m_nTasks BY <1>2, <2>1, SMT
  <2> QED BY <1>1, <1>2, <2>2, Own
<1>4. p.completed = k BY <1>1, <1>2 DEF OK, AsRead
<1>5. /\ Becomes(w, b) /\ progress' = [progress EXCEPT ![x].completed = @ + 1]
      /\ UNCHANGED <<rows, bounds, m_nCacheStart, m_nBlocking, m_mutex, r_q, running>>
      BY <1>2 DEF Complete
<1>6. /\ b \in Locals /\ b.task = NoTask /\ b.pc = "span" /\ b.site = l.site /\ b.max = l.max
      /\ b.x = x
  <2> HIDE DEF x, l
  <2> QED BY <1>2, <1>3 DEF Locals, PCs
<1> HIDE DEF b
<1>7. InTable(b) /\ InHand(b) /\ AsRead(b)
  <2>1. InTable(b) BY <1>2, <1>3, <1>6 DEF InTable, Looking
  <2>2. InHand(b) BY <1>6 DEF InHand, Handless, AfterRun
  <2>3. AsRead(b) BY <1>6, Relaxed DEF AfterRun
  <2> QED BY <2>1, <2>2, <2>3
<1> DEFINE q == [completed |-> k + 1, working |-> p.working]
<1>8. q \in Progress /\ q.completed = k + 1 /\ q.working = p.working
  <2>1. k + 1 \in 0 .. NData /\ p.working \in 0 .. NData BY <1>3, Sizes, SMT
  <2> QED BY <2>1 DEF Progress
<1>9. progress'[x] = q
  <2>1. p \in Progress BY <1>0, <1>3, Kinds
  <2>2. p = [completed |-> k, working |-> p.working] BY <2>1, <1>4 DEF Progress
  <2>3. progress \in [Rows -> Progress] BY <1>0 DEF HandsTypes
  <2> QED BY <1>3, <1>5, <2>2, <2>3
<1> HIDE DEF q
<1>10. /\ progress' \in [Rows -> Progress] /\ progress'[x] = q
       /\ \A y \in Rows \ {x} : progress'[y] = progress[y]
  <2>1. \A y \in Rows \ {x} : progress'[y] = progress[y] BY <1>0, <1>5 DEF HandsTypes
  <2>2. progress' = [y \in Rows |-> progress'[y]] BY <1>0, <1>5 DEF HandsTypes
  <2>3. \A y \in Rows : progress'[y] \in Progress BY <1>0, <1>8, <1>9, <2>1 DEF HandsTypes
  <2> QED BY <1>9, <2>1, <2>2, <2>3
<1>11. HandsTypes'
  <2>1. loc' \in [Workers -> Locals] BY <1>0, <1>5, <1>6 DEF HandsTypes, Becomes
  <2> QED BY <1>0, <1>5, <1>10, <2>1 DEF HandsTypes, rows, bounds
<1>12. RowsInOrder'
  <2>1. k + 1 <= p.working /\ (p.working = k + 1 => p.working <= k + 1 + 1)
        BY <1>3, SMT
  <2>2. \A y \in Rows : progress'[y].completed <= progress'[y].working
        BY <1>0, <1>8, <1>10, <2>1 DEF RowsInOrder
  <2>3. \A y \in Added : description[y].depend = "inorder" =>
                           progress'[y].working <= progress'[y].completed + 1
    <3> SUFFICES ASSUME NEW y \in Added, description[y].depend = "inorder"
                 PROVE  progress'[y].working <= progress'[y].completed + 1
        OBVIOUS
    <3>1. y \in Rows BY <1>0, AddedAreRows
    <3>2. CASE y = x
      <4>1. p.working = k + 1 BY <1>3, <3>2 DEF AnyOrder
      <4> QED BY <1>8, <1>10, <2>1, <3>2, <4>1
    <3>3. CASE y # x BY <1>0, <1>10, <3>1, <3>3 DEF RowsInOrder
    <3> QED BY <3>2, <3>3
  <2> QED BY <1>5, <2>2, <2>3 DEF RowsInOrder, Added, rows
<1>13. ASSUME NEW s \in Tasks PROVE Hands(s)' = IF GivenOut(s)' THEN 1 ELSE 0
  <2>1. Hands(s) = IF GivenOut(s) THEN 1 ELSE 0 BY DEF HandsInv
  <2>2. Hands(s)' = Hands(s) - (IF t = s THEN 1 ELSE 0) + (IF NoTask = s THEN 1 ELSE 0)
        BY <1>0, <1>5, <1>6, <1>11, HandsChange
  <2>3. NoTask # s BY Constants
  <2>4. GivenOut(s)' <=> s # t /\ GivenOut(s)
    <3>1. s = <<s[1], s[2]>> /\ s[1] \in Rows /\ s[2] \in 0 .. NData - 1 BY DEF Tasks
    <3>2. GivenOut(s)' <=> s[1] < m_nTasks
                            /\ s[2] \in progress'[s[1]].completed .. progress'[s[1]].working - 1
          BY <1>5 DEF GivenOut, rows
    <3>3. CASE s[1] = x
      <4>1. s[2] \in k + 1 .. p.working - 1 <=> s[2] # k /\ s[2] \in k .. p.working - 1
            BY <1>3, <3>1, SMT
      <4>2. s = t <=> s[2] = k BY <1>3, <3>1, <3>3
      <4>3. GivenOut(s) <=> s[1] < m_nTasks /\ s[2] \in k .. p.working - 1
            BY <1>4, <3>3 DEF GivenOut
      <4>4. GivenOut(s)' <=> s[1] < m_nTasks /\ s[2] \in k + 1 .. p.working - 1
            BY <1>8, <1>10, <3>2, <3>3
      <4> HIDE DEF t, k, p
      <4> QED BY <4>1, <4>2, <4>3, <4>4
    <3>4. CASE s[1] # x
      <4>1. s # t BY <1>3, <3>1, <3>4
      <4> QED BY <1>10, <3>1, <3>2, <3>4, <4>1 DEF GivenOut
    <3> QED BY <3>3, <3>4
  <2>5. CASE s = t BY <1>3, <2>1, <2>2, <2>3, <2>4, <2>5
  <2>6. CASE s # t BY <2>1, <2>2, <2>3, <2>4, <2>6
  <2> QED BY <2>5, <2>6
<1>14. AsRead(loc[w])'
  <2>1. loc'[w] = b BY <1>0, <1>5 DEF HandsTypes, Becomes
  <2> QED BY <1>6, <1>7, <2>1, StillRead DEF AfterRun
<1>15. ASSUME NEW u \in Workers \ {w} PROVE AsRead(loc[u])'
  <2>1. loc'[u] = loc[u] BY <1>0, <1>5 DEF HandsTypes, Becomes
  <2>2. AsRead(loc[u]) BY <1>1, Worker DEF OK
  <2>3. description' = description /\ m_min' = m_min /\ m_max' = m_max
        BY <1>5 DEF rows, bounds
  <2>4. ASSUME loc[u].pc \in AfterRun
        PROVE  /\ loc[u].seen.completed <= progress'[Tid(loc[u])].completed
               /\ AnyOrder(loc[u]) \/ progress'[Tid(loc[u])] = progress[Tid(loc[u])]
               /\ loc[u].pc \in {"shrink", "clear", "raise", "publish"} =>
                    progress'[Tid(loc[u])].completed = progress[Tid(loc[u])].completed
    <3>1. loc[u].task # NoTask /\ loc[u].seen.completed <= progress[Tid(loc[u])].completed
          /\ loc[u].seen \in Progress
          BY <1>1, <2>4, Completing DEF Locals
    <3>2. CASE Tid(loc[u]) = x
      <4>1. loc[u].task # t BY <1>2, <1>3, <1>0, Held
      <4>2. Tsk(loc[u]) # k BY <1>1, <1>3, <3>1, <3>2, <4>1, Own
      <4>3. AnyOrder(loc[u]) BY <1>1, <1>4, <3>1, <3>2, <4>2, Own
      <4>4. loc[u].pc \notin {"shrink", "clear", "raise", "publish"}
            BY <2>2, <1>4, <3>2, <4>2 DEF AsRead
      <4>5. loc[u].seen.completed <= k + 1
        <5>1. loc[u].seen.completed \in 0 .. NData BY <3>1 DEF Progress
        <5>2. loc[u].seen.completed <= k BY <3>1, <3>2, <1>4
        <5> QED BY <1>3, <5>1, <5>2, Sizes, SMT
      <4> QED BY <1>8, <1>10, <3>2, <4>3, <4>4, <4>5
    <3>3. CASE Tid(loc[u]) # x
      <4>1. Tid(loc[u]) \in Rows BY <1>1, <3>1, Own
      <4> QED BY <1>10, <3>1, <3>3, <4>1
    <3> QED BY <3>2, <3>3
  <2>5. loc[u].pc \in {"shrink", "clear", "raise", "publish"} => loc[u].pc \in AfterRun
        BY DEF AfterRun
  <2> QED BY <2>1, <2>2, <2>3, <2>4, <2>5, StillRead
<1>16. running' /\ m_nTasks' = m_nTasks BY <1>1, <1>5 DEF rows
<1> QED BY <1>1, <1>5, <1>7, <1>11, <1>12, <1>13, <1>14, <1>15, <1>16, Moves

(* Two workers on pieces of the same row: its order is free.               *)
LEMMA Together ==
  ASSUME HandsInv, running, NEW w \in Workers, NEW u \in Workers \ {w},
         loc[w].task # NoTask, loc[u].task # NoTask, Tid(loc[u]) = Tid(loc[w])
  PROVE  AnyOrder(loc[u])
<1>1. loc[w].task \in Tasks BY Own
<1>2. loc[u].task # loc[w].task BY <1>1, Held
<1>3. Tsk(loc[u]) # Tsk(loc[w]) BY <1>2, Own
<1>4. AnyOrder(loc[w]) <=> AnyOrder(loc[u]) BY DEF AnyOrder
<1> QED BY <1>3, <1>4, Own

(* A bound that stands at the row of a worker's piece moves by one.        *)
LEMMA BoundMoves ==
  ASSUME HandsInv, running, NEW w \in Workers, NEW l, OK(l), l.task = loc[w].task, Becomes(w, l),
         UNCHANGED <<rows, m_nCacheStart, m_nBlocking, progress, m_mutex, r_q, running>>,
         loc[w].task # NoTask, l.pc \notin {"max", "shrink"},
         m_min' = m_min \/ (m_min = Tid(loc[w]) /\ m_min' = m_min + 1),
         m_max' = m_max \/ (m_max = Tid(loc[w]) /\ m_max' = m_max + 1
                              /\ l.pc \notin {"clear", "raise"})
  PROVE  HandsInv'
<1>0. HandsTypes /\ RowsInOrder BY DEF HandsInv
<1>1. m_min' \in 0 .. m_nTasks /\ m_max' \in 0 .. m_nTasks
  <2>1. m_min \in 0 .. m_nTasks /\ m_max \in 0 .. m_nTasks /\ m_nTasks \in Nat
        BY <1>0, Worker DEF HandsTypes
  <2>2. Tid(loc[w]) \in Nat /\ Tid(loc[w]) < m_nTasks BY Own
  <2> QED BY <2>1, <2>2, SMT
<1>2. HandsTypes'
  <2>1. loc' \in [Workers -> Locals] BY <1>0 DEF HandsTypes, Becomes, OK
  <2>2. m_nTasks' = m_nTasks BY DEF rows
  <2> QED BY <1>0, <1>1, <2>1, <2>2 DEF HandsTypes, rows
<1>3. RowsInOrder' BY <1>0 DEF RowsInOrder, Added, rows
<1>4. \A t \in Tasks : Hands(t)' = IF GivenOut(t)' THEN 1 ELSE 0
      BY <1>0, HandsSame DEF HandsInv, GivenOut, rows
<1>5. AsRead(loc[w])'
  <2>1. loc'[w] = l BY <1>0 DEF HandsTypes, Becomes
  <2>2. AsRead(l) /\ description' = description BY DEF OK, rows
  <2>3. l.pc \in AfterRun => l.seen.completed <= progress[Tid(l)].completed
        BY <2>2 DEF AsRead
  <2> QED BY <2>1, <2>2, <2>3, StillRead
<1>6. ASSUME NEW u \in Workers \ {w} PROVE AsRead(loc[u])'
  <2>1. loc'[u] = loc[u] BY <1>0 DEF HandsTypes, Becomes
  <2>2. AsRead(loc[u]) /\ description' = description BY Worker DEF OK, rows
  <2>3. loc[u].pc \in AfterRun => loc[u].seen.completed <= progress[Tid(loc[u])].completed
        BY <2>2 DEF AsRead
  <2>4. ASSUME loc[u].pc \in {"max", "shrink"}, loc[u].min = Tid(loc[u])
        PROVE  AnyOrder(loc[u]) \/ m_min' = m_min
    <3>1. loc[u].task # NoTask BY <2>4, Completing DEF AfterRun
    <3>2. AnyOrder(loc[u]) \/ m_min = Tid(loc[u]) BY <2>2, <2>4 DEF AsRead
    <3> QED BY <3>1, <3>2, Together
  <2>5. ASSUME loc[u].pc \in {"shrink", "clear", "raise"}, loc[u].max = Tid(loc[u])
        PROVE  AnyOrder(loc[u]) \/ m_max' = m_max
    <3>1. loc[u].task # NoTask BY <2>5, Completing DEF AfterRun
    <3>2. AnyOrder(loc[u]) \/ m_max = Tid(loc[u]) BY <2>2, <2>5 DEF AsRead
    <3> QED BY <3>1, <3>2, Together
  <2> QED BY <2>1, <2>2, <2>3, <2>4, <2>5, StillRead
<1> QED BY <1>2, <1>3, <1>4, <1>5, <1>6, Moves DEF OK, rows

LEMMA ShrinkKeeps ==
  ASSUME HandsInv, NEW w \in Workers, Shrink(w)
  PROVE  HandsInv'
<1> DEFINE l == loc[w]
           b == Goto(l, "clear")
<1>1. running /\ l.pc = "shrink" /\ l.pc \in AfterRun BY DEF Shrink, At, AfterRun
<1>2. OK(l) /\ l \in Locals /\ l.task # NoTask /\ Ready(l) BY <1>1, Completing
<1>3. l.min = Tid(l) /\ (AnyOrder(l) \/ m_min = l.min) BY <1>1, <1>2 DEF OK, AsRead
<1>4. UNCHANGED <<rows, m_max, m_nCacheStart, m_nBlocking, progress, m_mutex, r_q, running>>
      BY DEF Shrink
<1>5. CASE m_min = l.min
  <2>1. Becomes(w, b) /\ m_min' = m_min + 1 BY <1>5 DEF Shrink
  <2>2. /\ b \in Locals /\ b.pc = "clear" /\ b.site = l.site /\ b.task = l.task /\ b.max = l.max
        /\ b.x = l.x /\ b.seen = l.seen
        BY <1>2, GotoIs DEF PCs
  <2>3. Tid(b) = Tid(l) /\ Tsk(b) = Tsk(l) /\ (AnyOrder(b) <=> AnyOrder(l))
        BY <2>2 DEF Tid, Tsk, AnyOrder
  <2> HIDE DEF b
  <2>4. InTable(b) BY <1>2, <2>2 DEF Ready, InTable, Looking, AfterRun
  <2>5. InHand(b) BY <1>2, <2>2 DEF InHand, Handless, Looking, AfterRun
  <2>6. AsRead(b) BY <1>2, <2>2, <2>3 DEF Ready, AsRead, AfterRun
  <2>7. OK(b) BY <2>2, <2>4, <2>5, <2>6 DEF OK
  <2> QED BY <1>1, <1>2, <1>3, <1>4, <1>5, <2>1, <2>2, <2>7, BoundMoves
<1>6. CASE m_min # l.min
  <2>1. Becomes(w, PastMin(l)) /\ UNCHANGED Private
        BY <1>3, <1>4, <1>6 DEF Shrink, Private, bounds
  <2>2. OK(PastMin(l)) /\ PastMin(l).task = l.task BY <1>2, PastMinOK
  <2> QED BY <1>1, <2>1, <2>2, Reads
<1> QED BY <1>5, <1>6

LEMMA RaiseKeeps ==
  ASSUME HandsInv, NEW w \in Workers, Raise(w)
  PROVE  HandsInv'
<1> DEFINE l == loc[w]
<1>1. running /\ l.pc = "raise" /\ l.pc \in AfterRun BY DEF Raise, At, AfterRun
<1>2. OK(l) /\ l \in Locals /\ l.task # NoTask /\ Ready(l) BY <1>1, Completing
<1>3. l.max = Tid(l) /\ (AnyOrder(l) \/ m_max = l.max) BY <1>1, <1>2 DEF OK, AsRead
<1>4. UNCHANGED <<rows, m_min, m_nCacheStart, m_nBlocking, progress, m_mutex, r_q, running>>
      BY DEF Raise
<1>5. OK(Publish(l)) /\ Publish(l).task = l.task BY <1>2, PublishOK
<1>6. CASE m_max = l.max
  <2>1. Becomes(w, Publish(l)) /\ m_max' = m_max + 1 BY <1>6 DEF Raise
  <2>2. Publish(l).pc = "publish" BY <1>2, GotoIs DEF Publish, Ready, PCs
  <2> QED BY <1>1, <1>2, <1>3, <1>4, <1>5, <1>6, <2>1, <2>2, BoundMoves
<1>7. CASE m_max # l.max
  <2>1. Becomes(w, Publish(l)) /\ UNCHANGED Private
        BY <1>3, <1>4, <1>7 DEF Raise, Private, bounds
  <2> QED BY <1>1, <1>5, <2>1, Reads
<1> QED BY <1>6, <1>7

-----------------------------------------------------------------------------
(* Pieces that pass through r_q.                                           *)

LEMMA Passes ==
  ASSUME HandsInv, running, NEW w \in Workers, NEW l, OK(l), l.pc \notin AfterRun, Becomes(w, l),
         UNCHANGED <<rows, bounds, m_nCacheStart, m_nBlocking, progress, m_mutex, running>>,
         r_q' \in Seq(Tasks \cup {Sentinel, NoTask}), Len(r_q') <= QueueMax,
         \A t \in Tasks : Count(r_q', {t}) = Count(r_q, {t})
                            + (IF loc[w].task = t THEN 1 ELSE 0) - (IF l.task = t THEN 1 ELSE 0)
  PROVE  HandsInv'
<1>0. HandsTypes /\ RowsInOrder BY DEF HandsInv
<1>1. HandsTypes'
  <2>1. loc' \in [Workers -> Locals] BY <1>0 DEF HandsTypes, Becomes, OK
  <2> QED BY <1>0, <2>1 DEF HandsTypes, rows, bounds
<1>2. RowsInOrder' BY <1>0 DEF RowsInOrder, Added, rows
<1>3. ASSUME NEW t \in Tasks PROVE Hands(t)' = IF GivenOut(t)' THEN 1 ELSE 0
  <2> DEFINE a == IF loc[w].task = t THEN 1 ELSE 0
             b == IF l.task = t THEN 1 ELSE 0
  <2>1. a \in Int /\ b \in Int OBVIOUS
  <2>2. Count(r_q', {t}) = Count(r_q, {t}) + a - b OBVIOUS
  <2>3. Count(loc', Carrying(t)) = Count(loc, Carrying(t)) - a + b BY <1>0, TaskMoves DEF OK
  <2>4. /\ Hands(t) = Count(loc, Carrying(t)) + Count(r_q, {t})
        /\ Hands(t)' = Count(loc', Carrying(t)) + Count(r_q', {t})
        BY <1>0, <1>1, HandsSum
  <2>5. Count(loc, Carrying(t)) \in Nat /\ Count(r_q, {t}) \in Nat BY <1>0, CountsAreNat
  <2> HIDE DEF a, b
  <2>6. Hands(t)' = Hands(t) BY <2>1, <2>2, <2>3, <2>4, <2>5, SMT
  <2> QED BY <2>6 DEF HandsInv, GivenOut, rows
<1>4. ASSUME NEW u \in Workers PROVE AsRead(loc[u])'
  <2> DEFINE k == IF u = w THEN l ELSE loc[u]
  <2>1. loc'[u] = k BY <1>0 DEF HandsTypes, Becomes
  <2>2. AsRead(k) BY Worker DEF OK
  <2>3. UNCHANGED <<description, progress, m_min, m_max>> BY DEF rows, bounds
  <2> HIDE DEF k
  <2>4. k.pc \in AfterRun => k.seen.completed <= progress[Tid(k)].completed
        BY <2>2 DEF AsRead
  <2> QED BY <2>1, <2>2, <2>3, <2>4, StillRead
<1> QED BY <1>1, <1>2, <1>3, <1>4, Moves DEF OK, rows

LEMMA PushSentinelKeeps ==
  ASSUME HandsInv, NEW w \in Workers, PushSentinel(w)
  PROVE  HandsInv'
<1> DEFINE l == loc[w]
           b == BackFromObtain(l)
<1>1. running /\ l.pc = "announce" BY DEF PushSentinel, At
<1>2. l.pc \notin AfterRun \cup {"span"} /\ l.pc \in Handless BY <1>1 DEF AfterRun, Handless
<1>3. /\ l \in Locals /\ m_nTasks \in Nat /\ l.max < m_nTasks /\ l.task = NoTask
      BY <1>1, <1>2, Elsewhere
<1>4. OK(b) /\ b.task = NoTask BY <1>3, BackOK
<1>5. b.pc \notin AfterRun
  <2>1. l.ret \in {"run", "signal"} BY <1>3 DEF Locals
  <2> QED BY <1>3, <2>1, BackIs, ReturnedIs DEF AfterRun
<1>6. /\ Becomes(w, b) /\ r_q' = Append(r_q, Sentinel) /\ Len(r_q) < QueueMax
      /\ UNCHANGED <<rows, bounds, m_nCacheStart, m_nBlocking, progress, m_mutex, running>>
      BY DEF PushSentinel
<1> HIDE DEF b
<1>7. r_q \in Seq(Tasks \cup {Sentinel, NoTask}) BY DEF HandsInv, HandsTypes
<1>8. r_q' \in Seq(Tasks \cup {Sentinel, NoTask}) /\ Len(r_q') <= QueueMax
  <2>1. r_q' \in Seq(Tasks \cup {Sentinel, NoTask}) /\ Len(r_q') = Len(r_q) + 1
        BY <1>6, <1>7, AppendProperties
  <2>2. Len(r_q) \in Nat BY <1>7, LenProperties
  <2> QED BY <1>6, <2>1, <2>2, Sizes, SMT
<1>9. ASSUME NEW t \in Tasks
      PROVE  Count(r_q', {t}) = Count(r_q, {t})
               + (IF l.task = t THEN 1 ELSE 0) - (IF b.task = t THEN 1 ELSE 0)
  <2>1. l.task # t /\ b.task # t /\ Sentinel # t BY <1>3, <1>4, Constants
  <2>2. Count(r_q', {t}) = Count(r_q, {t}) + One(Sentinel, {t}) BY <1>6, <1>7, CountAppend
  <2>3. One(Sentinel, {t}) = 0 BY <2>1 DEF One
  <2>4. Count(r_q, {t}) \in Nat BY CountsAreNat DEF HandsInv
  <2> QED BY <2>1, <2>2, <2>3, <2>4
<1> QED BY <1>1, <1>4, <1>5, <1>6, <1>8, <1>9, Passes

LEMMA PopTaskKeeps ==
  ASSUME HandsInv, NEW w \in Workers, PopTask(w)
  PROVE  HandsInv'
<1> DEFINE l == loc[w]
           e == Head(r_q)
           got == [l EXCEPT !.task = e]
           b == IF e = Sentinel THEN Goto(l, "announce") ELSE BackFromObtain(got)
<1>1. running /\ l.pc = "pop" BY DEF PopTask, At
<1>2. l.pc \notin AfterRun \cup {"span"} /\ l.pc \in Handless BY <1>1 DEF AfterRun, Handless
<1>3. /\ l \in Locals /\ m_nTasks \in Nat /\ l.max < m_nTasks /\ l.max <= m_nTasks
      /\ l.task = NoTask /\ (l.site = "forward" => l.x <= m_nTasks)
      BY <1>1, <1>2, Elsewhere
<1>4. /\ Becomes(w, b) /\ r_q' = Tail(r_q) /\ r_q # <<>>
      /\ UNCHANGED <<rows, bounds, m_nCacheStart, m_nBlocking, progress, m_mutex, running>>
      BY DEF PopTask
<1>5. r_q \in Seq(Tasks \cup {Sentinel, NoTask}) /\ Len(r_q) <= QueueMax
      BY DEF HandsInv, HandsTypes
<1>6. e \in Tasks \cup {Sentinel, NoTask} BY <1>4, <1>5, HeadTailProperties
<1>7. OK(b) /\ b.pc \notin AfterRun /\ b.task = IF e = Sentinel THEN NoTask ELSE e
  <2>1. CASE e = Sentinel
    <3>1. OK(Goto(l, "announce")) /\ Goto(l, "announce").task = NoTask
          /\ Goto(l, "announce").pc = "announce"
          BY <1>3, GoesOK, GotoIs DEF PCs
    <3> QED BY <2>1, <3>1 DEF AfterRun
  <2>2. CASE e # Sentinel
    <3>1. got \in Locals /\ got.task = e /\ got.max = l.max
      <4>1. e \in Tasks \cup {NoTask} BY <1>6, <2>2
      <4> HIDE DEF e, l
      <4> QED BY <1>3, <4>1 DEF Locals
    <3> HIDE DEF got
    <3>2. OK(BackFromObtain(got)) /\ BackFromObtain(got).task = e BY <1>3, <3>1, BackOK
    <3>3. BackFromObtain(got).pc \notin AfterRun
      <4>1. got.ret \in {"run", "signal"} BY <3>1 DEF Locals
      <4> QED BY <3>1, <4>1, BackIs, ReturnedIs DEF AfterRun
    <3> QED BY <2>2, <3>2, <3>3
  <2> QED BY <2>1, <2>2
<1> HIDE DEF b
<1>8. r_q' \in Seq(Tasks \cup {Sentinel, NoTask}) /\ Len(r_q') <= QueueMax
  <2>1. r_q' \in Seq(Tasks \cup {Sentinel, NoTask}) /\ Len(r_q') = Len(r_q) - 1
        BY <1>4, <1>5, HeadTailProperties
  <2>2. Len(r_q) \in Nat BY <1>5, LenProperties
  <2> QED BY <1>5, <2>1, <2>2, Sizes, SMT
<1>9. ASSUME NEW t \in Tasks
      PROVE  Count(r_q', {t}) = Count(r_q, {t})
               + (IF l.task = t THEN 1 ELSE 0) - (IF b.task = t THEN 1 ELSE 0)
  <2>1. l.task # t /\ Sentinel # t /\ NoTask # t BY <1>3, Constants
  <2>2. Count(r_q', {t}) = Count(r_q, {t}) - One(e, {t}) BY <1>4, <1>5, CountTail
  <2>3. Count(r_q, {t}) \in Nat BY CountsAreNat DEF HandsInv
  <2>4. One(e, {t}) = IF b.task = t THEN 1 ELSE 0 BY <1>7, <2>1 DEF One
  <2> QED BY <2>1, <2>2, <2>3, <2>4
<1> QED BY <1>1, <1>4, <1>7, <1>8, <1>9, Passes

LEMMA ForwardMissed ==
  ASSUME NEW l \in Locals, l.site = "forward"
  PROVE  Missed(l).pc \in {"recount", "unlock"}
<1>1. Goto(l, "unlock").pc = "unlock" BY GotoIs DEF PCs
<1>2. CASE l.x > l.lo
  <2>1. l.x - 1 \in Nat
    <3>1. l.x \in Nat /\ l.lo \in Nat BY DEF Locals
    <3> QED BY <1>2, <3>1, SMT
  <2> DEFINE b == Look(l, l.x - 1)
  <2>2. b \in Locals BY <2>1, LookIs
  <2>3. Missed(l) = Goto(b, "recount") BY <1>2 DEF Missed, Goto
  <2> HIDE DEF b
  <2> QED BY <2>2, <2>3, GotoIs DEF PCs
<1> QED BY <1>1, <1>2 DEF Missed

(* A piece of one's own, or one found for the blocked.                     *)
LEMMA GiveKeeps ==
  ASSUME HandsInv, NEW w \in Workers, Give(w)
  PROVE  HandsInv'
<1> DEFINE l == loc[w]
           e == l.task
           k == [l EXCEPT !.task = NoTask]
           g == [l EXCEPT !.pc = "uncount", !.task = NoTask]
           b == IF l.site = "forward" THEN Missed(k) ELSE g
<1>1. running /\ l.pc = "give" BY DEF Give, At
<1>2. l.pc \notin AfterRun \cup {"span"} BY <1>1 DEF AfterRun
<1>3. /\ l \in Locals /\ m_nTasks \in Nat /\ l.max < m_nTasks /\ l.max <= m_nTasks
      /\ (l.site = "forward" => l.x <= m_nTasks) /\ e \in Tasks \cup {NoTask}
      /\ InTable(l)
      BY <1>1, <1>2, Elsewhere DEF OK, Locals
<1>4. /\ Becomes(w, b) /\ r_q' = Append(r_q, e) /\ Len(r_q) < QueueMax
      /\ UNCHANGED <<rows, bounds, m_nCacheStart, m_nBlocking, progress, m_mutex, running>>
      BY DEF Give
<1>5. r_q \in Seq(Tasks \cup {Sentinel, NoTask}) BY DEF HandsInv, HandsTypes
<1>6. OK(b) /\ b.pc \notin AfterRun /\ b.task = NoTask
  <2>1. CASE l.site = "forward"
    <3>1. /\ k \in Locals /\ k.task = NoTask /\ k.max = l.max /\ k.site = "forward"
          /\ k.x = l.x
          BY <1>3, <2>1 DEF Locals
    <3> HIDE DEF k
    <3>2. OK(Missed(k)) /\ Missed(k).task = NoTask BY <1>3, <2>1, <3>1, MissedOK
    <3>3. Missed(k).pc \in {"recount", "unlock"} BY <3>1, ForwardMissed
    <3> QED BY <2>1, <3>2, <3>3 DEF AfterRun
  <2>2. CASE l.site # "forward"
    <3>1. /\ g \in Locals /\ g.pc = "uncount" /\ g.task = NoTask /\ g.max = l.max
          /\ g.site = l.site /\ g.x = l.x
          BY <1>3 DEF Locals, PCs
    <3>2. b = g BY <2>2
    <3> HIDE DEF g, b
    <3>3. InTable(g) BY <1>3, <2>2, <3>1 DEF InTable, Looking
    <3>4. InHand(g) BY <2>2, <3>1 DEF InHand, Handless, Looking, AfterRun
    <3>5. AsRead(g) BY <3>1, Relaxed DEF AfterRun
    <3> QED BY <3>1, <3>2, <3>3, <3>4, <3>5 DEF OK, AfterRun
  <2> QED BY <2>1, <2>2
<1> HIDE DEF b
<1>7. r_q' \in Seq(Tasks \cup {Sentinel, NoTask}) /\ Len(r_q') <= QueueMax
  <2>1. r_q' \in Seq(Tasks \cup {Sentinel, NoTask}) /\ Len(r_q') = Len(r_q) + 1
        BY <1>3, <1>4, <1>5, AppendProperties
  <2>2. Len(r_q) \in Nat BY <1>5, LenProperties
  <2> QED BY <1>4, <2>1, <2>2, Sizes, SMT
<1>8. ASSUME NEW t \in Tasks
      PROVE  Count(r_q', {t}) = Count(r_q, {t})
               + (IF e = t THEN 1 ELSE 0) - (IF b.task = t THEN 1 ELSE 0)
  <2>1. b.task # t BY <1>6, Constants
  <2>2. Count(r_q', {t}) = Count(r_q, {t}) + One(e, {t}) BY <1>3, <1>4, <1>5, CountAppend
  <2>3. One(e, {t}) = IF e = t THEN 1 ELSE 0 BY DEF One
  <2>4. Count(r_q, {t}) \in Nat BY CountsAreNat DEF HandsInv
  <2> QED BY <2>1, <2>2, <2>3, <2>4
<1> QED BY <1>1, <1>4, <1>6, <1>7, <1>8, Passes

-----------------------------------------------------------------------------
(* The main thread.                                                        *)

(* The row that is added is beyond every row that a worker looks at.       *)
LEMMA TaskAddKeeps ==
  ASSUME HandsInv, NEW d \in Descriptions, TaskAdd(d)
  PROVE  HandsInv'
<1> DEFINE n == m_nTasks
<1>0. HandsTypes /\ RowsInOrder BY DEF HandsInv
<1>1. /\ m_nTasks' = n + 1 /\ description' = [description EXCEPT ![n] = d]
      /\ progress' = [progress EXCEPT ![n] = Untouched]
      /\ UNCHANGED <<m_min, m_max, m_nCacheStart, m_nBlocking, m_mutex, r_q, running, loc>>
      BY DEF TaskAdd, bounds
<1>2. n \in Nat /\ n \in Rows /\ n + 1 \in 0 .. MaxTasks
  <2>1. n \in 0 .. MaxTasks /\ n < MaxTasks BY <1>0 DEF HandsTypes, TaskAdd
  <2> QED BY <2>1, Sizes, SMT DEF Rows
<1>3. /\ progress' \in [Rows -> Progress] /\ progress'[n] = Untouched
      /\ \A y \in Rows \ {n} : progress'[y] = progress[y]
      BY <1>0, <1>1, <1>2, Constants, ProgressTyped
<1>4. /\ description' \in [Rows -> Descriptions]
      /\ \A y \in Rows \ {n} : description'[y] = description[y]
      BY <1>0, <1>1, <1>2 DEF HandsTypes
<1>5. HandsTypes'
  <2>1. m_min' \in 0 .. m_nTasks' /\ m_max' \in 0 .. m_nTasks'
    <3>1. m_min \in 0 .. n /\ m_max \in 0 .. n BY <1>0 DEF HandsTypes
    <3> QED BY <1>1, <1>2, <3>1, SMT
  <2> QED BY <1>0, <1>1, <1>2, <1>3, <1>4, <2>1 DEF HandsTypes
<1>6. \A y \in Added : y \in Rows /\ y # n
  <2>1. \A y \in Added : y \in Rows /\ y \in Nat /\ y < n BY <1>0, AddedAreRows
  <2> QED BY <1>2, <2>1, SMT
<1>7. RowsInOrder'
  <2>1. Untouched.completed <= Untouched.working /\ Untouched.working <= Untouched.completed + 1
        BY SMT DEF Untouched
  <2>2. \A y \in Rows : progress'[y].completed <= progress'[y].working
        BY <1>0, <1>3, <2>1 DEF RowsInOrder
  <2>3. Added' = Added \cup {n} BY <1>1, <1>2, SMT DEF Added
  <2>4. ASSUME NEW y \in Added', description'[y].depend = "inorder"
        PROVE  progress'[y].working <= progress'[y].completed + 1
    <3>1. CASE y = n BY <1>3, <2>1, <3>1
    <3>2. CASE y # n
      <4>1. y \in Added /\ y \in Rows BY <1>6, <2>3, <3>2
      <4> QED BY <1>0, <1>3, <1>4, <2>4, <3>2, <4>1 DEF RowsInOrder
    <3> QED BY <3>1, <3>2
  <2> QED BY <2>2, <2>4 DEF RowsInOrder
<1>8. ASSUME NEW s \in Tasks PROVE Hands(s)' = IF GivenOut(s)' THEN 1 ELSE 0
  <2>1. Hands(s)' = Hands(s) BY <1>1 DEF Hands
  <2>2. GivenOut(s)' <=> GivenOut(s)
    <3>1. s[1] \in Rows /\ s[1] \in Nat BY Sizes, SMT DEF Tasks, Rows
    <3>2. CASE s[1] = n
      <4>1. ~GivenOut(s) BY <1>2, <3>2, SMT DEF GivenOut
      <4>2. ~(s[2] \in Untouched.completed .. Untouched.working - 1) BY SMT DEF Untouched
      <4> QED BY <1>3, <3>2, <4>1, <4>2 DEF GivenOut
    <3>3. CASE s[1] # n
      <4>1. s[1] < n + 1 <=> s[1] < n BY <1>2, <3>1, <3>3, SMT
      <4> QED BY <1>1, <1>3, <3>1, <3>3, <4>1 DEF GivenOut
    <3> QED BY <3>2, <3>3
  <2> QED BY <2>1, <2>2 DEF HandsInv
<1>9. CASE running
  <2>1. ASSUME NEW u \in Workers PROVE InTable(loc[u])' /\ InHand(loc[u])' /\ AsRead(loc[u])'
    <3> DEFINE l == loc[u]
    <3>1. OK(l) /\ l \in Locals BY <1>9, Worker DEF OK
    <3>2. loc'[u] = l BY <1>1
    <3>3. InHand(loc[u])' BY <3>1, <3>2 DEF OK, InHand
    <3>4. InTable(loc[u])'
      <4>1. l.max \in Nat /\ l.x \in Nat /\ l.hi \in Nat /\ l.last \in Nat BY <3>1 DEF Locals
      <4>2. \A i \in Nat : (i <= n => i <= n + 1) /\ (i < n => i < n + 1)
                             /\ (i \in 1 .. n => i \in 1 .. n + 1)
            BY <1>2, SMT
      <4>3. InTable(l) BY <3>1 DEF OK
      <4> HIDE DEF l
      <4> QED BY <1>1, <3>2, <4>1, <4>2, <4>3 DEF InTable
    <3>5. l.pc \in {"cache", "above", "take"} => description'[l.x] = description[l.x]
      <4>1. ASSUME l.pc \in {"cache", "above", "take"} PROVE l.x \in Added
            BY <1>9, <4>1, Scanning DEF Looking
      <4> QED BY <4>1, <1>4, <1>6
    <3>6. l.pc \in AfterRun => /\ description'[Tid(l)] = description[Tid(l)]
                               /\ progress'[Tid(l)] = progress[Tid(l)]
                               /\ l.seen.completed <= progress[Tid(l)].completed
      <4>1. ASSUME l.pc \in AfterRun
            PROVE  Tid(l) \in Added /\ l.seen.completed <= progress[Tid(l)].completed
            BY <1>9, <4>1, Completing, Own
      <4> QED BY <4>1, <1>3, <1>4, <1>6
    <3>7. {"shrink", "clear", "raise", "publish"} \subseteq AfterRun BY DEF AfterRun
    <3>8. AsRead(l) BY <3>1 DEF OK
    <3> HIDE DEF l
    <3>9. AsRead(loc[u])' BY <1>1, <3>2, <3>5, <3>6, <3>7, <3>8, StillRead
    <3> QED BY <3>3, <3>4, <3>9
  <2>2. m_nTasks' > 0 BY <1>1, <1>2, SMT
  <2> QED BY <1>1, <1>5, <1>7, <1>8, <1>9, <2>1, <2>2 DEF HandsInv
<1>10. CASE ~running BY <1>1, <1>5, <1>7, <1>8, <1>10 DEF HandsInv
<1> QED BY <1>9, <1>10

(* The workers start with nothing read.                                    *)
LEMMA FreshOK ==
  ASSUME m_nTasks \in Nat, m_nTasks > 0
  PROVE  OK(Fresh)
<1>1. /\ Fresh \in Locals /\ Fresh.pc = "start" /\ Fresh.site = "obtain" /\ Fresh.task = NoTask
      /\ Fresh.max = 0
      BY Constants DEF Fresh
<1>2. InTable(Fresh) BY <1>1 DEF InTable, Looking
<1>3. InHand(Fresh) BY <1>1 DEF InHand, AfterRun
<1>4. AsRead(Fresh) BY <1>1, Relaxed DEF AfterRun
<1> QED BY <1>1, <1>2, <1>3, <1>4 DEF OK

LEMMA FloodKeeps ==
  ASSUME HandsInv, Flood
  PROVE  HandsInv'
<1>1. /\ running' /\ m_nTasks' > 0 /\ \A w \in Workers : loc'[w] = Fresh
      /\ UNCHANGED <<rows, bounds, m_nCacheStart, m_nBlocking, progress, m_mutex, r_q, loc>>
      BY DEF Flood, HandsInv, rows
<1>2. HandsTypes' BY <1>1 DEF Flood, HandsInv, HandsTypes, rows, bounds
<1>3. RowsInOrder' /\ \A t \in Tasks : Hands(t)' = IF GivenOut(t)' THEN 1 ELSE 0
      BY <1>1 DEF HandsInv, RowsInOrder, Added, Hands, GivenOut, rows
<1>4. m_nTasks \in Nat /\ m_nTasks > 0
  <2>1. m_nTasks \in 0 .. MaxTasks BY DEF HandsInv, HandsTypes
  <2> QED BY <2>1, Sizes, SMT DEF Flood
<1>5. OK(Fresh) BY <1>4, FreshOK
<1>6. ASSUME NEW u \in Workers PROVE InTable(loc[u])' /\ InHand(loc[u])' /\ AsRead(loc[u])'
      BY <1>1, <1>5 DEF OK, InTable, InHand, AsRead, Open, AnyOrder, Tid, Tsk, rows, bounds
<1> QED BY <1>1, <1>2, <1>3, <1>6 DEF HandsInv

LEMMA NoHands ==
  ASSUME HandsTypes, r_q = <<>>, \A w \in Workers : loc[w].task = NoTask
  PROVE  \A t \in Tasks : Hands(t) = 0
<1> SUFFICES ASSUME NEW t \in Tasks PROVE Hands(t) = 0 OBVIOUS
<1>1. Hands(t) = Count(loc, Carrying(t)) + Count(r_q, {t}) BY HandsSum
<1>2. Count(r_q, {t}) = 0 BY CountEmpty
<1>3. \A w \in Workers : loc[w] \notin Carrying(t) BY Constants DEF Carrying
<1>4. Count(loc, Carrying(t)) = 0 BY <1>3, CountsAreNat
<1> QED BY <1>1, <1>2, <1>4

LEMMA ResetKeeps ==
  ASSUME HandsInv, Reset
  PROVE  HandsInv'
<1>0. HandsTypes /\ RowsInOrder BY DEF HandsInv
<1>1. /\ running' = FALSE /\ m_nTasks' = 0 /\ m_min' = 0 /\ m_max' = 0
      /\ m_nBlocking' = 0 /\ m_nCacheStart' = 0 /\ r_q' = <<>>
      /\ loc' = [w \in Workers |-> Fresh]
      /\ UNCHANGED <<description, progress, m_mutex>>
      BY DEF Reset
<1>2. 0 \in 0 .. MaxTasks /\ 0 \in 0 .. 0 /\ 0 \in 0 .. NData /\ 0 \in Int BY Sizes, SMT
<1>3. <<>> \in Seq(Tasks \cup {Sentinel, NoTask}) /\ Len(<<>>) <= QueueMax
      BY Sizes, SMT
<1>4. HandsTypes' BY <1>0, <1>1, <1>2, <1>3, Constants DEF HandsTypes
<1>5. RowsInOrder'
  <2>1. Added' = {} BY <1>1, SMT DEF Added
  <2> QED BY <1>0, <1>1, <2>1 DEF RowsInOrder
<1>6. \A t \in Tasks : Hands(t)' = 0
  <2>1. \A w \in Workers : loc'[w] = Fresh /\ Fresh.task = NoTask BY <1>1 DEF Fresh
  <2> SUFFICES ASSUME NEW t \in Tasks PROVE Hands(t)' = 0 OBVIOUS
  <2>2. NoTask # t BY Constants
  <2>3. {w \in Workers : loc'[w].task = t} = {} BY <2>1, <2>2
  <2>4. {i \in DOMAIN r_q' : r_q'[i] = t} = {} BY <1>1
  <2>5. Hands(t)' = Cardinality({}) + Cardinality({}) BY <2>3, <2>4 DEF Hands
  <2> QED BY <2>5, FS_EmptySet, SMT
<1>7. \A t \in Tasks : ~GivenOut(t)'
  <2>1. \A t \in Tasks : ~(t[1] < 0) BY Sizes, SMT DEF Tasks, Rows
  <2> QED BY <1>1, <2>1 DEF GivenOut
<1> QED BY <1>1, <1>4, <1>5, <1>6, <1>7 DEF HandsInv

LEMMA InitHands ==
  ASSUME Init
  PROVE  HandsInv
<1>1. 0 \in 0 .. MaxTasks /\ 0 \in 0 .. 0 /\ 0 \in 0 .. NData /\ 0 \in Int BY Sizes, SMT
<1>2. <<>> \in Seq(Tasks \cup {Sentinel, NoTask}) /\ Len(<<>>) <= QueueMax
      BY Sizes, SMT
<1>3. description \in [Rows -> Descriptions] BY DescriptionsAssumption DEF Init
<1>4. HandsTypes BY <1>1, <1>2, <1>3, Constants DEF Init, HandsTypes
<1>5. RowsInOrder
  <2>1. Added = {} BY SMT DEF Init, Added
  <2>2. Untouched.completed <= Untouched.working BY SMT DEF Untouched
  <2> QED BY <2>1, <2>2 DEF RowsInOrder, Init
<1>6. \A t \in Tasks : Hands(t) = 0 BY <1>4, NoHands DEF Init, Fresh
<1>7. \A t \in Tasks : ~GivenOut(t)
  <2>1. \A t \in Tasks : ~(t[1] < 0) BY Sizes, SMT DEF Tasks, Rows
  <2> QED BY <2>1 DEF Init, GivenOut
<1>8. \A w \in Workers : loc[w] = Fresh BY DEF Init
<1> QED BY <1>4, <1>5, <1>6, <1>7, <1>8 DEF Init, HandsInv

-----------------------------------------------------------------------------
LEMMA StepKeeps ==
  ASSUME HandsInv, NEW w \in Workers, Step(w)
  PROVE  HandsInv'
<1>1. CASE ObtainPvt(w)
      BY <1>1, LookAtKeeps, LookAtCacheKeeps, LookAboveKeeps, TakeKeeps, AdvanceCacheKeeps
      DEF ObtainPvt
<1>2. CASE Obtain(w)
      BY <1>2, StartKeeps, ReadCountKeeps, ReadFromKeeps, ReadToKeeps, LookAtLastKeeps,
         QuitsKeeps, PushSentinelKeeps, BlockKeeps, PopTaskKeeps
      DEF Obtain
<1>3. CASE CompletesTask(w)
      BY <1>3, RanKeeps, ReadMinKeeps, ReadMaxKeeps, SpinKeeps, ShrinkKeeps, ClearCacheKeeps,
         RaiseKeeps, CompleteKeeps, SpanKeeps
      DEF CompletesTask
<1>4. CASE Forwards(w)
      BY <1>4, SignalKeeps, LockKeeps, SignalAgainKeeps, GiveKeeps, UncountKeeps, RecountKeeps,
         UnlockKeeps
      DEF Forwards
<1> QED BY <1>1, <1>2, <1>3, <1>4 DEF Step

LEMMA StutterKeeps ==
  ASSUME HandsInv, UNCHANGED vars
  PROVE  HandsInv'
<1> USE DEF vars, rows, bounds
<1>1. HandsTypes' BY DEF HandsInv, HandsTypes
<1>2. RowsInOrder' BY DEF HandsInv, RowsInOrder, Added
<1>3. \A t \in Tasks : Hands(t)' = IF GivenOut(t)' THEN 1 ELSE 0
      BY DEF HandsInv, Hands, GivenOut
<1>4. \A l : InTable(l)' <=> InTable(l) BY DEF InTable
<1>5. ASSUME running, NEW u \in Workers
      PROVE  InTable(loc[u])' /\ InHand(loc[u])' /\ AsRead(loc[u])'
      BY <1>5, Worker DEF OK, InTable, InHand, AsRead, Open, AnyOrder, Tid, Tsk
<1>6. (running => m_nTasks > 0)' /\ (~running => r_q = <<>> /\ \A w \in Workers : loc[w] = Fresh)'
      BY DEF HandsInv
<1> QED BY <1>1, <1>2, <1>3, <1>5, <1>6 DEF HandsInv

(* Pieces go from hand to hand, whatever the order in which the workers    *)
(* take, complete, forward and pop them, also while rows are added.        *)
THEOREM PiecesInvariant == Spec => []HandsInv
<1>1. HandsInv /\ [Next]_vars => HandsInv'
  <2> SUFFICES ASSUME HandsInv, [Next]_vars PROVE HandsInv' OBVIOUS
  <2>1. ASSUME NEW d \in Descriptions, TaskAdd(d) PROVE HandsInv' BY <2>1, TaskAddKeeps
  <2>2. CASE Flood BY <2>2, FloodKeeps
  <2>3. CASE Reset BY <2>3, ResetKeeps
  <2>4. ASSUME NEW w \in Workers, Step(w) PROVE HandsInv' BY <2>4, StepKeeps
  <2>5. CASE UNCHANGED vars BY <2>5, StutterKeeps
  <2> QED BY <2>1, <2>2, <2>3, <2>4, <2>5 DEF Next
<1> QED BY <1>1, InitHands, PTL DEF Spec

LEMMA HandsAreOne ==
  ASSUME HandsInv
  PROVE  InOneHand
<1>1. HandsTypes BY DEF HandsInv
<1> SUFFICES ASSUME NEW x \in Added, NEW k \in 0 .. NData - 1
             PROVE  Hands(<<x, k>>) = IF k \in progress[x].completed .. progress[x].working - 1
                                        THEN 1 ELSE 0
    BY DEF InOneHand
<1>2. x \in Rows /\ x < m_nTasks BY <1>1, AddedAreRows
<1>3. <<x, k>> \in Tasks BY <1>2 DEF Tasks
<1> QED BY <1>2, <1>3 DEF HandsInv, GivenOut

(* Every piece given out and not complete is in exactly one hand, a        *)
(* worker's or the queue's: mpCTaskObtain gives no piece twice and         *)
(* forwarding loses none.                                                  *)
THEOREM OneHandEach == Spec => []InOneHand
  BY PiecesInvariant, HandsAreOne, PTL

LEMMA NoneFails ==
  ASSUME HandsInv
  PROVE  NoAssertFails
<1>1. CASE running BY <1>1, Worker DEF OK, AsRead, NoAssertFails
<1>2. CASE ~running BY <1>2 DEF HandsInv, NoAssertFails, Fresh
<1> QED BY <1>1, <1>2

(* No errorAssert of mpCTaskComplete raises: in a row with an order, the   *)
(* bounds and the progress that a worker compares are as it read them.     *)
THEOREM AssertionsHold == Spec => []NoAssertFails
  BY PiecesInvariant, NoneFails, PTL

-----------------------------------------------------------------------------
(* The frame: the count of blocked workers, the pieces forwarded to them   *)
(* and the end.                                                            *)

(* What a worker that knows l believes of n rows, of whether they are      *)
(* complete, of the count b and of the holder m of the mutex.              *)
Trusts(w, l, n, complete, b, m) ==
  /\ l.pc \in {"from", "to", "last"} \/ (l.pc \in Looking /\ l.site = "obtain") => l.last = n
  /\ l.pc = "quit" => complete
  /\ l.pc \in {"announce", "returned"} => b < 0
  /\ l.pc = "signal" /\ l.task = NoTask => b < 0
  /\ l.pc \in {"lock", "again", "give"} => l.task # NoTask
  /\ l.pc \in {"give", "uncount"} => l.v > 0
  /\ CountsOn(l) /\ ~(b < 0) => l.v = b /\ l.v > 0
  /\ l.site = "forward" => l.pc \in Looking \cup {"advance", "give", "uncount", "recount",
                                                  "unlock"}
  /\ Locked(l) <=> m = w

LEMMA BelievesIs ==
  ASSUME NEW w \in Workers
  PROVE  Believes(w) <=> Trusts(w, loc[w], m_nTasks, AllComplete, m_nBlocking, m_mutex)
  BY DEF Believes, Trusts, Ended

LEMMA BelievesNext ==
  ASSUME NEW w \in Workers, NEW l, loc'[w] = l,
         Trusts(w, l, m_nTasks', AllComplete', m_nBlocking', m_mutex')
  PROVE  Believes(w)'
  BY DEF Believes, Trusts, Ended, CountsOn, Locked

(* A worker that minds its own piece believes nothing.                     *)
LEMMA BusyTrusts ==
  ASSUME NEW w, NEW l, NEW n, NEW c, NEW b, NEW m, l.site # "forward", m # w,
         l.pc \in AfterRun \cup {"run", "span", "start", "count", "block", "pop", "failed"}
  PROVE  Trusts(w, l, n, c, b, m)
  BY DEF Trusts, CountsOn, Locked, AfterRun, Looking

LEMMA MissedTrusts ==
  ASSUME NEW w, NEW l \in Locals, NEW n, NEW c, NEW b, NEW m,
         l.site = "obtain" => l.last = n, l.site = "forward" <=> m = w
  PROVE  Trusts(w, Missed(l), n, c, b, m)
<1>0. l.site \in Sites /\ l.x \in Nat /\ l.lo \in Nat /\ l.hi \in Nat BY DEF Locals
<1>1. CASE l.site = "obtain"
  <2>1. CASE l.x < l.hi
    <3> DEFINE k == Look(l, l.x + 1)
    <3>1. l.x + 1 \in Nat BY <1>0, SMT
    <3>2. k.pc = "look" /\ k.site = "obtain" /\ k.last = l.last BY <1>1, <3>1, LookIs
    <3>3. Missed(l) = k BY <1>1, <2>1 DEF Missed
    <3> HIDE DEF k
    <3> QED BY <1>1, <3>2, <3>3 DEF Trusts, CountsOn, Locked, Looking
  <2>2. CASE ~(l.x < l.hi)
    <3> DEFINE k == Goto(l, "last")
    <3>2. k.pc = "last" /\ k.site = "obtain" /\ k.last = l.last BY <1>1, GotoIs DEF PCs
    <3>3. Missed(l) = k BY <1>1, <2>2 DEF Missed
    <3> HIDE DEF k
    <3> QED BY <1>1, <3>2, <3>3 DEF Trusts, CountsOn, Locked, Looking
  <2> QED BY <2>1, <2>2
<1>2. CASE l.site = "near"
  <2>1. CASE l.x > l.lo
    <3> DEFINE k == Look(l, l.x - 1)
    <3>1. l.x - 1 \in Nat BY <1>0, <2>1, SMT
    <3>2. k.pc = "look" /\ k.site = "near" BY <1>2, <3>1, LookIs
    <3>3. Missed(l) = k BY <1>2, <2>1 DEF Missed
    <3> HIDE DEF k
    <3> QED BY <1>2, <3>2, <3>3 DEF Trusts, CountsOn, Locked, Looking
  <2>2. CASE ~(l.x > l.lo)
    <3> DEFINE k == CallObtain(l, "signal")
    <3>2. k.pc = "count" /\ k.site = "obtain" BY CallIs
    <3>3. Missed(l) = k BY <1>2, <2>2 DEF Missed
    <3> HIDE DEF k
    <3> QED BY <1>2, <3>2, <3>3, BusyTrusts
  <2> QED BY <2>1, <2>2
<1>3. CASE l.site = "forward"
  <2>1. CASE l.x > l.lo
    <3> DEFINE j == Look(l, l.x - 1)
               k == Goto(j, "recount")
    <3>1. l.x - 1 \in Nat BY <1>0, <2>1, SMT
    <3>2. j \in Locals /\ j.site = "forward" BY <1>3, <3>1, LookIs
    <3>3. Missed(l) = k BY <1>3, <2>1 DEF Missed, Goto
    <3> HIDE DEF j
    <3>4. k.pc = "recount" /\ k.site = "forward" BY <3>2, GotoIs DEF PCs
    <3> HIDE DEF k
    <3> QED BY <1>3, <3>3, <3>4 DEF Trusts, CountsOn, Locked, Looking
  <2>2. CASE ~(l.x > l.lo)
    <3> DEFINE k == Goto(l, "unlock")
    <3>2. k.pc = "unlock" /\ k.site = "forward" BY <1>3, GotoIs DEF PCs
    <3>3. Missed(l) = k BY <1>3, <2>2 DEF Missed
    <3> HIDE DEF k
    <3> QED BY <1>3, <3>2, <3>3 DEF Trusts, CountsOn, Locked, Looking
  <2> QED BY <2>1, <2>2
<1> QED BY <1>0, <1>1, <1>2, <1>3 DEF Sites

LEMMA BackTrusts ==
  ASSUME NEW w, NEW l \in Locals, NEW n, NEW c, NEW b, NEW m, m # w, l.task = NoTask => b < 0
  PROVE  Trusts(w, BackFromObtain(l), n, c, b, m)
<1> DEFINE k == BackFromObtain(l)
<1>1. k.site = "obtain" /\ k.task = l.task /\ k.pc \in {"signal", "returned", "run"}
      /\ (k.pc = "returned" => k.task = NoTask)
  <2>1. l.ret \in {"run", "signal"} BY DEF Locals
  <2> QED BY <2>1, BackIs, ReturnedIs
<1> HIDE DEF k
<1>2. Trusts(w, k, n, c, b, m) BY <1>1 DEF Trusts, CountsOn, Locked, Looking
<1> QED BY <1>2 DEF k

LEMMA ReturnedTrusts ==
  ASSUME NEW w, NEW l \in Locals, NEW n, NEW c, NEW b, NEW m, m # w, l.task = NoTask => b < 0
  PROVE  Trusts(w, Returned(l), n, c, b, m)
<1> DEFINE k == Returned(l)
<1>1. k.site = "obtain" /\ k.task = l.task /\ k.pc \in {"returned", "run"}
      /\ (k.pc = "returned" => k.task = NoTask)
      BY ReturnedIs
<1> HIDE DEF k
<1>2. Trusts(w, k, n, c, b, m) BY <1>1 DEF Trusts, CountsOn, Locked, Looking
<1> QED BY <1>2 DEF k

LEMMA FoundTrusts ==
  ASSUME NEW w, NEW l \in Locals, NEW n, NEW c, NEW b, NEW m, l.task # NoTask,
         l.site = "forward" <=> m = w, l.site = "forward" => l.v = b /\ l.v > 0
  PROVE  Trusts(w, Found(l), n, c, b, m)
<1>0. l.site \in Sites BY DEF Locals
<1>1. CASE l.site = "obtain" BY <1>1, BackTrusts DEF Found
<1>2. CASE l.site # "obtain"
  <2> DEFINE p == IF l.site = "near" THEN "signal" ELSE "uncount"
             k == Goto(l, p)
  <2>1. k.pc = p /\ k.site = l.site /\ k.task = l.task /\ k.v = l.v BY GotoIs DEF PCs
  <2>2. Found(l) = k BY <1>0, <1>2 DEF Found, Sites
  <2> HIDE DEF k
  <2>3. CASE l.site = "near"
        BY <2>1, <2>2, <2>3 DEF Trusts, CountsOn, Locked, Looking
  <2>4. CASE l.site = "forward"
        BY <2>1, <2>2, <2>4 DEF Trusts, CountsOn, Locked, Looking
  <2> QED BY <1>0, <1>2, <2>3, <2>4 DEF Sites
<1> QED BY <1>1, <1>2

-----------------------------------------------------------------------------
(* Where the workers are, counted.                                         *)
AwaitsAt == {l \in Locals : l.pc = "pop" \/ (l.pc = "uncount" /\ l.site # "forward")}
GivesAt == {l \in Locals : l.pc = "give" /\ l.site = "forward"}
LeavesAt == {l \in Locals : l.pc \in {"pop", "announce", "signal", "returned"}}
Weight(l) == One(l, AwaitsAt) - One(l, GivesAt)

LEMMA PlacesCount ==
  /\ HandsTypes => /\ Cardinality(Awaiting) = Count(loc, AwaitsAt)
                   /\ Cardinality(Giving) = Count(loc, GivesAt)
                   /\ Cardinality(Leaving) = Count(loc, LeavesAt)
  /\ HandsTypes' => /\ Cardinality(Awaiting)' = Count(loc', AwaitsAt)
                    /\ Cardinality(Giving)' = Count(loc', GivesAt)
                    /\ Cardinality(Leaving)' = Count(loc', LeavesAt)
<1>1. ASSUME HandsTypes
      PROVE  /\ Awaiting = Where(loc, AwaitsAt) /\ Giving = Where(loc, GivesAt)
             /\ Leaving = Where(loc, LeavesAt)
      BY <1>1 DEF HandsTypes, Awaiting, Giving, Leaving, Where, AwaitsAt, GivesAt, LeavesAt
<1>2. ASSUME HandsTypes'
      PROVE  /\ Awaiting' = Where(loc', AwaitsAt) /\ Giving' = Where(loc', GivesAt)
             /\ Leaving' = Where(loc', LeavesAt)
  <2>1. loc' \in [Workers -> Locals] BY <1>2 DEF HandsTypes
  <2> QED BY <2>1 DEF Awaiting, Giving, Leaving, Where, AwaitsAt, GivesAt, LeavesAt
<1> QED BY <1>1, <1>2 DEF Count

LEMMA PlacesMove ==
  ASSUME HandsTypes, NEW w \in Workers, NEW l, Becomes(w, l), NEW S
  PROVE  Count(loc', S) = Count(loc, S) - One(loc[w], S) + One(l, S)
<1>1. /\ IsFiniteSet(Workers) /\ DOMAIN loc = Workers /\ DOMAIN loc' = Workers
      /\ \A u \in Workers \ {w} : loc'[u] = loc[u]
      /\ loc'[w] = l
      BY WorkersAssumption DEF HandsTypes, Becomes
<1> QED BY <1>1, CountExcept

(* Weights cancel out, and nobody who knows that the frame has ended goes  *)
(* back to work.                                                           *)
LEMMA BlockingKeeps ==
  ASSUME HandsTypes, HandsTypes', Blocking, NEW w \in Workers, NEW l, Becomes(w, l),
         AllComplete => AllComplete', NEW d \in Int,
         Cardinality(Forwarded) \in Int, Cardinality(Forwarded)' = Cardinality(Forwarded) + d,
         ~Ended => /\ m_nBlocking' = m_nBlocking + Weight(l) - Weight(loc[w]) - d
                   /\ ~Ended',
         Ended => /\ m_nBlocking' >= m_nBlocking
                  /\ m_nBlocking' - m_nBlocking <= One(l, LeavesAt) - One(loc[w], LeavesAt)
  PROVE  Blocking' /\ (Ended => Ended')
<1> DEFINE A == Count(loc, AwaitsAt)
           G == Count(loc, GivesAt)
           L == Count(loc, LeavesAt)
           A2 == Count(loc', AwaitsAt)
           G2 == Count(loc', GivesAt)
           L2 == Count(loc', LeavesAt)
           F == Cardinality(Forwarded)
           B == m_nBlocking
<1>1. /\ A \in Nat /\ G \in Nat /\ L \in Nat BY CountsAreNat
<1>2. /\ A2 = A - One(loc[w], AwaitsAt) + One(l, AwaitsAt)
      /\ G2 = G - One(loc[w], GivesAt) + One(l, GivesAt)
      /\ L2 = L - One(loc[w], LeavesAt) + One(l, LeavesAt)
      BY PlacesMove
<1>3. B \in Int /\ m_nBlocking' \in Int BY DEF HandsTypes
<1>4. \A v, S : One(v, S) \in Int BY DEF One
<1>5. L2 <= Cardinality(Workers) /\ Cardinality(Workers) < 100 /\ L2 \in Int
      /\ Cardinality(Workers) \in Nat
  <2>1. DOMAIN loc' = Workers /\ IsFiniteSet(Workers) BY WorkersAssumption DEF HandsTypes
  <2> QED BY <2>1, CountType, FS_CardinalityType, WorkersAssumption
<1>6. CASE ~Ended
  <2>1. B = A - F - G BY <1>6, PlacesCount DEF Blocking
  <2>2. m_nBlocking' = B + (One(l, AwaitsAt) - One(l, GivesAt))
                         - (One(loc[w], AwaitsAt) - One(loc[w], GivesAt)) - d
        BY <1>6 DEF Weight
  <2> DEFINE a == One(l, AwaitsAt)
             g == One(l, GivesAt)
             a0 == One(loc[w], AwaitsAt)
             g0 == One(loc[w], GivesAt)
  <2>3. a \in Int /\ g \in Int /\ a0 \in Int /\ g0 \in Int BY <1>4
  <2>4. m_nBlocking' = B + (a - g) - (a0 - g0) - d /\ A2 = A - a0 + a /\ G2 = G - g0 + g
        BY <1>2, <2>2
  <2> HIDE DEF a, g, a0, g0, A, G, A2, G2, F, B
  <2>5. m_nBlocking' = A2 - (F + d) - G2 BY <1>1, <2>1, <2>3, <2>4, <1>3, SMT DEF F
  <2> QED BY <1>6, <2>5, PlacesCount DEF Blocking, F, A2, G2
<1>7. CASE Ended
  <2>1. AllComplete /\ B \in -100 .. L - 100 BY <1>7, PlacesCount DEF Blocking
  <2> DEFINE e == One(l, LeavesAt)
             e0 == One(loc[w], LeavesAt)
  <2>2. e \in Int /\ e0 \in Int BY <1>4
  <2>3. m_nBlocking' >= B /\ m_nBlocking' - B <= e - e0 /\ L2 = L - e0 + e
        BY <1>2, <1>7
  <2> DEFINE b == m_nBlocking'
             C == Cardinality(Workers)
  <2>4. B \in -100 .. L - 100 /\ b \in Int /\ B \in Int BY <1>3, <2>1
  <2>5. b >= B /\ b - B <= e - e0 /\ C \in Nat /\ C < 100 BY <1>5, <2>3
  <2>6. L2 = L - e0 + e /\ L2 <= C /\ L2 \in Int BY <1>5, <2>3
  <2> HIDE DEF e, e0, L, L2, B, b, C
  <2>7. b \in -100 .. L2 - 100 /\ b < 0 BY <1>1, <2>2, <2>4, <2>5, <2>6, SMT
  <2>8. Ended' BY <2>7 DEF Ended, b
  <2> QED BY <2>1, <2>7, <2>8, PlacesCount DEF Blocking, L2, b
<1> QED BY <1>6, <1>7

(* What of the frame a step has to see to, besides the pieces.             *)
LEMMA FrameMoves ==
  ASSUME FrameInv, HandsInv', running, NEW w \in Workers, NEW l, Becomes(w, l),
         UNCHANGED <<rows, running>>, AboveIsDone', AllComplete => AllComplete',
         Trusts(w, l, m_nTasks, AllComplete', m_nBlocking', m_mutex'),
         m_mutex' = m_mutex \/ (m_mutex \in {w, Nobody} /\ m_mutex' \in {w, Nobody}),
         m_nBlocking' = m_nBlocking \/ m_mutex \in {w, Nobody} \/ m_nBlocking' < 0,
         Blocking', Ended => Ended',
         \A i \in DOMAIN r_q' : r_q'[i] # NoTask /\ (r_q'[i] = Sentinel => Ended')
  PROVE  FrameInv'
<1>0. HandsTypes BY DEF FrameInv, HandsInv
<1>1. Believes(w)'
  <2>1. loc'[w] = l /\ m_nTasks' = m_nTasks BY <1>0 DEF HandsTypes, Becomes, rows
  <2> QED BY <2>1, BelievesNext
<1>2. ASSUME NEW u \in Workers \ {w} PROVE Believes(u)'
  <2> DEFINE k == loc[u]
  <2>1. loc'[u] = k /\ m_nTasks' = m_nTasks BY <1>0 DEF HandsTypes, Becomes, rows
  <2>2. Trusts(u, k, m_nTasks, AllComplete, m_nBlocking, m_mutex)
        BY BelievesIs DEF FrameInv
  <2>3. Nobody # u /\ u # w BY Constants
  <2>4. CountsOn(k) => Locked(k) BY DEF CountsOn, Locked
  <2>5. Locked(k) => m_nBlocking' = m_nBlocking \/ m_nBlocking' < 0 BY <2>2, <2>3 DEF Trusts
  <2>6. m_mutex' = u <=> m_mutex = u BY <2>3
  <2>7. (m_nBlocking < 0 => m_nBlocking' < 0) BY DEF Ended
  <2> HIDE DEF k
  <2>8. Trusts(u, k, m_nTasks, AllComplete', m_nBlocking', m_mutex')
        BY <2>2, <2>4, <2>5, <2>6, <2>7 DEF Trusts
  <2> QED BY <2>1, <2>8, BelievesNext
<1> QED BY <1>1, <1>2 DEF FrameInv

LEMMA Weights ==
  ASSUME NEW l \in Locals
  PROVE  /\ l.pc \notin {"pop", "uncount", "give"} => Weight(l) = 0
         /\ l.pc = "uncount" /\ l.site = "forward" => Weight(l) = 0
         /\ l.pc = "give" /\ l.site # "forward" => Weight(l) = 0
         /\ l.pc = "pop" => Weight(l) = 1
         /\ l.pc = "uncount" /\ l.site # "forward" => Weight(l) = 1
         /\ l.pc = "give" /\ l.site = "forward" => Weight(l) = -1
<1>1. One(l, AwaitsAt) = IF l.pc = "pop" \/ (l.pc = "uncount" /\ l.site # "forward") THEN 1 ELSE 0
      BY DEF One, AwaitsAt
<1>2. One(l, GivesAt) = IF l.pc = "give" /\ l.site = "forward" THEN 1 ELSE 0
      BY DEF One, GivesAt
<1> QED BY <1>1, <1>2, SMT DEF Weight

LEMMA LeavesOne ==
  ASSUME NEW l \in Locals
  PROVE  One(l, LeavesAt) = IF l.pc \in {"pop", "announce", "signal", "returned"} THEN 1 ELSE 0
  BY DEF One, LeavesAt

LEMMA ForwardedIs ==
  ASSUME HandsTypes
  PROVE  Forwarded \in SUBSET (DOMAIN r_q) /\ Cardinality(Forwarded) \in Nat
<1>1. IsFiniteSet(DOMAIN r_q) BY SeqDomain DEF HandsTypes
<1>2. Forwarded \in SUBSET (DOMAIN r_q) BY DEF Forwarded
<1>3. IsFiniteSet(Forwarded) BY <1>1, <1>2, FS_Subset
<1> QED BY <1>2, <1>3, FS_CardinalityType

(* A piece in anyone's hands is not complete: the frame has not ended.     *)
LEMMA NotYet ==
  ASSUME HandsInv, NEW t \in Tasks, GivenOut(t)
  PROVE  ~AllComplete
<1>0. HandsTypes BY DEF HandsInv
<1>1. t[1] \in Rows /\ t[1] < m_nTasks
      /\ t[2] \in progress[t[1]].completed .. progress[t[1]].working - 1
      BY DEF Tasks, GivenOut
<1>2. progress[t[1]].completed \in 0 .. NData /\ progress[t[1]].working \in 0 .. NData
      BY <1>0, <1>1, Kinds
<1>3. progress[t[1]].completed # NData BY <1>1, <1>2, Sizes, SMT
<1>4. t[1] \in Added
  <2>1. m_nTasks \in 0 .. MaxTasks BY <1>0 DEF HandsTypes
  <2> QED BY <1>1, <2>1, Sizes, SMT DEF Rows, Added
<1> QED BY <1>3, <1>4 DEF AllComplete

LEMMA StillOn ==
  ASSUME FrameInv, running, NEW w \in Workers, loc[w].task # NoTask
  PROVE  ~AllComplete /\ ~Ended /\ m_nBlocking \in Nat
<1>1. HandsInv /\ m_nBlocking \in Int BY DEF FrameInv, HandsInv, HandsTypes
<1>2. ~AllComplete BY <1>1, Own, NotYet
<1>3. ~Ended BY <1>2 DEF FrameInv, Blocking
<1>4. m_nBlocking \in Nat BY <1>1, <1>3, SMT DEF Ended
<1> QED BY <1>2, <1>3, <1>4

LEMMA AboveSame ==
  ASSUME FrameInv, running, NEW w \in Workers, NEW l, Becomes(w, l),
         UNCHANGED <<rows, progress, running>>,
         l.pc = "take" /\ l.x > 0 =>
           progress[l.x - 1].completed > PrevLimit(l.x, l.seen.working)
  PROVE  AboveIsDone' /\ (AllComplete' <=> AllComplete)
<1>1. \A u \in Workers : loc'[u] = IF u = w THEN l ELSE loc[u]
      BY DEF FrameInv, HandsInv, HandsTypes, Becomes
<1>2. Added' = Added /\ \A x, k : PrevLimit(x, k)' = PrevLimit(x, k)
      BY DEF Added, PrevLimit, rows
<1>3. AllComplete' <=> AllComplete BY <1>2 DEF AllComplete
<1>4. AboveIsDone BY DEF FrameInv
<1>5. ASSUME NEW u \in Workers, loc'[u].pc = "take", loc'[u].x > 0
      PROVE  progress'[loc'[u].x - 1].completed > PrevLimit(loc[u].x, loc[u].seen.working)'
  <2> DEFINE k == IF u = w THEN l ELSE loc[u]
  <2>1. loc'[u] = k BY <1>1
  <2>2. k.pc = "take" /\ k.x > 0 => progress[k.x - 1].completed > PrevLimit(k.x, k.seen.working)
        BY <1>4 DEF AboveIsDone
  <2> HIDE DEF k
  <2>3. k.pc = "take" /\ k.x > 0 BY <1>5, <2>1
  <2>4. PrevLimit(loc[u].x, loc[u].seen.working)' = PrevLimit(k.x, k.seen.working)
        BY <2>1 DEF PrevLimit, rows
  <2> QED BY <2>1, <2>2, <2>3, <2>4
<1>6. (\A x \in Added : x > 0 /\ progress[x].working > 0 =>
         progress[x - 1].completed > PrevLimit(x, progress[x].working - 1))'
      BY <1>4 DEF AboveIsDone, Added, PrevLimit, rows
<1>7. (\A x, y \in Added : x < y /\ progress[y].working = NData => progress[x].completed = NData)'
      BY <1>2, <1>4 DEF AboveIsDone
<1>8. (\A u \in Workers : loc[u].pc = "take" /\ loc[u].x > 0 =>
         progress[loc[u].x - 1].completed > PrevLimit(loc[u].x, loc[u].seen.working))'
      BY <1>5
<1> QED BY <1>3, <1>6, <1>7, <1>8 DEF AboveIsDone

(* A step that reads, or writes nothing that the count depends on.         *)
LEMMA FrameReads ==
  ASSUME FrameInv, HandsInv', running, NEW w \in Workers, NEW l \in Locals, Becomes(w, l),
         UNCHANGED <<rows, progress, running, r_q, m_nBlocking, m_mutex>>,
         l.pc = "take" /\ l.x > 0 =>
           progress[l.x - 1].completed > PrevLimit(l.x, l.seen.working),
         Weight(l) = Weight(loc[w]), Weight(l) \in Int,
         Ended /\ loc[w].pc \in {"pop", "announce", "signal", "returned"}
           => l.pc \in {"pop", "announce", "signal", "returned"},
         Trusts(w, l, m_nTasks, AllComplete, m_nBlocking, m_mutex)
  PROVE  FrameInv'
<1>0. HandsTypes /\ HandsTypes' /\ Blocking /\ m_nBlocking \in Int /\ loc[w] \in Locals
      BY DEF FrameInv, HandsInv, HandsTypes
<1>1. AboveIsDone' /\ (AllComplete' <=> AllComplete) BY AboveSame
<1>2. Cardinality(Forwarded) \in Int /\ Cardinality(Forwarded)' = Cardinality(Forwarded) + 0
  <2>1. Cardinality(Forwarded)' = Cardinality(Forwarded) BY DEF Forwarded
  <2>2. Cardinality(Forwarded) \in Nat BY <1>0, ForwardedIs
  <2> QED BY <2>1, <2>2, SMT
<1>3. ~Ended => m_nBlocking' = m_nBlocking + Weight(l) - Weight(loc[w]) - 0 /\ ~Ended'
  <2>1. m_nBlocking' = m_nBlocking /\ (Ended' <=> Ended) BY DEF Ended
  <2> DEFINE a == Weight(l)
  <2>2. a \in Int /\ Weight(loc[w]) = a OBVIOUS
  <2> HIDE DEF a
  <2>3. m_nBlocking' = m_nBlocking + a - a - 0 BY <1>0, <2>1, <2>2, SMT
  <2> QED BY <2>1, <2>2, <2>3 DEF a
<1>4. Ended => /\ m_nBlocking' >= m_nBlocking
               /\ m_nBlocking' - m_nBlocking <= One(l, LeavesAt) - One(loc[w], LeavesAt)
  <2> SUFFICES ASSUME Ended PROVE /\ m_nBlocking' >= m_nBlocking
                                  /\ m_nBlocking' - m_nBlocking
                                       <= One(l, LeavesAt) - One(loc[w], LeavesAt)
      OBVIOUS
  <2> DEFINE e == One(l, LeavesAt)
             e0 == One(loc[w], LeavesAt)
  <2>1. (e = 0 \/ e = 1) /\ (e0 = 0 \/ e0 = 1) /\ (e0 = 1 => e = 1) BY <1>0, LeavesOne
  <2> HIDE DEF e, e0
  <2>2. m_nBlocking' >= m_nBlocking /\ m_nBlocking' - m_nBlocking <= e - e0
        BY <1>0, <2>1, SMT
  <2> QED BY <2>2 DEF e, e0
<1>5. Blocking' /\ (Ended => Ended') BY <1>0, <1>1, <1>2, <1>3, <1>4, BlockingKeeps
<1>6. \A i \in DOMAIN r_q' : r_q'[i] # NoTask /\ (r_q'[i] = Sentinel => Ended')
      BY <1>5 DEF FrameInv
<1>7. Trusts(w, l, m_nTasks, AllComplete', m_nBlocking', m_mutex') BY <1>1 DEF Trusts
<1> QED BY <1>1, <1>5, <1>6, <1>7, FrameMoves

LEMMA Knows ==
  ASSUME FrameInv, NEW w \in Workers
  PROVE  /\ HandsInv /\ loc[w] \in Locals /\ loc[w].site \in Sites
         /\ m_nBlocking \in Int /\ (Ended <=> m_nBlocking < 0)
         /\ Trusts(w, loc[w], m_nTasks, AllComplete, m_nBlocking, m_mutex)
<1>1. HandsInv /\ loc[w] \in Locals /\ m_nBlocking \in Int BY DEF FrameInv, HandsInv, HandsTypes
<1>2. loc[w].site \in Sites BY <1>1 DEF Locals
<1>3. Trusts(w, loc[w], m_nTasks, AllComplete, m_nBlocking, m_mutex) BY BelievesIs DEF FrameInv
<1> QED BY <1>1, <1>2, <1>3 DEF Ended

LEMMA NextLocal ==
  ASSUME HandsInv, HandsInv', NEW w \in Workers, NEW l, Becomes(w, l)
  PROVE  l \in Locals /\ loc'[w] = l
<1>1. loc'[w] = l BY DEF HandsInv, HandsTypes, Becomes
<1>2. loc'[w] \in Locals BY DEF HandsInv, HandsTypes
<1> QED BY <1>1, <1>2

LEMMA MissedAt ==
  ASSUME NEW l \in Locals
  PROVE  Missed(l).pc \in {"look", "last", "count", "recount", "unlock"}
<1>0. l.site \in Sites /\ l.x \in Nat /\ l.lo \in Nat /\ l.hi \in Nat BY DEF Locals
<1>1. CASE l.site = "obtain"
  <2>1. CASE l.x < l.hi
    <3>1. l.x + 1 \in Nat BY <1>0, SMT
    <3> QED BY <1>1, <2>1, <3>1, LookIs DEF Missed
  <2>2. CASE ~(l.x < l.hi) BY <1>1, <2>2, GotoIs DEF Missed, PCs
  <2> QED BY <2>1, <2>2
<1>2. CASE l.site = "near"
  <2>1. CASE l.x > l.lo
    <3>1. l.x - 1 \in Nat BY <1>0, <2>1, SMT
    <3> QED BY <1>2, <2>1, <3>1, LookIs DEF Missed
  <2>2. CASE ~(l.x > l.lo) BY <1>2, <2>2, CallIs DEF Missed
  <2> QED BY <2>1, <2>2
<1>3. CASE l.site = "forward" BY <1>3, ForwardMissed
<1> QED BY <1>0, <1>1, <1>2, <1>3 DEF Sites

LEMMA MissFrame ==
  ASSUME FrameInv, HandsInv', running, NEW w \in Workers, loc[w].pc \in Looking,
         Becomes(w, Missed(loc[w])),
         UNCHANGED <<rows, progress, running, r_q, m_nBlocking, m_mutex>>
  PROVE  FrameInv'
<1> DEFINE l == loc[w]
           k == Missed(l)
<1>1. /\ HandsInv /\ l \in Locals
      /\ Trusts(w, l, m_nTasks, AllComplete, m_nBlocking, m_mutex)
      BY Knows
<1>2. (l.site = "obtain" => l.last = m_nTasks) /\ (l.site = "forward" <=> m_mutex = w)
      BY <1>1 DEF Trusts, Looking, Locked
<1>3. Trusts(w, k, m_nTasks, AllComplete, m_nBlocking, m_mutex) BY <1>1, <1>2, MissedTrusts
<1>4. k.pc \in {"look", "last", "count", "recount", "unlock"} /\ k \in Locals
      BY <1>1, MissedAt, NextLocal
<1>5. Weight(k) = 0 /\ Weight(l) = 0 BY <1>1, <1>4, Weights DEF Looking
<1>6. Weight(k) \in Int BY <1>5
<1>7. l.pc \notin {"pop", "announce", "signal", "returned"} BY DEF Looking
<1> HIDE DEF k
<1>8. k.pc # "take" BY <1>4
<1> QED BY <1>1, <1>3, <1>4, <1>5, <1>6, <1>7, <1>8, FrameReads DEF k

Minding == AfterRun \cup {"run", "span", "start", "count", "block", "failed"}

LEMMA BusyFrame ==
  ASSUME FrameInv, HandsInv', running, NEW w \in Workers, NEW l, Becomes(w, l),
         UNCHANGED <<rows, progress, running, r_q, m_nBlocking, m_mutex>>,
         loc[w].pc \in Minding, l.pc \in Minding, loc[w].site # "forward" => l.site # "forward"
  PROVE  FrameInv'
<1>1. /\ HandsInv /\ loc[w] \in Locals /\ l \in Locals
      /\ Trusts(w, loc[w], m_nTasks, AllComplete, m_nBlocking, m_mutex)
      BY Knows, NextLocal
<1>2. loc[w].site # "forward" /\ m_mutex # w
      BY <1>1 DEF Trusts, Locked, Minding, AfterRun, Looking
<1>3. Trusts(w, l, m_nTasks, AllComplete, m_nBlocking, m_mutex) BY <1>2, BusyTrusts DEF Minding
<1>4. Weight(l) = 0 /\ Weight(loc[w]) = 0 BY <1>1, Weights DEF Minding, AfterRun
<1>5. Weight(l) \in Int BY <1>4
<1>6. loc[w].pc \notin {"pop", "announce", "signal", "returned"} /\ l.pc # "take"
      BY DEF Minding, AfterRun
<1> QED BY <1>1, <1>3, <1>4, <1>5, <1>6, FrameReads

LEMMA PublishAt ==
  ASSUME NEW l \in Locals, l.site # "forward"
  PROVE  Publish(l).pc \in {"publish", "failed"} /\ Publish(l).site # "forward"
<1>1. Goto(l, "publish").pc = "publish" /\ Goto(l, "publish").site = l.site BY GotoIs DEF PCs
<1>2. Failed(l).pc = "failed" /\ Failed(l).site = "obtain" BY DEF Failed, Fresh
<1> QED BY <1>1, <1>2 DEF Publish

LEMMA PastMinAt ==
  ASSUME NEW l \in Locals, l.site # "forward"
  PROVE  PastMin(l).pc \in {"raise", "publish", "failed"} /\ PastMin(l).site # "forward"
<1> DEFINE k == IF l.seen.working = NData THEN [l EXCEPT !.min = @ + 1] ELSE l
<1>1. k \in Locals /\ k.site = l.site
  <2>1. l.min + 1 \in Nat
    <3>1. l.min \in Nat BY DEF Locals
    <3> QED BY <3>1, SMT
  <2>2. CASE l.seen.working = NData BY <2>1, <2>2 DEF Locals
  <2>3. CASE l.seen.working # NData BY <2>3
  <2> QED BY <2>2, <2>3
<1>2. PastMin(l) = IF Tid(l) = l.max THEN Goto(k, "raise") ELSE Publish(k) BY DEF PastMin
<1> HIDE DEF k
<1>3. Goto(k, "raise").pc = "raise" /\ Goto(k, "raise").site = k.site BY <1>1, GotoIs DEF PCs
<1>4. Publish(k).pc \in {"publish", "failed"} /\ Publish(k).site # "forward"
      BY <1>1, PublishAt
<1> QED BY <1>1, <1>2, <1>3, <1>4

LEMMA PastSpinAt ==
  ASSUME NEW l \in Locals, l.site # "forward"
  PROVE  /\ PastSpin(l).pc \in {"spin", "shrink", "raise", "publish", "failed"}
         /\ PastSpin(l).site # "forward"
<1>1. /\ Goto(l, "spin").pc = "spin" /\ Goto(l, "spin").site = l.site
      /\ Goto(l, "shrink").pc = "shrink" /\ Goto(l, "shrink").site = l.site
      BY GotoIs DEF PCs
<1> QED BY <1>1, PastMinAt DEF PastSpin

-----------------------------------------------------------------------------
(* The frame, step by step: mpCTaskObtain's scans.                         *)

LEMMA LookAtFrame ==
  ASSUME FrameInv, NEW w \in Workers, LookAt(w)
  PROVE  FrameInv'
<1> DEFINE l == loc[w]
           p == progress[l.x]
           b == [l EXCEPT !.pc = "cache", !.seen = p]
<1>1. running /\ l.pc = "look" /\ l.pc \in Looking BY DEF LookAt, At, Looking
<1>2. /\ HandsInv /\ HandsInv' /\ l \in Locals
      /\ Trusts(w, l, m_nTasks, AllComplete, m_nBlocking, m_mutex)
      BY Knows, LookAtKeeps
<1>3. UNCHANGED <<rows, progress, running, r_q, m_nBlocking, m_mutex>> BY DEF LookAt, Private
<1>4. CASE Becomes(w, b)
  <2>1. b.pc = "cache" /\ b.site = l.site /\ b.last = l.last /\ b.v = l.v /\ b.task = l.task
        BY <1>2 DEF Locals
  <2>2. b \in Locals BY <1>2, <1>4, NextLocal
  <2> HIDE DEF b
  <2>3. Trusts(w, b, m_nTasks, AllComplete, m_nBlocking, m_mutex)
        BY <1>1, <1>2, <2>1 DEF Trusts, CountsOn, Locked, Looking
  <2>4. Weight(b) = 0 /\ Weight(l) = 0 BY <1>1, <1>2, <2>1, <2>2, Weights
  <2>5. Weight(b) \in Int BY <2>4
  <2> QED BY <1>1, <1>2, <1>3, <1>4, <2>1, <2>2, <2>3, <2>4, <2>5, FrameReads
<1>5. CASE Becomes(w, Missed(l)) BY <1>1, <1>2, <1>3, <1>5, MissFrame
<1> QED BY <1>4, <1>5 DEF LookAt

LEMMA LookAtCacheFrame ==
  ASSUME FrameInv, NEW w \in Workers, LookAtCache(w)
  PROVE  FrameInv'
<1> DEFINE l == loc[w]
           p == IF l.x = 0 THEN "take" ELSE "above"
           b == [l EXCEPT !.pc = p, !.cs = m_nCacheStart]
<1>1. running /\ l.pc = "cache" /\ l.pc \in Looking BY DEF LookAtCache, At, Looking
<1>2. /\ HandsInv /\ HandsInv' /\ l \in Locals /\ l.x \in Nat
      /\ Trusts(w, l, m_nTasks, AllComplete, m_nBlocking, m_mutex)
      BY Knows, LookAtCacheKeeps DEF Locals
<1>3. UNCHANGED <<rows, progress, running, r_q, m_nBlocking, m_mutex>>
      BY DEF LookAtCache, Private
<1>4. CASE Becomes(w, b)
  <2>1. b.pc = p /\ b.site = l.site /\ b.last = l.last /\ b.v = l.v /\ b.task = l.task
        /\ b.x = l.x
        BY <1>2 DEF Locals
  <2>2. b \in Locals BY <1>2, <1>4, NextLocal
  <2>3. p = "above" \/ (p = "take" /\ l.x = 0) OBVIOUS
  <2> HIDE DEF b, p
  <2>4. Trusts(w, b, m_nTasks, AllComplete, m_nBlocking, m_mutex)
        BY <1>1, <1>2, <2>1, <2>3 DEF Trusts, CountsOn, Locked, Looking
  <2>5. Weight(b) = 0 /\ Weight(l) = 0 BY <1>1, <1>2, <2>1, <2>2, <2>3, Weights
  <2>6. Weight(b) \in Int BY <2>5
  <2>7. ~(b.pc = "take" /\ b.x > 0) BY <2>1, <2>3, SMT
  <2> QED BY <1>1, <1>2, <1>3, <1>4, <2>1, <2>2, <2>4, <2>5, <2>6, <2>7, FrameReads
<1>5. CASE Becomes(w, Missed(l)) BY <1>1, <1>2, <1>3, <1>5, MissFrame
<1> QED BY <1>4, <1>5 DEF LookAtCache

(* The row above was far enough; it can only get further.                  *)
LEMMA LookAboveFrame ==
  ASSUME FrameInv, NEW w \in Workers, LookAbove(w)
  PROVE  FrameInv'
<1> DEFINE l == loc[w]
           b == Goto(l, "take")
<1>1. running /\ l.pc = "above" /\ l.pc \in Looking BY DEF LookAbove, At, Looking
<1>2. /\ HandsInv /\ HandsInv' /\ l \in Locals
      /\ Trusts(w, l, m_nTasks, AllComplete, m_nBlocking, m_mutex)
      BY Knows, LookAboveKeeps
<1>3. UNCHANGED <<rows, progress, running, r_q, m_nBlocking, m_mutex>> BY DEF LookAbove, Private
<1>4. CASE ~(progress[l.x - 1].completed <= PrevLimit(l.x, l.seen.working))
  <2>0. Becomes(w, b) BY <1>4 DEF LookAbove
  <2>1. b.pc = "take" /\ b.site = l.site /\ b.last = l.last /\ b.v = l.v /\ b.task = l.task
        /\ b.x = l.x /\ b.seen = l.seen
        BY <1>2, GotoIs DEF PCs
  <2>2. b \in Locals BY <1>2, <2>0, NextLocal
  <2>3. b.x > 0 => progress[b.x - 1].completed > PrevLimit(b.x, b.seen.working)
    <3> SUFFICES ASSUME l.x > 0
                 PROVE  progress[l.x - 1].completed > PrevLimit(l.x, l.seen.working)
        BY <2>1
    <3>1. l.x \in Rows /\ l.x \in Nat BY <1>1, <1>2, Scanning
    <3>2. l.x - 1 \in Rows BY <3>1, Sizes, SMT DEF Rows
    <3>3. progress[l.x - 1].completed \in Nat /\ description[l.x].bottom \in Nat
          BY <1>2, <3>1, <3>2, Kinds DEF HandsInv
    <3>4. l.seen.working \in Nat
      <4>1. l.seen.working \in 0 .. NData BY <1>2 DEF Locals, Progress
      <4> QED BY <4>1, Sizes, SMT
    <3>5. PrevLimit(l.x, l.seen.working) \in Int BY <3>3, <3>4, Sizes, SMT DEF PrevLimit, Lesser
    <3> QED BY <1>4, <3>3, <3>5, SMT
  <2> HIDE DEF b
  <2>4. Trusts(w, b, m_nTasks, AllComplete, m_nBlocking, m_mutex)
        BY <1>1, <1>2, <2>1 DEF Trusts, CountsOn, Locked, Looking
  <2>5. Weight(b) = 0 /\ Weight(l) = 0 BY <1>1, <1>2, <2>1, <2>2, Weights
  <2>6. Weight(b) \in Int BY <2>5
  <2> QED BY <1>1, <1>2, <1>3, <2>0, <2>1, <2>2, <2>3, <2>4, <2>5, <2>6, FrameReads
<1>5. CASE progress[l.x - 1].completed <= PrevLimit(l.x, l.seen.working)
  <2>1. Becomes(w, Missed(l)) BY <1>5 DEF LookAbove
  <2> QED BY <1>1, <1>2, <1>3, <2>1, MissFrame
<1> QED BY <1>4, <1>5

LEMMA FoundIs ==
  ASSUME NEW l \in Locals, l.task # NoTask
  PROVE  /\ Found(l).pc \in {"run", "signal", "uncount"}
         /\ Found(l).pc = "uncount" => Found(l).site = "forward"
         /\ l.task = Found(l).task
<1>1. l.site \in Sites /\ l.ret \in {"run", "signal"} BY DEF Locals
<1>2. \A p \in {"signal", "uncount"} :
        Goto(l, p).pc = p /\ Goto(l, p).site = l.site /\ Goto(l, p).task = l.task
      BY GotoIs DEF PCs
<1>3. BackFromObtain(l).pc \in {"run", "signal"} /\ BackFromObtain(l).task = l.task
      BY <1>1, BackIs, ReturnedIs
<1> QED BY <1>1, <1>2, <1>3 DEF Found, Sites

LEMMA AdvanceCacheFrame ==
  ASSUME FrameInv, NEW w \in Workers, AdvanceCache(w)
  PROVE  FrameInv'
<1> DEFINE l == loc[w]
           b == Found(l)
<1>1. running /\ l.pc = "advance" BY DEF AdvanceCache, At
<1>2. /\ HandsInv /\ HandsInv' /\ l \in Locals /\ m_nBlocking \in Int
      /\ Trusts(w, l, m_nTasks, AllComplete, m_nBlocking, m_mutex)
      BY Knows, AdvanceCacheKeeps
<1>3. UNCHANGED <<rows, progress, running, r_q, m_nBlocking, m_mutex>> /\ Becomes(w, b)
      BY DEF AdvanceCache
<1>4. l.task # NoTask BY <1>1, <1>2, Worker DEF OK, InHand
<1>5. ~Ended BY <1>1, <1>4, StillOn
<1>6. (l.site = "forward" <=> m_mutex = w)
      /\ (l.site = "forward" => l.v = m_nBlocking /\ l.v > 0)
      BY <1>1, <1>2, <1>5 DEF Trusts, Locked, CountsOn, Ended
<1>7. Trusts(w, b, m_nTasks, AllComplete, m_nBlocking, m_mutex)
      BY <1>2, <1>4, <1>6, FoundTrusts
<1>8. b \in Locals /\ b.pc \in {"run", "signal", "uncount"}
      /\ (b.pc = "uncount" => b.site = "forward")
      BY <1>2, <1>3, <1>4, FoundIs, NextLocal
<1> HIDE DEF b
<1>9. Weight(b) = 0 /\ Weight(l) = 0 BY <1>1, <1>2, <1>8, Weights
<1>10. Weight(b) \in Int BY <1>9
<1> QED BY <1>1, <1>2, <1>3, <1>5, <1>7, <1>8, <1>9, <1>10, FrameReads

(* From the count of rows to the scan, and past it.                        *)
LEMMA StartFrame ==
  ASSUME FrameInv, NEW w \in Workers, Start(w)
  PROVE  FrameInv'
<1> DEFINE l == loc[w]
           b == CallObtain(l, "run")
<1>1. running /\ l.pc = "start" BY DEF Start, At
<1>2. HandsInv' /\ l \in Locals BY Knows, StartKeeps
<1>3. b.pc = "count" /\ b.site = "obtain" BY <1>2, CallIs
<1>4. Becomes(w, b) /\ UNCHANGED <<rows, progress, running, r_q, m_nBlocking, m_mutex>>
      BY DEF Start, Private
<1> QED BY <1>1, <1>2, <1>3, <1>4, BusyFrame DEF Minding

(* What mpCTaskObtain has still to read, besides the rows.                 *)
LEMMA ReadingFrame ==
  ASSUME FrameInv, HandsInv', running, NEW w \in Workers, NEW l, Becomes(w, l),
         UNCHANGED <<rows, progress, running, r_q, m_nBlocking, m_mutex>>,
         loc[w].pc \in {"count", "from", "to", "last"},
         l.pc \in {"from", "to", "look", "last", "quit", "block"}, l.site = loc[w].site,
         l.pc \notin {"quit", "block"} => l.last = m_nTasks, l.pc = "quit" => AllComplete
  PROVE  FrameInv'
<1>1. /\ HandsInv /\ loc[w] \in Locals /\ l \in Locals
      /\ Trusts(w, loc[w], m_nTasks, AllComplete, m_nBlocking, m_mutex)
      BY Knows, NextLocal
<1>2. l.site # "forward" /\ m_mutex # w BY <1>1 DEF Trusts, Locked, Looking
<1>3. Trusts(w, l, m_nTasks, AllComplete, m_nBlocking, m_mutex)
      BY <1>2 DEF Trusts, Looking, CountsOn, Locked
<1>4. Weight(l) = 0 /\ Weight(loc[w]) = 0 BY <1>1, Weights
<1>5. Weight(l) \in Int BY <1>4
<1> QED BY <1>1, <1>3, <1>4, <1>5, FrameReads

LEMMA ReadCountFrame ==
  ASSUME FrameInv, NEW w \in Workers, ReadCount(w)
  PROVE  FrameInv'
<1> DEFINE l == loc[w]
           b == [l EXCEPT !.pc = "from", !.last = m_nTasks]
<1>1. running /\ l.pc = "count" BY DEF ReadCount, At
<1>2. HandsInv' /\ l \in Locals BY Knows, ReadCountKeeps
<1>3. b.pc = "from" /\ b.site = l.site /\ b.last = m_nTasks BY <1>2 DEF Locals
<1>4. Becomes(w, b) /\ UNCHANGED <<rows, progress, running, r_q, m_nBlocking, m_mutex>>
      BY DEF ReadCount, Private
<1> HIDE DEF b
<1> QED BY <1>1, <1>2, <1>3, <1>4, ReadingFrame

LEMMA ReadFromFrame ==
  ASSUME FrameInv, NEW w \in Workers, ReadFrom(w)
  PROVE  FrameInv'
<1> DEFINE l == loc[w]
           b == [l EXCEPT !.pc = "to", !.lo = m_min]
<1>1. running /\ l.pc = "from" BY DEF ReadFrom, At
<1>2. /\ HandsInv' /\ l \in Locals
      /\ Trusts(w, l, m_nTasks, AllComplete, m_nBlocking, m_mutex)
      BY Knows, ReadFromKeeps
<1>3. b.pc = "to" /\ b.site = l.site /\ b.last = l.last BY <1>2 DEF Locals
<1>4. Becomes(w, b) /\ UNCHANGED <<rows, progress, running, r_q, m_nBlocking, m_mutex>>
      BY DEF ReadFrom, Private
<1>5. l.last = m_nTasks BY <1>1, <1>2 DEF Trusts
<1> HIDE DEF b
<1> QED BY <1>1, <1>2, <1>3, <1>4, <1>5, ReadingFrame

LEMMA ReadToFrame ==
  ASSUME FrameInv, NEW w \in Workers, ReadTo(w)
  PROVE  FrameInv'
<1> DEFINE l == loc[w]
           hi == Lesser(m_max + 1, l.last - 1)
           k == [l EXCEPT !.hi = hi]
           b == Look(k, l.lo)
<1>1. running /\ l.pc = "to" BY DEF ReadTo, At
<1>2. /\ HandsInv /\ HandsInv' /\ l \in Locals /\ l.lo \in Nat
      /\ Trusts(w, l, m_nTasks, AllComplete, m_nBlocking, m_mutex)
      BY Knows, ReadToKeeps DEF Locals
<1>3. UNCHANGED <<rows, progress, running, r_q, m_nBlocking, m_mutex>>
      BY DEF ReadTo, Private
<1>4. l.last = m_nTasks BY <1>1, <1>2 DEF Trusts
<1>5. CASE l.lo <= hi
  <2>1. Becomes(w, b) BY <1>5 DEF ReadTo
  <2>2. b.pc = "look" /\ b.site = l.site /\ b.last = l.last BY <1>2 DEF Look, Locals
  <2> HIDE DEF b
  <2> QED BY <1>1, <1>2, <1>3, <1>4, <2>1, <2>2, ReadingFrame
<1>6. CASE ~(l.lo <= hi)
  <2>1. Becomes(w, Goto(l, "last")) BY <1>6 DEF ReadTo
  <2>2. Goto(l, "last").pc = "last" /\ Goto(l, "last").site = l.site
        /\ Goto(l, "last").last = l.last
        BY <1>2, GotoIs DEF PCs
  <2> QED BY <1>1, <1>2, <1>3, <1>4, <2>1, <2>2, ReadingFrame
<1> QED BY <1>5, <1>6

(* The last row is complete only if every row is.                          *)
LEMMA LookAtLastFrame ==
  ASSUME FrameInv, NEW w \in Workers, LookAtLast(w)
  PROVE  FrameInv'
<1> DEFINE l == loc[w]
           n == m_nTasks
           p == IF progress[l.last - 1].completed = NData THEN "quit" ELSE "block"
           b == Goto(l, p)
<1>1. running /\ l.pc = "last" BY DEF LookAtLast, At
<1>2. /\ HandsInv /\ HandsInv' /\ l \in Locals
      /\ Trusts(w, l, m_nTasks, AllComplete, m_nBlocking, m_mutex)
      BY Knows, LookAtLastKeeps
<1>3. UNCHANGED <<rows, progress, running, r_q, m_nBlocking, m_mutex>> /\ Becomes(w, b)
      BY DEF LookAtLast, Private
<1>4. l.last = n BY <1>1, <1>2 DEF Trusts
<1>5. p = "quit" => AllComplete
  <2> SUFFICES ASSUME progress[n - 1].completed = NData, NEW x \in Added
               PROVE  progress[x].completed = NData
      BY <1>4 DEF AllComplete
  <2>1. n > 0 /\ n \in Nat BY <1>1, <1>2, Worker
  <2>2. n - 1 \in Added /\ x \in Nat /\ x <= n - 1 BY <2>1, SMT DEF Added
  <2>3. CASE x = n - 1 BY <2>3
  <2>4. CASE x # n - 1
    <3>1. x < n - 1 BY <2>1, <2>2, <2>4, SMT
    <3>2. HandsTypes /\ RowsInOrder /\ n - 1 \in Rows BY <1>2, <2>2, AddedAreRows DEF HandsInv
    <3>3. progress[n - 1].working = NData
      <4>1. progress[n - 1].working \in 0 .. NData BY <3>2, Kinds
      <4>2. progress[n - 1].completed <= progress[n - 1].working BY <3>2 DEF RowsInOrder
      <4> QED BY <4>1, <4>2, Sizes, SMT
    <3> QED BY <2>2, <3>1, <3>3 DEF FrameInv, AboveIsDone
  <2> QED BY <2>3, <2>4
<1>6. p = "quit" \/ p = "block" OBVIOUS
<1> HIDE DEF p
<1>7. b.pc = p /\ b.site = l.site BY <1>2, <1>6, GotoIs DEF PCs
<1> HIDE DEF b
<1> QED BY <1>1, <1>2, <1>3, <1>5, <1>6, <1>7, ReadingFrame

-----------------------------------------------------------------------------
(* mpCTaskComplete.                                                        *)

LEMMA RanFrame ==
  ASSUME FrameInv, NEW w \in Workers, Ran(w)
  PROVE  FrameInv'
<1> DEFINE l == loc[w]
           b == [l EXCEPT !.pc = "min", !.seen = progress[Tid(l)]]
<1>1. running /\ l.pc = "run" BY DEF Ran, At
<1>2. HandsInv' /\ l \in Locals BY Knows, RanKeeps
<1>3. b.pc = "min" /\ b.site = l.site BY <1>2 DEF Locals
<1>4. Becomes(w, b) /\ UNCHANGED <<rows, progress, running, r_q, m_nBlocking, m_mutex>>
      BY DEF Ran, Private
<1> HIDE DEF b
<1> QED BY <1>1, <1>2, <1>3, <1>4, BusyFrame DEF Minding, AfterRun

LEMMA ReadMinFrame ==
  ASSUME FrameInv, NEW w \in Workers, ReadMin(w)
  PROVE  FrameInv'
<1> DEFINE l == loc[w]
           b == [l EXCEPT !.pc = "max", !.min = m_min]
<1>1. running /\ l.pc = "min" BY DEF ReadMin, At
<1>2. HandsInv' /\ l \in Locals BY Knows, ReadMinKeeps
<1>3. b.pc = "max" /\ b.site = l.site BY <1>2 DEF Locals
<1>4. Becomes(w, b) /\ UNCHANGED <<rows, progress, running, r_q, m_nBlocking, m_mutex>>
      BY DEF ReadMin, Private
<1> HIDE DEF b
<1> QED BY <1>1, <1>2, <1>3, <1>4, BusyFrame DEF Minding, AfterRun

LEMMA OwnSite ==
  ASSUME FrameInv, NEW w \in Workers, loc[w].pc \in AfterRun
  PROVE  loc[w].site # "forward"
<1>1. Trusts(w, loc[w], m_nTasks, AllComplete, m_nBlocking, m_mutex) BY Knows
<1> QED BY <1>1 DEF Trusts, AfterRun, Looking

LEMMA ReadMaxFrame ==
  ASSUME FrameInv, NEW w \in Workers, ReadMax(w)
  PROVE  FrameInv'
<1> DEFINE l == loc[w]
           k == [l EXCEPT !.max = m_max]
<1>1. running /\ l.pc = "max" /\ l.pc \in AfterRun BY DEF ReadMax, At, AfterRun
<1>2. HandsInv /\ HandsInv' /\ l \in Locals BY Knows, ReadMaxKeeps
<1>3. m_max \in Nat
  <2>1. m_max \in 0 .. m_nTasks /\ m_nTasks \in Nat
        BY <1>1, <1>2, Worker DEF HandsInv, HandsTypes
  <2> QED BY <2>1, SMT
<1>4. k \in Locals /\ k.site = l.site BY <1>2, <1>3 DEF Locals
<1>5. Becomes(w, PastSpin(k)) /\ UNCHANGED <<rows, progress, running, r_q, m_nBlocking, m_mutex>>
      BY DEF ReadMax, Private
<1> HIDE DEF k
<1>6. l.site # "forward" BY <1>1, OwnSite
<1>7. PastSpin(k).pc \in Minding /\ PastSpin(k).site # "forward"
      BY <1>4, <1>6, PastSpinAt DEF Minding, AfterRun
<1>8. l.pc \in Minding BY <1>1 DEF Minding
<1> QED BY <1>1, <1>2, <1>5, <1>7, <1>8, BusyFrame

LEMMA SpinFrame ==
  ASSUME FrameInv, NEW w \in Workers, Spin(w)
  PROVE  FrameInv'
<1> DEFINE l == loc[w]
           k == [l EXCEPT !.seen = progress[Tid(l)]]
<1>1. running /\ l.pc = "spin" /\ l.pc \in AfterRun BY DEF Spin, At, AfterRun
<1>2. HandsInv /\ HandsInv' /\ l \in Locals BY Knows, SpinKeeps
<1>3. progress[Tid(l)] \in Progress BY <1>1, <1>2, Completing, Kinds DEF HandsInv
<1>4. k \in Locals /\ k.site = l.site BY <1>2, <1>3 DEF Locals
<1>5. Becomes(w, PastSpin(k)) /\ UNCHANGED <<rows, progress, running, r_q, m_nBlocking, m_mutex>>
      BY DEF Spin, Private
<1> HIDE DEF k
<1>6. l.site # "forward" BY <1>1, OwnSite
<1>7. PastSpin(k).pc \in Minding /\ PastSpin(k).site # "forward"
      BY <1>4, <1>6, PastSpinAt DEF Minding, AfterRun
<1>8. l.pc \in Minding BY <1>1 DEF Minding
<1> QED BY <1>1, <1>2, <1>5, <1>7, <1>8, BusyFrame

LEMMA BoundsFrame ==
  ASSUME FrameInv, NEW w \in Workers, Shrink(w) \/ ClearCache(w) \/ Raise(w)
  PROVE  FrameInv'
<1> DEFINE l == loc[w]
<1>1. running /\ l.pc \in {"shrink", "clear", "raise"} /\ l.pc \in AfterRun
      BY DEF Shrink, ClearCache, Raise, At, AfterRun
<1>2. HandsInv /\ HandsInv' /\ l \in Locals BY Knows, ShrinkKeeps, ClearCacheKeeps, RaiseKeeps
<1>3. PICK b \in {Goto(l, "clear"), PastMin(l), Publish(l), Failed(l)} : Becomes(w, b)
      BY DEF Shrink, ClearCache, Raise
<1>4. UNCHANGED <<rows, progress, running, r_q, m_nBlocking, m_mutex>>
      BY DEF Shrink, ClearCache, Raise
<1>5. l.site # "forward" BY <1>1, OwnSite
<1>6. b.pc \in Minding /\ b.site # "forward"
  <2>1. CASE b = Goto(l, "clear") BY <1>2, <1>5, <2>1, GotoIs DEF PCs, Minding, AfterRun
  <2>2. CASE b = PastMin(l) BY <1>2, <1>5, <2>2, PastMinAt DEF Minding, AfterRun
  <2>3. CASE b = Publish(l) BY <1>2, <1>5, <2>3, PublishAt DEF Minding, AfterRun
  <2>4. CASE b = Failed(l) BY <2>4 DEF Failed, Fresh, Minding
  <2> QED BY <1>3, <2>1, <2>2, <2>3, <2>4
<1>7. l.pc \in Minding BY <1>1 DEF Minding
<1> QED BY <1>1, <1>2, <1>3, <1>4, <1>6, <1>7, BusyFrame

-----------------------------------------------------------------------------
(* The count of blocked workers and the mutex.                             *)

LEMMA FrameCounts ==
  ASSUME FrameInv, HandsInv', running, NEW w \in Workers, NEW l, Becomes(w, l),
         UNCHANGED <<rows, progress, running, r_q>>, l.pc # "take",
         m_mutex' = m_mutex \/ (m_mutex \in {w, Nobody} /\ m_mutex' \in {w, Nobody}),
         m_nBlocking' = m_nBlocking \/ m_mutex \in {w, Nobody},
         ~Ended => m_nBlocking' = m_nBlocking + Weight(l) - Weight(loc[w]) /\ m_nBlocking' >= 0,
         Ended => /\ m_nBlocking' >= m_nBlocking
                  /\ m_nBlocking' - m_nBlocking <= One(l, LeavesAt) - One(loc[w], LeavesAt),
         Trusts(w, l, m_nTasks, AllComplete, m_nBlocking', m_mutex')
  PROVE  FrameInv'
<1>0. HandsTypes /\ HandsTypes' /\ Blocking /\ m_nBlocking \in Int /\ m_nBlocking' \in Int
      BY DEF FrameInv, HandsInv, HandsTypes
<1>1. AboveIsDone' /\ (AllComplete' <=> AllComplete) BY AboveSame
<1>2. Cardinality(Forwarded) \in Int /\ Cardinality(Forwarded)' = Cardinality(Forwarded) + 0
  <2>1. Cardinality(Forwarded)' = Cardinality(Forwarded) BY DEF Forwarded
  <2>2. Cardinality(Forwarded) \in Nat BY <1>0, ForwardedIs
  <2> QED BY <2>1, <2>2, SMT
<1>3. ~Ended => m_nBlocking' = m_nBlocking + Weight(l) - Weight(loc[w]) - 0 /\ ~Ended'
  <2>1. ~Ended => ~Ended' BY <1>0, SMT DEF Ended
  <2> DEFINE a == Weight(l)
             a0 == Weight(loc[w])
  <2>2. a \in Int /\ a0 \in Int
    <3>1. \A v, S : One(v, S) \in Int BY DEF One
    <3>2. \A i, j \in Int : i - j \in Int BY SMT
    <3> QED BY <3>1, <3>2 DEF Weight
  <2> HIDE DEF a, a0
  <2>3. m_nBlocking + a - a0 = m_nBlocking + a - a0 - 0 BY <1>0, <2>2, SMT
  <2> QED BY <2>1, <2>3 DEF a, a0
<1>5. Blocking' /\ (Ended => Ended') BY <1>0, <1>1, <1>2, <1>3, BlockingKeeps
<1>6. \A i \in DOMAIN r_q' : r_q'[i] # NoTask /\ (r_q'[i] = Sentinel => Ended')
      BY <1>5 DEF FrameInv
<1>7. Trusts(w, l, m_nTasks, AllComplete', m_nBlocking', m_mutex') BY <1>1 DEF Trusts
<1> QED BY <1>1, <1>5, <1>6, <1>7, FrameMoves

LEMMA SpanFrame ==
  ASSUME FrameInv, NEW w \in Workers, Span(w)
  PROVE  FrameInv'
<1> DEFINE l == loc[w]
<1>1. running /\ l.pc = "span" BY DEF Span, At
<1>2. /\ HandsInv' /\ l \in Locals
      /\ Trusts(w, l, m_nTasks, AllComplete, m_nBlocking, m_mutex)
      BY Knows, SpanKeeps
<1>3. m_mutex # w BY <1>1, <1>2 DEF Trusts, Locked, Looking
<1>4. PICK b : Becomes(w, b) /\ b.pc = "look" /\ b.site = "near"
  <2> DEFINE max == Lesser(l.max + 1, m_nTasks - 1)
             s == Lesser(IF l.x < l.min THEN l.min ELSE l.x, max)
             y == Lesser(s + 1, max)
             k == [Fresh EXCEPT !.site = "near", !.lo = s, !.min = l.min, !.max = max]
  <2>1. Becomes(w, Look(k, y)) BY DEF Span
  <2> HIDE DEF max, s, y
  <2>2. Look(k, y).pc = "look" /\ Look(k, y).site = "near" BY DEF Look, Fresh
  <2> QED BY <2>1, <2>2
<1>5. UNCHANGED <<rows, progress, running, r_q, m_nBlocking, m_mutex>> BY DEF Span, Private
<1>6. b \in Locals BY <1>2, <1>4, NextLocal, Knows
<1>7. Trusts(w, b, m_nTasks, AllComplete, m_nBlocking, m_mutex)
      BY <1>3, <1>4 DEF Trusts, CountsOn, Locked, Looking
<1>8. Weight(b) = 0 /\ Weight(l) = 0 BY <1>1, <1>2, <1>4, <1>6, Weights
<1>9. Weight(b) \in Int BY <1>8
<1> QED BY <1>1, <1>2, <1>4, <1>5, <1>6, <1>7, <1>8, <1>9, FrameReads

LEMMA SignalFrame ==
  ASSUME FrameInv, NEW w \in Workers, Signal(w)
  PROVE  FrameInv'
<1> DEFINE l == loc[w]
           b == IF m_nBlocking > 0 THEN Goto(l, "lock") ELSE Returned(l)
<1>1. running /\ l.pc = "signal" BY DEF Signal, At
<1>2. /\ HandsInv' /\ l \in Locals /\ m_nBlocking \in Int /\ (Ended <=> m_nBlocking < 0)
      /\ Trusts(w, l, m_nTasks, AllComplete, m_nBlocking, m_mutex)
      BY Knows, SignalKeeps
<1>3. /\ m_mutex # w /\ l.site # "forward" /\ (l.task = NoTask => m_nBlocking < 0)
      BY <1>1, <1>2 DEF Trusts, Locked, Looking
<1>4. Becomes(w, b) /\ UNCHANGED <<rows, progress, running, r_q, m_nBlocking, m_mutex>>
      BY DEF Signal, Private
<1>5. b \in Locals BY <1>2, <1>4, NextLocal, Knows
<1>6. CASE m_nBlocking > 0
  <2>1. b.pc = "lock" /\ b.site = l.site /\ b.task = l.task BY <1>2, <1>6, GotoIs DEF PCs
  <2>2. ~(m_nBlocking < 0) BY <1>2, <1>6, SMT
  <2> HIDE DEF b
  <2>3. Trusts(w, b, m_nTasks, AllComplete, m_nBlocking, m_mutex)
        BY <1>3, <2>1, <2>2 DEF Trusts, CountsOn, Locked, Looking
  <2>4. Weight(b) = 0 /\ Weight(l) = 0 BY <1>1, <1>2, <1>5, <2>1, Weights
  <2>5. Weight(b) \in Int BY <2>4
  <2> QED BY <1>1, <1>2, <1>4, <1>5, <2>1, <2>2, <2>3, <2>4, <2>5, FrameReads
<1>7. CASE ~(m_nBlocking > 0)
  <2>1. b = Returned(l) BY <1>7
  <2>2. Trusts(w, b, m_nTasks, AllComplete, m_nBlocking, m_mutex)
        BY <1>2, <1>3, <2>1, ReturnedTrusts
  <2>3. b.pc \in {"returned", "run"} /\ (b.pc = "run" => l.task # NoTask)
        BY <1>2, <2>1, ReturnedIs
  <2> HIDE DEF b
  <2>4. Weight(b) = 0 /\ Weight(l) = 0 BY <1>1, <1>2, <1>5, <2>3, Weights
  <2>5. Weight(b) \in Int BY <2>4
  <2>6. Ended => b.pc = "returned" BY <1>1, <2>3, StillOn
  <2> QED BY <1>1, <1>2, <1>4, <1>5, <2>2, <2>3, <2>4, <2>5, <2>6, FrameReads
<1> QED BY <1>6, <1>7

LEMMA RecountFrame ==
  ASSUME FrameInv, NEW w \in Workers, Recount(w)
  PROVE  FrameInv'
<1> DEFINE l == loc[w]
           c == [l EXCEPT !.pc = "look", !.v = m_nBlocking]
           b == IF m_nBlocking = 0 THEN Goto(l, "unlock") ELSE c
<1>1. running /\ l.pc = "recount" BY DEF Recount, At
<1>2. /\ HandsInv /\ HandsInv' /\ l \in Locals /\ m_nBlocking \in Int
      /\ Trusts(w, l, m_nTasks, AllComplete, m_nBlocking, m_mutex)
      BY Knows, RecountKeeps
<1>3. l.site = "forward" /\ m_mutex = w
  <2>1. InHand(l) BY <1>1, <1>2, Worker DEF OK
  <2>2. l.site = "forward" BY <1>1, <2>1 DEF InHand
  <2> QED BY <1>2, <2>2 DEF Trusts, Locked
<1>4. Becomes(w, b) /\ UNCHANGED <<rows, progress, running, r_q, m_nBlocking, m_mutex>>
      BY DEF Recount, Private
<1>5. b \in Locals BY <1>2, <1>4, NextLocal
<1>6. b.pc \in {"look", "unlock"} /\ b.site = "forward"
      /\ (b.pc = "look" => b.v = m_nBlocking /\ m_nBlocking # 0)
  <2>1. c.pc = "look" /\ c.site = l.site /\ c.v = m_nBlocking BY <1>2 DEF Locals
  <2>2. Goto(l, "unlock").pc = "unlock" /\ Goto(l, "unlock").site = l.site
        BY <1>2, GotoIs DEF PCs
  <2> HIDE DEF c
  <2> QED BY <1>3, <2>1, <2>2
<1> HIDE DEF b
<1>7. m_nBlocking # 0 /\ ~(m_nBlocking < 0) => m_nBlocking > 0 BY <1>2, SMT
<1>8. Trusts(w, b, m_nTasks, AllComplete, m_nBlocking, m_mutex)
      BY <1>3, <1>6, <1>7 DEF Trusts, CountsOn, Locked, Looking
<1>9. Weight(b) = 0 /\ Weight(l) = 0 BY <1>1, <1>2, <1>5, <1>6, Weights
<1>10. Weight(b) \in Int BY <1>9
<1> QED BY <1>1, <1>2, <1>4, <1>5, <1>6, <1>8, <1>9, <1>10, FrameReads

LEMMA LockFrame ==
  ASSUME FrameInv, NEW w \in Workers, Lock(w)
  PROVE  FrameInv'
<1> DEFINE l == loc[w]
           b == Goto(l, "again")
<1>1. running /\ l.pc = "lock" BY DEF Lock, At
<1>2. /\ HandsInv' /\ l \in Locals /\ m_nBlocking \in Int /\ (Ended <=> m_nBlocking < 0)
      /\ Trusts(w, l, m_nTasks, AllComplete, m_nBlocking, m_mutex)
      BY Knows, LockKeeps
<1>3. l.site # "forward" /\ l.task # NoTask BY <1>1, <1>2 DEF Trusts, Looking
<1>4. /\ Becomes(w, b) /\ m_mutex = Nobody /\ m_mutex' = w
      /\ UNCHANGED <<rows, progress, running, r_q, m_nBlocking>>
      BY DEF Lock
<1>5. b \in Locals /\ b.pc = "again" /\ b.site = l.site /\ b.task = l.task
      BY <1>2, GotoIs DEF PCs
<1> HIDE DEF b
<1>6. Trusts(w, b, m_nTasks, AllComplete, m_nBlocking', m_mutex')
      BY <1>3, <1>4, <1>5 DEF Trusts, CountsOn, Locked, Looking
<1>7. Weight(b) = 0 /\ Weight(l) = 0 BY <1>1, <1>2, <1>5, Weights
<1>8. ~Ended BY <1>1, <1>3, StillOn
<1>9. m_nBlocking' = m_nBlocking + Weight(b) - Weight(l) /\ m_nBlocking' >= 0
      BY <1>2, <1>4, <1>7, <1>8, SMT
<1> QED BY <1>1, <1>2, <1>4, <1>5, <1>6, <1>8, <1>9, FrameCounts

LEMMA SignalAgainFrame ==
  ASSUME FrameInv, NEW w \in Workers, SignalAgain(w)
  PROVE  FrameInv'
<1> DEFINE l == loc[w]
           c == [l EXCEPT !.pc = "give", !.v = m_nBlocking]
           b == IF m_nBlocking = 0 THEN Returned(l) ELSE c
<1>1. running /\ l.pc = "again" BY DEF SignalAgain, At
<1>2. /\ HandsInv' /\ l \in Locals /\ m_nBlocking \in Int /\ (Ended <=> m_nBlocking < 0)
      /\ Trusts(w, l, m_nTasks, AllComplete, m_nBlocking, m_mutex)
      BY Knows, SignalAgainKeeps
<1>3. l.site # "forward" /\ l.task # NoTask /\ m_mutex = w
      BY <1>1, <1>2 DEF Trusts, Looking, Locked
<1>4. ~Ended BY <1>1, <1>3, StillOn
<1>5. /\ Becomes(w, b) /\ UNCHANGED <<rows, progress, running, r_q, m_nBlocking>>
      /\ IF m_nBlocking = 0 THEN m_mutex' = Nobody ELSE m_mutex' = m_mutex
      BY DEF SignalAgain
<1>6. b \in Locals BY <1>2, <1>5, NextLocal, Knows
<1>7. b.pc \in {"run", "give"} /\ Trusts(w, b, m_nTasks, AllComplete, m_nBlocking', m_mutex')
      /\ (b.pc = "give" => b.site # "forward")
  <2>1. CASE m_nBlocking = 0
    <3>1. m_mutex' # w BY <1>5, <2>1, Constants
    <3> QED BY <1>2, <1>3, <2>1, <3>1, ReturnedTrusts, ReturnedIs
  <2>2. CASE m_nBlocking # 0
    <3>1. c.pc = "give" /\ c.site = l.site /\ c.task = l.task /\ c.v = m_nBlocking
          BY <1>2 DEF Locals
    <3>2. m_nBlocking > 0 BY <1>2, <1>4, <2>2, SMT
    <3>3. m_nBlocking' = m_nBlocking /\ m_mutex' = w /\ b = c BY <1>3, <1>5, <2>2
    <3> HIDE DEF c, b
    <3>4. Trusts(w, c, m_nTasks, AllComplete, m_nBlocking', m_mutex')
          BY <1>3, <3>1, <3>2, <3>3 DEF Trusts, CountsOn, Locked, Looking
    <3> QED BY <1>3, <3>1, <3>3, <3>4
  <2> QED BY <2>1, <2>2
<1> HIDE DEF b
<1>8. Weight(b) = 0 /\ Weight(l) = 0 BY <1>1, <1>2, <1>6, <1>7, Weights
<1>9. m_nBlocking' = m_nBlocking + Weight(b) - Weight(l) /\ m_nBlocking' >= 0
      BY <1>2, <1>4, <1>5, <1>8, SMT
<1>10. b.pc # "take" /\ m_nBlocking' = m_nBlocking BY <1>5, <1>7
<1>11. m_mutex \in {w, Nobody} /\ m_mutex' \in {w, Nobody} BY <1>3, <1>5
<1> QED BY <1>1, <1>2, <1>4, <1>5, <1>7, <1>9, <1>10, <1>11, FrameCounts

LEMMA BlockFrame ==
  ASSUME FrameInv, NEW w \in Workers, Block(w)
  PROVE  FrameInv'
<1> DEFINE l == loc[w]
           b == Goto(l, "pop")
<1>1. running /\ l.pc = "block" BY DEF Block, At
<1>2. /\ HandsInv' /\ l \in Locals /\ m_nBlocking \in Int /\ (Ended <=> m_nBlocking < 0)
      /\ Trusts(w, l, m_nTasks, AllComplete, m_nBlocking, m_mutex)
      BY Knows, BlockKeeps
<1>3. l.site # "forward" BY <1>1, <1>2 DEF Trusts, Looking
<1>4. /\ Becomes(w, b) /\ m_mutex = Nobody /\ m_mutex' = Nobody
      /\ UNCHANGED <<rows, progress, running, r_q>>
      BY DEF Block
<1>5. m_nBlocking' = m_nBlocking + 1 BY DEF Block
<1>6. b \in Locals /\ b.pc = "pop" /\ b.site = l.site BY <1>2, GotoIs DEF PCs
<1> HIDE DEF b
<1>7. Nobody # w BY Constants
<1>8. Trusts(w, b, m_nTasks, AllComplete, m_nBlocking', m_mutex')
      BY <1>3, <1>4, <1>6, <1>7, BusyTrusts
<1>9. Weight(b) = 1 /\ Weight(l) = 0 BY <1>1, <1>2, <1>6, Weights
<1>10. One(b, LeavesAt) = 1 /\ One(l, LeavesAt) = 0 BY <1>1, <1>2, <1>6, LeavesOne
<1>11. /\ ~Ended => m_nBlocking' = m_nBlocking + Weight(b) - Weight(l) /\ m_nBlocking' >= 0
       /\ m_nBlocking' >= m_nBlocking
       /\ m_nBlocking' - m_nBlocking <= One(b, LeavesAt) - One(l, LeavesAt)
  <2>1. ~Ended => m_nBlocking' = m_nBlocking + 1 - 0 /\ m_nBlocking' >= 0
        BY <1>2, <1>5, SMT
  <2>2. m_nBlocking' >= m_nBlocking /\ m_nBlocking' - m_nBlocking <= 1 - 0
        BY <1>2, <1>5, SMT
  <2> QED BY <1>9, <1>10, <2>1, <2>2
<1>12. m_mutex' = m_mutex /\ m_mutex \in {w, Nobody} /\ b.pc # "take" BY <1>4, <1>6
<1> QED BY <1>1, <1>2, <1>4, <1>8, <1>11, <1>12, FrameCounts

(* The count of blocked workers is still the one that was read.            *)
LEMMA UncountFrame ==
  ASSUME FrameInv, NEW w \in Workers, Uncount(w)
  PROVE  FrameInv'
<1> DEFINE l == loc[w]
           g == Goto(l, "give")
           k == [Fresh EXCEPT !.site = "forward", !.lo = l.min, !.x = l.max + 1]
<1>1. running /\ l.pc = "uncount" BY DEF Uncount, At
<1>2. /\ HandsInv /\ HandsInv' /\ l \in Locals
      /\ m_nBlocking \in Int /\ (Ended <=> m_nBlocking < 0)
      /\ Trusts(w, l, m_nTasks, AllComplete, m_nBlocking, m_mutex)
      BY Knows, UncountKeeps
<1>3. /\ m_mutex = w /\ l.v > 0
      /\ ~Ended => l.v = m_nBlocking
      BY <1>1, <1>2 DEF Trusts, Locked, CountsOn
<1>4. /\ UNCHANGED <<rows, progress, m_mutex, running, r_q>>
      /\ m_nBlocking' = IF m_nBlocking = l.v THEN l.v - 1 ELSE m_nBlocking
      BY DEF Uncount
<1>5. l.v \in Int BY <1>2 DEF Locals
<1>6. ~Ended => m_nBlocking' = m_nBlocking - 1 /\ m_nBlocking' >= 0
      BY <1>2, <1>3, <1>4, <1>5, SMT
<1>7. Ended => m_nBlocking' = m_nBlocking
      BY <1>2, <1>3, <1>4, <1>5, SMT
<1>8. m_mutex' = m_mutex /\ m_mutex \in {w, Nobody} BY <1>3, <1>4
<1>9. CASE l.site = "forward"
  <2>1. Becomes(w, g) BY <1>9 DEF Uncount
  <2>2. l.task # NoTask BY <1>1, <1>2, <1>9, Worker DEF OK, InHand
  <2>3. g \in Locals /\ g.pc = "give" /\ g.site = l.site /\ g.task = l.task /\ g.v = l.v
        BY <1>2, GotoIs DEF PCs
  <2> HIDE DEF g
  <2>4. Trusts(w, g, m_nTasks, AllComplete, m_nBlocking', m_mutex')
        BY <1>3, <1>8, <1>9, <2>2, <2>3 DEF Trusts, CountsOn, Locked, Looking
  <2>5. ~Ended BY <1>1, <2>2, StillOn
  <2>6. Weight(g) = -1 /\ Weight(l) = 0 BY <1>1, <1>2, <1>9, <2>3, Weights
  <2>7. m_nBlocking' = m_nBlocking + Weight(g) - Weight(l) /\ m_nBlocking' >= 0
    <3>1. m_nBlocking' = m_nBlocking + (-1) - 0 /\ m_nBlocking' >= 0 BY <1>2, <1>6, <2>5, SMT
    <3> QED BY <2>6, <3>1
  <2> QED BY <1>1, <1>2, <1>4, <1>8, <2>1, <2>3, <2>4, <2>5, <2>7, FrameCounts
<1>10. CASE l.site # "forward"
  <2> DEFINE b == Missed(k)
  <2>1. Becomes(w, b) BY <1>10 DEF Uncount
  <2>2. l.max + 1 \in Nat /\ l.min \in Nat
    <3>1. l.max \in Nat /\ l.min \in Nat BY <1>2 DEF Locals
    <3> QED BY <3>1, SMT
  <2>3. k \in Locals BY <2>2, Constants DEF Fresh, Locals, Sites
  <2>4. k.site = "forward" BY DEF Fresh
  <2> HIDE DEF k
  <2>5. b \in Locals BY <1>2, <2>1, NextLocal
  <2>6. b.pc \in {"recount", "unlock"} BY <2>3, <2>4, ForwardMissed
  <2>7. Trusts(w, b, m_nTasks, AllComplete, m_nBlocking', m_mutex')
        BY <1>3, <1>8, <2>3, <2>4, MissedTrusts
  <2> HIDE DEF b
  <2>8. Weight(b) = 0 /\ Weight(l) = 1 BY <1>1, <1>2, <1>10, <2>5, <2>6, Weights
  <2>9. ~Ended => m_nBlocking' = m_nBlocking + Weight(b) - Weight(l) /\ m_nBlocking' >= 0
    <3>1. ~Ended => m_nBlocking' = m_nBlocking + 0 - 1 /\ m_nBlocking' >= 0 BY <1>2, <1>6, SMT
    <3> QED BY <2>8, <3>1
  <2>10. Ended => /\ m_nBlocking' >= m_nBlocking
                  /\ m_nBlocking' - m_nBlocking <= One(b, LeavesAt) - One(l, LeavesAt)
    <3>1. One(b, LeavesAt) = 0 /\ One(l, LeavesAt) = 0
          BY <1>1, <1>2, <2>5, <2>6, LeavesOne
    <3>2. Ended => m_nBlocking' >= m_nBlocking /\ m_nBlocking' - m_nBlocking <= 0 - 0
          BY <1>2, <1>7, SMT
    <3> QED BY <3>1, <3>2
  <2>11. b.pc # "take" BY <2>6
  <2> QED BY <1>1, <1>2, <1>4, <1>8, <2>1, <2>7, <2>9, <2>10, <2>11, FrameCounts
<1> QED BY <1>9, <1>10

LEMMA UnlockFrame ==
  ASSUME FrameInv, NEW w \in Workers, Unlock(w)
  PROVE  FrameInv'
<1> DEFINE l == loc[w]
           b == CallObtain(Fresh, "run")
<1>1. running /\ l.pc = "unlock" BY DEF Unlock, At
<1>2. /\ HandsInv /\ HandsInv' /\ l \in Locals /\ m_nBlocking \in Int
      /\ (Ended <=> m_nBlocking < 0)
      /\ Trusts(w, l, m_nTasks, AllComplete, m_nBlocking, m_mutex)
      BY Knows, UnlockKeeps
<1>3. l.site = "forward" BY <1>1, <1>2, Worker DEF OK, InHand
<1>4. m_mutex = w BY <1>2, <1>3 DEF Trusts, Locked
<1>5. /\ Becomes(w, b) /\ m_mutex' = Nobody
      /\ UNCHANGED <<rows, m_nBlocking, progress, running, r_q>>
      BY DEF Unlock
<1>6. b \in Locals /\ b.pc = "count" /\ b.site = "obtain" BY Constants, CallIs
<1> HIDE DEF b
<1>7. m_mutex' # w BY <1>5, Constants
<1>8. Trusts(w, b, m_nTasks, AllComplete, m_nBlocking', m_mutex')
      BY <1>6, <1>7, BusyTrusts
<1>9. Weight(b) = 0 /\ Weight(l) = 0 BY <1>1, <1>2, <1>6, Weights
<1>10. One(b, LeavesAt) = 0 /\ One(l, LeavesAt) = 0 BY <1>1, <1>2, <1>6, LeavesOne
<1>11. ~Ended => m_nBlocking' = m_nBlocking + Weight(b) - Weight(l) /\ m_nBlocking' >= 0
  <2>1. ~Ended => m_nBlocking' = m_nBlocking + 0 - 0 /\ m_nBlocking' >= 0 BY <1>2, <1>5, SMT
  <2> QED BY <1>9, <2>1
<1>12. Ended => /\ m_nBlocking' >= m_nBlocking
                /\ m_nBlocking' - m_nBlocking <= One(b, LeavesAt) - One(l, LeavesAt)
  <2>1. m_nBlocking' >= m_nBlocking /\ m_nBlocking' - m_nBlocking <= 0 - 0 BY <1>2, <1>5, SMT
  <2> QED BY <1>10, <2>1
<1>13. b.pc # "take" /\ m_mutex \in {w, Nobody} /\ m_mutex' \in {w, Nobody}
       /\ m_nBlocking' = m_nBlocking
       BY <1>4, <1>5, <1>6
<1> QED BY <1>1, <1>2, <1>5, <1>8, <1>11, <1>12, <1>13, FrameCounts

(* Whatever the count was, it is -100 from here on.                        *)
LEMMA QuitsFrame ==
  ASSUME FrameInv, NEW w \in Workers, Quits(w)
  PROVE  FrameInv'
<1> DEFINE l == loc[w]
           b == IF m_nBlocking >= 0 THEN Goto(l, "announce") ELSE BackFromObtain(l)
<1>1. running /\ l.pc = "quit" BY DEF Quits, At
<1>2. /\ HandsInv' /\ l \in Locals /\ HandsTypes'
      /\ Trusts(w, l, m_nTasks, AllComplete, m_nBlocking, m_mutex)
      BY Knows, QuitsKeeps DEF HandsInv
<1>3. l.site # "forward" /\ m_mutex # w /\ AllComplete
      BY <1>1, <1>2 DEF Trusts, Locked, Looking
<1>4. /\ Becomes(w, b) /\ m_nBlocking' = -100
      /\ UNCHANGED <<rows, progress, m_mutex, running, r_q>>
      BY DEF Quits
<1>5. Ended' /\ m_nBlocking' < 0 BY <1>4, SMT DEF Ended
<1>6. l.task = NoTask BY <1>1, <1>3, StillOn
<1>7. b.pc # "take" /\ Trusts(w, b, m_nTasks, AllComplete, m_nBlocking', m_mutex')
  <2>1. CASE m_nBlocking >= 0
    <3> DEFINE g == Goto(l, "announce")
    <3>1. g.pc = "announce" /\ g.site = l.site BY <1>2, GotoIs DEF PCs
    <3> HIDE DEF g
    <3>2. Trusts(w, g, m_nTasks, AllComplete, m_nBlocking', m_mutex')
          BY <1>3, <1>4, <1>5, <3>1 DEF Trusts, CountsOn, Locked, Looking
    <3>3. b = g BY <2>1 DEF g
    <3> QED BY <3>1, <3>2, <3>3
  <2>2. CASE ~(m_nBlocking >= 0)
    <3>1. m_mutex' # w BY <1>3, <1>4
    <3>2. Trusts(w, BackFromObtain(l), m_nTasks, AllComplete, m_nBlocking', m_mutex')
          BY <1>2, <1>5, <3>1, BackTrusts
    <3>3. l.ret \in {"run", "signal"} BY <1>2 DEF Locals
    <3>4. BackFromObtain(l).pc # "take" BY <1>2, <3>3, BackIs, ReturnedIs
    <3> QED BY <2>2, <3>2, <3>4
  <2> QED BY <2>1, <2>2
<1> HIDE DEF b
<1>8. AboveIsDone' /\ (AllComplete' <=> AllComplete) BY <1>1, <1>4, <1>7, AboveSame
<1>9. Blocking'
  <2>1. Count(loc', LeavesAt) \in Nat
    <3>1. DOMAIN loc' = Workers /\ IsFiniteSet(Workers)
          BY <1>2, WorkersAssumption DEF HandsTypes
    <3> QED BY <3>1, CountType
  <2>2. -100 \in -100 .. Count(loc', LeavesAt) - 100 BY <2>1, SMT
  <2>3. Cardinality(Leaving)' = Count(loc', LeavesAt) BY <1>2, PlacesCount
  <2> QED BY <1>3, <1>4, <1>5, <1>8, <2>2, <2>3 DEF Blocking
<1>10. \A i \in DOMAIN r_q' : r_q'[i] # NoTask /\ (r_q'[i] = Sentinel => Ended')
       BY <1>4, <1>5 DEF FrameInv
<1>11. Trusts(w, b, m_nTasks, AllComplete', m_nBlocking', m_mutex') BY <1>7, <1>8 DEF Trusts
<1> QED BY <1>1, <1>2, <1>3, <1>4, <1>5, <1>8, <1>9, <1>10, <1>11, FrameMoves

-----------------------------------------------------------------------------
(* The queue.                                                              *)
Queued == Tasks \cup {Sentinel, NoTask}
Pieces == Tasks \cup {NoTask}

LEMMA ForwardedCount ==
  /\ HandsTypes => Cardinality(Forwarded) = Count(r_q, Pieces)
  /\ HandsTypes' => Cardinality(Forwarded)' = Count(r_q', Pieces)
<1>1. ASSUME HandsTypes PROVE Forwarded = Where(r_q, Pieces)
  <2>1. \A i \in DOMAIN r_q : r_q[i] \in Queued
        BY <1>1, SeqDomain, ElementOfSeq DEF HandsTypes, Queued
  <2> QED BY <2>1, Constants DEF Forwarded, Where, Pieces, Queued
<1>2. ASSUME HandsTypes' PROVE Forwarded' = Where(r_q', Pieces)
  <2>1. r_q' \in Seq(Queued) BY <1>2 DEF HandsTypes, Queued
  <2>2. \A i \in DOMAIN r_q' : r_q'[i] \in Queued BY <2>1, SeqDomain, ElementOfSeq
  <2> QED BY <2>2, Constants DEF Forwarded, Where, Pieces, Queued
<1> QED BY <1>1, <1>2 DEF Count

LEMMA FrameQueue ==
  ASSUME FrameInv, HandsInv', running, NEW w \in Workers, NEW l, Becomes(w, l),
         UNCHANGED <<rows, progress, running, m_nBlocking, m_mutex>>, l.pc # "take",
         NEW d \in Int, Count(r_q', Pieces) = Count(r_q, Pieces) + d,
         ~Ended => Weight(l) - Weight(loc[w]) = d,
         Ended => One(l, LeavesAt) - One(loc[w], LeavesAt) >= 0,
         Trusts(w, l, m_nTasks, AllComplete, m_nBlocking, m_mutex),
         \A i \in DOMAIN r_q' : r_q'[i] # NoTask /\ (r_q'[i] = Sentinel => Ended)
  PROVE  FrameInv'
<1>0. HandsTypes /\ HandsTypes' /\ Blocking /\ m_nBlocking \in Int
      BY DEF FrameInv, HandsInv, HandsTypes
<1>1. AboveIsDone' /\ (AllComplete' <=> AllComplete) BY AboveSame
<1>2. Cardinality(Forwarded) \in Int /\ Cardinality(Forwarded)' = Cardinality(Forwarded) + d
  <2>1. Cardinality(Forwarded) \in Nat BY <1>0, ForwardedIs
  <2> QED BY <1>0, <2>1, ForwardedCount, SMT
<1>3. ~Ended => m_nBlocking' = m_nBlocking + Weight(l) - Weight(loc[w]) - d /\ ~Ended'
  <2>1. Weight(l) \in Int /\ Weight(loc[w]) \in Int
    <3>1. \A v, S : One(v, S) \in Int BY DEF One
    <3> DEFINE a == One(l, AwaitsAt)
               b == One(l, GivesAt)
               a0 == One(loc[w], AwaitsAt)
               b0 == One(loc[w], GivesAt)
    <3>2. a \in Int /\ b \in Int /\ a0 \in Int /\ b0 \in Int BY <3>1
    <3>3. Weight(l) = a - b /\ Weight(loc[w]) = a0 - b0 BY DEF Weight
    <3> HIDE DEF a, b, a0, b0
    <3> QED BY <3>2, <3>3, SMT
  <2> DEFINE e == Weight(l)
             e0 == Weight(loc[w])
  <2>2. e \in Int /\ e0 \in Int /\ (~Ended => e - e0 = d) BY <2>1
  <2>3. m_nBlocking' = m_nBlocking /\ (Ended' <=> Ended) BY DEF Ended
  <2> HIDE DEF e, e0
  <2>4. ~Ended => m_nBlocking' = m_nBlocking + e - e0 - d BY <1>0, <2>2, <2>3, SMT
  <2> QED BY <2>3, <2>4 DEF e, e0
<1>4. Ended => /\ m_nBlocking' >= m_nBlocking
               /\ m_nBlocking' - m_nBlocking <= One(l, LeavesAt) - One(loc[w], LeavesAt)
  <2> DEFINE e == One(l, LeavesAt)
             e0 == One(loc[w], LeavesAt)
  <2>1. (e = 0 \/ e = 1) /\ (e0 = 0 \/ e0 = 1) /\ (Ended => e - e0 >= 0) BY DEF One
  <2> HIDE DEF e, e0
  <2>2. Ended => m_nBlocking' >= m_nBlocking /\ m_nBlocking' - m_nBlocking <= e - e0
        BY <1>0, <2>1, SMT
  <2> QED BY <2>2 DEF e, e0
<1>5. Blocking' /\ (Ended => Ended') BY <1>0, <1>1, <1>2, <1>3, <1>4, BlockingKeeps
<1>6. \A i \in DOMAIN r_q' : r_q'[i] # NoTask /\ (r_q'[i] = Sentinel => Ended')
      BY <1>5
<1>7. Trusts(w, l, m_nTasks, AllComplete', m_nBlocking', m_mutex') BY <1>1 DEF Trusts
<1> QED BY <1>1, <1>5, <1>6, <1>7, FrameMoves

LEMMA AppendedAre ==
  ASSUME NEW T, NEW s \in Seq(T), NEW e \in T, NEW i \in DOMAIN Append(s, e)
  PROVE  Append(s, e)[i] = e \/ \E j \in DOMAIN s : Append(s, e)[i] = s[j]
<1> DEFINE t == Append(s, e)
<1>1. /\ t \in Seq(T) /\ Len(t) = Len(s) + 1
      /\ \A j \in 1 .. Len(s) : t[j] = s[j]
      /\ t[Len(s) + 1] = e
      BY AppendProperties
<1>2. DOMAIN s = 1 .. Len(s) /\ Len(s) \in Nat BY SeqDomain
<1>3. DOMAIN t = 1 .. Len(t) BY <1>1, SeqDomain
<1>4. i \in 1 .. Len(s) + 1 BY <1>1, <1>3
<1> HIDE DEF t
<1>5. i \in 1 .. Len(s) \/ i = Len(s) + 1 BY <1>2, <1>4, SMT
<1> QED BY <1>1, <1>2, <1>5 DEF t

LEMMA TailsAre ==
  ASSUME NEW T, NEW s \in Seq(T), s # <<>>, NEW i \in DOMAIN Tail(s)
  PROVE  \E j \in DOMAIN s : Tail(s)[i] = s[j]
<1> DEFINE t == Tail(s)
<1>1. /\ t \in Seq(T) /\ Len(t) = Len(s) - 1
      /\ \A j \in 1 .. Len(t) : t[j] = s[j + 1]
      BY HeadTailProperties
<1>2. DOMAIN s = 1 .. Len(s) /\ Len(s) \in Nat BY SeqDomain
<1>3. i \in 1 .. Len(t) BY <1>1, SeqDomain
<1> HIDE DEF t
<1>4. i + 1 \in 1 .. Len(s) BY <1>1, <1>2, <1>3, SMT
<1> QED BY <1>1, <1>2, <1>3, <1>4 DEF t

LEMMA PushSentinelFrame ==
  ASSUME FrameInv, NEW w \in Workers, PushSentinel(w)
  PROVE  FrameInv'
<1> DEFINE l == loc[w]
           b == BackFromObtain(l)
<1>1. running /\ l.pc = "announce" BY DEF PushSentinel, At
<1>2. /\ HandsInv /\ HandsInv' /\ l \in Locals /\ m_nBlocking \in Int
      /\ (Ended <=> m_nBlocking < 0)
      /\ Trusts(w, l, m_nTasks, AllComplete, m_nBlocking, m_mutex)
      BY Knows, PushSentinelKeeps
<1>3. Ended /\ m_mutex # w BY <1>1, <1>2 DEF Trusts, Locked, Looking
<1>4. /\ Becomes(w, b) /\ r_q' = Append(r_q, Sentinel)
      /\ UNCHANGED <<rows, progress, running, m_nBlocking, m_mutex>>
      BY DEF PushSentinel
<1>5. l.task = NoTask BY <1>1, <1>3, StillOn
<1>6. b \in Locals /\ b.pc \in {"signal", "returned"}
  <2>1. l.ret \in {"run", "signal"} BY <1>2 DEF Locals
  <2> QED BY <1>2, <1>5, <2>1, BackIs, ReturnedIs
<1>7. Trusts(w, b, m_nTasks, AllComplete, m_nBlocking, m_mutex)
      BY <1>2, <1>3, BackTrusts
<1> HIDE DEF b
<1>8. r_q \in Seq(Queued) /\ Sentinel \in Queued BY <1>2 DEF HandsInv, HandsTypes, Queued
<1>9. Count(r_q', Pieces) = Count(r_q, Pieces) + 0
  <2>1. Count(r_q', Pieces) = Count(r_q, Pieces) + One(Sentinel, Pieces)
        BY <1>4, <1>8, CountAppend
  <2>2. One(Sentinel, Pieces) = 0 BY Constants DEF One, Pieces
  <2> QED BY <2>1, <2>2
<1>10. One(b, LeavesAt) - One(l, LeavesAt) >= 0
  <2>1. One(b, LeavesAt) = 1 /\ One(l, LeavesAt) = 1 BY <1>1, <1>2, <1>6, LeavesOne
  <2>2. 1 - 1 >= 0 BY SMT
  <2> QED BY <2>1, <2>2
<1>11. ASSUME NEW i \in DOMAIN r_q' PROVE r_q'[i] # NoTask /\ (r_q'[i] = Sentinel => Ended)
  <2>1. r_q'[i] = Sentinel \/ \E j \in DOMAIN r_q : r_q'[i] = r_q[j]
        BY <1>4, <1>8, AppendedAre
  <2> QED BY <1>3, <2>1, Constants DEF FrameInv
<1>12. b.pc # "take" BY <1>6
<1> QED BY <1>1, <1>2, <1>3, <1>4, <1>7, <1>9, <1>10, <1>11, <1>12, FrameQueue

LEMMA PopTaskFrame ==
  ASSUME FrameInv, NEW w \in Workers, PopTask(w)
  PROVE  FrameInv'
<1> DEFINE l == loc[w]
           e == Head(r_q)
           got == [l EXCEPT !.task = e]
           b == IF e = Sentinel THEN Goto(l, "announce") ELSE BackFromObtain(got)
<1>1. running /\ l.pc = "pop" BY DEF PopTask, At
<1>2. /\ HandsInv /\ HandsInv' /\ l \in Locals /\ m_nBlocking \in Int
      /\ (Ended <=> m_nBlocking < 0)
      /\ Trusts(w, l, m_nTasks, AllComplete, m_nBlocking, m_mutex)
      BY Knows, PopTaskKeeps
<1>3. l.site # "forward" /\ m_mutex # w BY <1>1, <1>2 DEF Trusts, Locked, Looking
<1>4. /\ Becomes(w, b) /\ r_q' = Tail(r_q) /\ r_q # <<>>
      /\ UNCHANGED <<rows, progress, running, m_nBlocking, m_mutex>>
      BY DEF PopTask
<1>5. r_q \in Seq(Queued) BY <1>2 DEF HandsInv, HandsTypes, Queued
<1>6. \E i \in DOMAIN r_q : e = r_q[i]
  <2>1. DOMAIN r_q = 1 .. Len(r_q) /\ Len(r_q) \in Nat /\ Len(r_q) # 0
        BY <1>4, <1>5, SeqDomain, EmptySeq
  <2>2. 1 \in DOMAIN r_q BY <2>1, SMT
  <2> QED BY <2>2
<1>7. e # NoTask /\ e \in Queued /\ (e = Sentinel => Ended)
  <2>1. e \in Queued BY <1>4, <1>5, HeadTailProperties
  <2> QED BY <1>6, <2>1 DEF FrameInv
<1>8. ASSUME NEW i \in DOMAIN r_q' PROVE r_q'[i] # NoTask /\ (r_q'[i] = Sentinel => Ended)
  <2>1. \E j \in DOMAIN r_q : r_q'[i] = r_q[j] BY <1>4, <1>5, TailsAre
  <2> QED BY <2>1 DEF FrameInv
<1>9. b \in Locals BY <1>2, <1>4, NextLocal
<1>10. Count(r_q', Pieces) = Count(r_q, Pieces) - One(e, Pieces) /\ Count(r_q, Pieces) \in Nat
  <2>1. HandsTypes BY <1>2 DEF HandsInv
  <2> QED BY <1>4, <1>5, <2>1, CountTail, CountsAreNat
<1>11. CASE e = Sentinel
  <2> DEFINE g == Goto(l, "announce")
  <2>1. g.pc = "announce" /\ g.site = l.site BY <1>2, GotoIs DEF PCs
  <2>2. b = g BY <1>11
  <2> HIDE DEF g, b
  <2>3. Trusts(w, b, m_nTasks, AllComplete, m_nBlocking, m_mutex)
        BY <1>2, <1>3, <1>7, <1>11, <2>1, <2>2 DEF Trusts, CountsOn, Locked, Looking
  <2>4. One(b, LeavesAt) - One(l, LeavesAt) >= 0
    <3>1. One(b, LeavesAt) = 1 /\ One(l, LeavesAt) = 1 BY <1>1, <1>2, <1>9, <2>1, <2>2, LeavesOne
    <3>2. 1 - 1 >= 0 BY SMT
    <3> QED BY <3>1, <3>2
  <2>5. Count(r_q', Pieces) = Count(r_q, Pieces) + 0
    <3>1. One(e, Pieces) = 0 BY <1>11, Constants DEF One, Pieces
    <3> QED BY <1>10, <3>1, SMT
  <2>6. Ended /\ b.pc # "take" BY <1>7, <1>11, <2>1, <2>2
  <2> QED BY <1>1, <1>2, <1>4, <1>8, <2>3, <2>4, <2>5, <2>6, FrameQueue
<1>12. CASE e # Sentinel
  <2>1. e \in Tasks BY <1>7, <1>12 DEF Queued
  <2>2. ~Ended
    <3>1. GivenOut(e) BY <1>2, <1>6, <2>1, Held
    <3>2. ~AllComplete BY <1>2, <2>1, <3>1, NotYet
    <3> QED BY <3>2 DEF FrameInv, Blocking
  <2>3. got \in Locals /\ got.task = e
    <3> HIDE DEF e, l
    <3> QED BY <1>2, <2>1 DEF Locals
  <2> HIDE DEF got
  <2>4. b = BackFromObtain(got) BY <1>12
  <2>5. b.pc \in {"run", "signal"}
    <3>1. got.ret \in {"run", "signal"} BY <2>3 DEF Locals
    <3> QED BY <1>7, <2>3, <2>4, <3>1, BackIs, ReturnedIs
  <2>6. Trusts(w, b, m_nTasks, AllComplete, m_nBlocking, m_mutex)
        BY <1>3, <1>7, <2>3, <2>4, BackTrusts
  <2> HIDE DEF b
  <2>7. Weight(b) - Weight(l) = -1
    <3>1. Weight(b) = 0 /\ Weight(l) = 1 BY <1>1, <1>2, <1>9, <2>5, Weights
    <3>2. 0 - 1 = -1 BY SMT
    <3> QED BY <3>1, <3>2
  <2>8. Count(r_q', Pieces) = Count(r_q, Pieces) + (-1)
    <3>1. One(e, Pieces) = 1 BY <2>1 DEF One, Pieces
    <3> QED BY <1>10, <3>1, SMT
  <2>9. -1 \in Int /\ b.pc # "take" BY <2>5, SMT
  <2> QED BY <1>1, <1>2, <1>4, <1>8, <2>2, <2>6, <2>7, <2>8, <2>9, FrameQueue
<1> QED BY <1>11, <1>12

LEMMA GiveFrame ==
  ASSUME FrameInv, NEW w \in Workers, Give(w)
  PROVE  FrameInv'
<1> DEFINE l == loc[w]
           e == l.task
           k == [l EXCEPT !.task = NoTask]
           g == [l EXCEPT !.pc = "uncount", !.task = NoTask]
           b == IF l.site = "forward" THEN Missed(k) ELSE g
<1>1. running /\ l.pc = "give" BY DEF Give, At
<1>2. /\ HandsInv /\ HandsInv' /\ l \in Locals /\ m_nBlocking \in Int
      /\ (Ended <=> m_nBlocking < 0)
      /\ Trusts(w, l, m_nTasks, AllComplete, m_nBlocking, m_mutex)
      BY Knows, GiveKeeps
<1>3. e # NoTask /\ m_mutex = w /\ l.v > 0 BY <1>1, <1>2 DEF Trusts, Locked
<1>4. /\ Becomes(w, b) /\ r_q' = Append(r_q, e)
      /\ UNCHANGED <<rows, progress, running, m_nBlocking, m_mutex>>
      BY DEF Give
<1>5. ~Ended BY <1>1, <1>3, StillOn
<1>6. e \in Tasks /\ e \in Queued BY <1>2, <1>3 DEF Locals, Queued
<1>7. b \in Locals BY <1>2, <1>4, NextLocal
<1>8. r_q \in Seq(Queued) BY <1>2 DEF HandsInv, HandsTypes, Queued
<1>9. Count(r_q', Pieces) = Count(r_q, Pieces) + 1
  <2>1. Count(r_q', Pieces) = Count(r_q, Pieces) + One(e, Pieces)
        BY <1>4, <1>6, <1>8, CountAppend
  <2>2. One(e, Pieces) = 1 BY <1>6 DEF One, Pieces
  <2> QED BY <2>1, <2>2
<1>10. ASSUME NEW i \in DOMAIN r_q' PROVE r_q'[i] # NoTask /\ (r_q'[i] = Sentinel => Ended)
  <2>1. r_q'[i] = e \/ \E j \in DOMAIN r_q : r_q'[i] = r_q[j]
        BY <1>4, <1>6, <1>8, AppendedAre
  <2> QED BY <1>6, <2>1, Constants DEF FrameInv
<1>11. /\ b.pc # "take" /\ Weight(b) - Weight(l) = 1
       /\ Trusts(w, b, m_nTasks, AllComplete, m_nBlocking, m_mutex)
  <2>1. CASE l.site = "forward"
    <3>1. k \in Locals /\ k.site = "forward" BY <1>2, <2>1 DEF Locals
    <3> HIDE DEF k
    <3>2. b = Missed(k) BY <2>1
    <3>3. b.pc \in {"recount", "unlock"} BY <3>1, <3>2, ForwardMissed
    <3>4. Trusts(w, b, m_nTasks, AllComplete, m_nBlocking, m_mutex)
          BY <1>3, <3>1, <3>2, MissedTrusts
    <3> HIDE DEF b
    <3>5. Weight(b) = 0 /\ Weight(l) = -1 BY <1>1, <1>2, <1>7, <2>1, <3>3, Weights
    <3>6. 0 - (-1) = 1 BY SMT
    <3> QED BY <3>3, <3>4, <3>5, <3>6
  <2>2. CASE l.site # "forward"
    <3>1. g.pc = "uncount" /\ g.site = l.site /\ g.v = l.v /\ b = g
          BY <1>2, <2>2 DEF Locals
    <3> HIDE DEF g, b
    <3>2. Trusts(w, b, m_nTasks, AllComplete, m_nBlocking, m_mutex)
          BY <1>1, <1>2, <1>3, <2>2, <3>1 DEF Trusts, CountsOn, Locked, Looking
    <3>3. Weight(b) = 1 /\ Weight(l) = 0 BY <1>1, <1>2, <1>7, <2>2, <3>1, Weights
    <3>4. 1 - 0 = 1 BY SMT
    <3> QED BY <3>1, <3>2, <3>3, <3>4
  <2> QED BY <2>1, <2>2
<1>12. 1 \in Int BY SMT
<1> HIDE DEF b
<1> QED BY <1>1, <1>2, <1>4, <1>5, <1>9, <1>10, <1>11, <1>12, FrameQueue

-----------------------------------------------------------------------------
(* Pieces are given out and completed.                                     *)

LEMMA LimitIs ==
  ASSUME HandsTypes, NEW y \in Rows, NEW k \in Int
  PROVE  /\ PrevLimit(y, k) \in Int
         /\ k = NData - 1 => PrevLimit(y, k) = NData - 1
<1>1. description[y].bottom \in Nat BY Kinds
<1> DEFINE b == description[y].bottom
<1> HIDE DEF b
<1>2. b \in Nat BY <1>1 DEF b
<1>3. /\ Lesser(k + b, NData - 1) \in Int
      /\ k = NData - 1 => Lesser(k + b, NData - 1) = NData - 1
      BY <1>2, Sizes, SMT DEF Lesser
<1> QED BY <1>3 DEF PrevLimit, b

(* Rows above another: the next one is complete, and so are the rest.      *)
LEMMA AllAbove ==
  ASSUME FrameInv, NEW y \in Added, y > 0, progress[y - 1].completed = NData,
         NEW x \in Added, x < y
  PROVE  progress[x].completed = NData
<1>0. HandsTypes /\ RowsInOrder /\ AboveIsDone BY DEF FrameInv, HandsInv
<1>1. y \in Nat /\ x \in Nat /\ y - 1 \in Added
  <2>1. m_nTasks \in 0 .. MaxTasks BY <1>0 DEF HandsTypes
  <2> QED BY <2>1, Sizes, SMT DEF Added
<1>2. CASE x = y - 1 BY <1>2
<1>3. CASE x # y - 1
  <2>1. x < y - 1 BY <1>1, <1>3, SMT
  <2>2. y - 1 \in Rows BY <1>0, <1>1, AddedAreRows
  <2>3. progress[y - 1].working = NData
    <3>1. progress[y - 1].working \in 0 .. NData BY <1>0, <2>2, Kinds
    <3>2. progress[y - 1].completed <= progress[y - 1].working
          BY <1>0, <2>2 DEF RowsInOrder
    <3> QED BY <3>1, <3>2, Sizes, SMT
  <2> QED BY <1>0, <1>1, <2>1, <2>3 DEF AboveIsDone
<1> QED BY <1>2, <1>3

LEMMA AboveRises ==
  ASSUME FrameInv, HandsTypes', running, NEW w \in Workers, NEW l, Becomes(w, l), l.pc # "take",
         UNCHANGED <<rows, running>>,
         \A y \in Rows : progress'[y].completed >= progress[y].completed,
         \A y \in Added : y > 0 /\ progress'[y].working # progress[y].working =>
           progress[y - 1].completed > PrevLimit(y, progress'[y].working - 1)
  PROVE  AboveIsDone' /\ (AllComplete => AllComplete')
<1>0. HandsInv /\ HandsTypes /\ AboveIsDone BY DEF FrameInv, HandsInv
<1>1. Added' = Added /\ \A x, k : PrevLimit(x, k)' = PrevLimit(x, k)
      BY DEF Added, PrevLimit, rows
<1>2. \A y \in Added : y \in Rows /\ y \in Nat /\ (y > 0 => y - 1 \in Added /\ y - 1 \in Rows)
  <2>1. m_nTasks \in 0 .. MaxTasks BY <1>0 DEF HandsTypes
  <2> QED BY <2>1, Sizes, SMT DEF Added, Rows
<1>3. ASSUME NEW y \in Rows
      PROVE  /\ progress[y].completed \in 0 .. NData /\ progress'[y].completed \in 0 .. NData
             /\ progress[y].working \in 0 .. NData /\ progress'[y].working \in 0 .. NData
  <2>1. progress' \in [Rows -> Progress] BY DEF HandsTypes
  <2>2. progress'[y] \in Progress BY <2>1
  <2> QED BY <1>0, <2>2, Kinds DEF Progress
<1>4. ASSUME NEW y \in Rows, progress[y].completed = NData PROVE progress'[y].completed = NData
  <2>1. progress'[y].completed >= NData BY <1>4
  <2> QED BY <2>1, <1>3, Sizes, SMT
<1>5. ASSUME NEW y \in Rows, NEW P \in Int, progress[y].completed > P
      PROVE  progress'[y].completed > P
  <2> DEFINE c == progress[y].completed
             d == progress'[y].completed
  <2>1. c \in 0 .. NData /\ d \in 0 .. NData /\ d >= c /\ c > P BY <1>3, <1>5
  <2> HIDE DEF c, d
  <2>2. d > P BY <2>1, Sizes, SMT
  <2> QED BY <2>2 DEF d
<1>6. ASSUME NEW y \in Added, y > 0, progress'[y].working > 0
      PROVE  progress'[y - 1].completed > PrevLimit(y, progress'[y].working - 1)
  <2> DEFINE j == progress'[y].working - 1
  <2>1. progress[y - 1].completed > PrevLimit(y, j)
        BY <1>0, <1>6 DEF AboveIsDone
  <2>2. j \in Int BY <1>2, <1>3, SMT
  <2> HIDE DEF j
  <2>3. PrevLimit(y, j) \in Int BY <1>0, <1>2, <2>2, LimitIs
  <2>4. progress'[y - 1].completed > PrevLimit(y, j) BY <1>2, <1>5, <1>6, <2>1, <2>3
  <2> QED BY <2>4 DEF j
<1>7. ASSUME NEW x \in Added, NEW y \in Added, x < y, progress'[y].working = NData
      PROVE  progress'[x].completed = NData
  <2>1. y > 0 BY <1>2, <1>7, SMT
  <2>2. CASE progress[y].working = NData
    <3>1. progress[x].completed = NData BY <1>0, <1>7, <2>2 DEF AboveIsDone
    <3> QED BY <1>2, <1>4, <3>1
  <2>3. CASE progress[y].working # NData
    <3>1. progress[y - 1].completed > PrevLimit(y, NData - 1)
      <4>1. progress'[y].working # progress[y].working BY <1>7, <2>3
      <4> QED BY <1>7, <2>1, <4>1
    <3>2. PrevLimit(y, NData - 1) = NData - 1
      <4>1. NData - 1 \in Int BY Sizes, SMT
      <4> QED BY <1>0, <1>2, <4>1, LimitIs
    <3>3. progress[y - 1].completed = NData
      <4>1. progress[y - 1].completed \in 0 .. NData BY <1>2, <1>3, <2>1
      <4>2. progress[y - 1].completed > NData - 1 BY <3>1, <3>2
      <4> QED BY <4>1, <4>2, Sizes, SMT
    <3>4. progress[x].completed = NData BY <1>7, <2>1, <3>3, AllAbove
    <3> QED BY <1>2, <1>4, <3>4
  <2> QED BY <2>2, <2>3
<1>8. ASSUME NEW u \in Workers, loc'[u].pc = "take", loc'[u].x > 0
      PROVE  progress'[loc'[u].x - 1].completed > PrevLimit(loc[u].x, loc[u].seen.working)'
  <2> DEFINE k == loc[u]
  <2>1. u # w /\ loc'[u] = k BY <1>0, <1>8 DEF HandsTypes, Becomes
  <2>2. k.pc = "take" /\ k.x > 0 BY <1>8, <2>1
  <2>3. k \in Locals /\ k.x < m_nTasks
    <3>1. OK(k) BY <1>0, Worker
    <3> QED BY <2>2, <3>1 DEF OK, InTable, Looking
  <2>4. k.x \in Added /\ k.seen.working \in Int
    <3>1. k.x \in Nat /\ k.seen.working \in 0 .. NData BY <2>3 DEF Locals, Progress
    <3>2. m_nTasks \in 0 .. MaxTasks BY <1>0 DEF HandsTypes
    <3> HIDE DEF k
    <3> QED BY <2>3, <3>1, <3>2, Sizes, SMT DEF Added
  <2>5. progress[k.x - 1].completed > PrevLimit(k.x, k.seen.working)
        BY <1>0, <2>2 DEF AboveIsDone
  <2> HIDE DEF k
  <2>6. PrevLimit(k.x, k.seen.working) \in Int BY <1>0, <1>2, <2>4, LimitIs
  <2>7. progress'[k.x - 1].completed > PrevLimit(k.x, k.seen.working)
        BY <1>2, <1>5, <2>2, <2>4, <2>5, <2>6
  <2>8. PrevLimit(loc[u].x, loc[u].seen.working)' = PrevLimit(k.x, k.seen.working)
        BY <2>1 DEF PrevLimit, rows
  <2> QED BY <2>1, <2>7, <2>8
<1>9. AllComplete => AllComplete' BY <1>1, <1>2, <1>4 DEF AllComplete
<1>10. (\A y \in Added : y > 0 /\ progress[y].working > 0 =>
          progress[y - 1].completed > PrevLimit(y, progress[y].working - 1))'
       BY <1>1, <1>6 DEF PrevLimit
<1>11. (\A x, y \in Added : x < y /\ progress[y].working = NData => progress[x].completed = NData)'
       BY <1>1, <1>7
<1>12. (\A u \in Workers : loc[u].pc = "take" /\ loc[u].x > 0 =>
          progress[loc[u].x - 1].completed > PrevLimit(loc[u].x, loc[u].seen.working))'
       BY <1>8
<1> QED BY <1>9, <1>10, <1>11, <1>12 DEF AboveIsDone

LEMMA FramePieces ==
  ASSUME FrameInv, HandsInv', running, NEW w \in Workers, NEW l, Becomes(w, l),
         UNCHANGED <<rows, running, r_q, m_nBlocking, m_mutex>>,
         AboveIsDone', AllComplete => AllComplete',
         Weight(l) = 0, Weight(loc[w]) = 0,
         loc[w].pc \notin {"pop", "announce", "signal", "returned"},
         Trusts(w, l, m_nTasks, AllComplete', m_nBlocking, m_mutex)
  PROVE  FrameInv'
<1>0. HandsTypes /\ HandsTypes' /\ Blocking /\ m_nBlocking \in Int /\ loc[w] \in Locals
      BY DEF FrameInv, HandsInv, HandsTypes
<1>1. 0 \in Int BY SMT
<1>2. Cardinality(Forwarded) \in Int /\ Cardinality(Forwarded)' = Cardinality(Forwarded) + 0
  <2>1. Cardinality(Forwarded)' = Cardinality(Forwarded) BY DEF Forwarded
  <2>2. Cardinality(Forwarded) \in Nat BY <1>0, ForwardedIs
  <2> QED BY <2>1, <2>2, SMT
<1>3. ~Ended => m_nBlocking' = m_nBlocking + Weight(l) - Weight(loc[w]) - 0 /\ ~Ended'
  <2>1. m_nBlocking' = m_nBlocking + 0 - 0 - 0 BY <1>0, SMT
  <2>2. Ended' <=> Ended BY DEF Ended
  <2> QED BY <2>1, <2>2
<1>4. /\ m_nBlocking' >= m_nBlocking
      /\ m_nBlocking' - m_nBlocking <= One(l, LeavesAt) - One(loc[w], LeavesAt)
  <2> DEFINE e == One(l, LeavesAt)
  <2>1. e = 0 \/ e = 1 BY DEF One
  <2>2. One(loc[w], LeavesAt) = 0 BY <1>0, LeavesOne
  <2> HIDE DEF e
  <2>3. m_nBlocking' >= m_nBlocking /\ m_nBlocking' - m_nBlocking <= e - 0
        BY <1>0, <2>1, SMT
  <2> QED BY <2>2, <2>3 DEF e
<1>5. Blocking' /\ (Ended => Ended') BY <1>0, <1>1, <1>2, <1>3, <1>4, BlockingKeeps
<1>6. \A i \in DOMAIN r_q' : r_q'[i] # NoTask /\ (r_q'[i] = Sentinel => Ended')
      BY <1>5 DEF FrameInv
<1> QED BY <1>5, <1>6, FrameMoves

LEMMA TakeFrame ==
  ASSUME FrameInv, NEW w \in Workers, Take(w)
  PROVE  FrameInv'
<1> DEFINE l == loc[w]
           x == l.x
           p == progress[x]
           k == p.working
           got == [l EXCEPT !.task = <<x, l.seen.working>>]
           b == IF l.seen.working + 1 > l.cs + CacheSize THEN Goto(got, "advance") ELSE Found(got)
<1>1. running /\ l.pc = "take" /\ l.pc \in Looking BY DEF Take, At, Looking
<1>2. /\ HandsInv /\ HandsInv' /\ l \in Locals /\ m_nBlocking \in Int
      /\ (Ended <=> m_nBlocking < 0)
      /\ Trusts(w, l, m_nTasks, AllComplete, m_nBlocking, m_mutex)
      BY Knows, TakeKeeps
<1>3. CASE p # l.seen
  <2>1. Becomes(w, Missed(l))
        /\ UNCHANGED <<rows, progress, running, r_q, m_nBlocking, m_mutex>>
        BY <1>3 DEF Take
  <2> QED BY <1>1, <1>2, <2>1, MissFrame
<1>4. CASE p = l.seen
  <2>0. HandsTypes /\ HandsTypes' /\ RowsInOrder /\ AboveIsDone BY <1>2 DEF HandsInv, FrameInv
  <2>1. x \in Rows /\ x \in Nat /\ x \in Added BY <1>1, <1>2, Scanning
  <2>2. /\ Becomes(w, b) /\ progress' = [progress EXCEPT ![x].working = @ + 1]
        /\ UNCHANGED <<rows, running, r_q, m_nBlocking, m_mutex>>
        BY <1>4 DEF Take
  <2>3. /\ p \in Progress /\ p.completed \in 0 .. NData /\ k \in 0 .. NData
        /\ p.completed <= k
        BY <2>0, <2>1, Kinds DEF RowsInOrder
  <2>4. k # NData
    <3>1. Open(x, p) BY <1>1, <1>2, <1>4, Worker DEF OK, AsRead
    <3>2. (p.completed = k /\ p.completed # NData) \/ k # NData BY <3>1 DEF Open
    <3> QED BY <3>2
  <2>5. k \in 0 .. NData - 1 /\ p.completed # NData /\ k + 1 - 1 = k /\ k + 1 \in 0 .. NData
    <3> HIDE DEF k
    <3> QED BY <2>3, <2>4, Sizes, SMT
  <2>6. ~AllComplete /\ ~Ended
    <3>1. ~AllComplete BY <2>1, <2>5 DEF AllComplete
    <3> QED BY <3>1 DEF FrameInv, Blocking
  <2>7. <<x, k>> \in Tasks /\ <<x, k>> # NoTask BY <2>1, <2>5, Constants DEF Tasks
  <2>8. /\ got \in Locals /\ got.task # NoTask /\ got.site = l.site /\ got.v = l.v
        /\ got.last = l.last
    <3>1. <<x, l.seen.working>> = <<x, k>> BY <1>4
    <3> DEFINE t == <<x, k>>
    <3>2. t \in Tasks /\ t # NoTask /\ <<x, l.seen.working>> = t BY <2>7, <3>1
    <3> HIDE DEF l, t
    <3> QED BY <1>2, <3>2 DEF Locals
  <2> HIDE DEF got
  <2>9. (l.site = "forward" <=> m_mutex = w)
        /\ (l.site = "forward" => l.v = m_nBlocking /\ l.v > 0)
        BY <1>1, <1>2, <2>6 DEF Trusts, Locked, CountsOn, Looking
  <2>10. /\ Trusts(w, b, m_nTasks, AllComplete', m_nBlocking, m_mutex)
         /\ b.pc \in {"advance", "run", "signal", "uncount"}
         /\ b.pc = "uncount" => b.site = "forward"
    <3>1. CASE l.seen.working + 1 > l.cs + CacheSize
      <4> DEFINE g == Goto(got, "advance")
      <4>1. g.pc = "advance" /\ g.site = l.site /\ g.v = l.v BY <2>8, GotoIs DEF PCs
      <4>2. b = g BY <3>1
      <4> HIDE DEF g, b
      <4>3. Trusts(w, g, m_nTasks, AllComplete', m_nBlocking, m_mutex)
            BY <1>2, <2>6, <2>9, <4>1 DEF Trusts, CountsOn, Locked, Looking
      <4> QED BY <4>1, <4>2, <4>3
    <3>2. CASE ~(l.seen.working + 1 > l.cs + CacheSize)
      <4>1. b = Found(got) BY <3>2
      <4>2. Trusts(w, b, m_nTasks, AllComplete', m_nBlocking, m_mutex)
            BY <2>8, <2>9, <4>1, FoundTrusts
      <4> QED BY <2>8, <4>1, <4>2, FoundIs
    <3> QED BY <3>1, <3>2
  <2>11. b \in Locals BY <1>2, <2>2, NextLocal
  <2> HIDE DEF b
  <2>12. Weight(b) = 0 /\ Weight(l) = 0 BY <1>1, <1>2, <2>10, <2>11, Weights
  <2>13. /\ \A y \in Rows \ {x} : progress'[y] = progress[y]
         /\ progress'[x].completed = p.completed /\ progress'[x].working = k + 1
    <3>1. p = [completed |-> p.completed, working |-> k] BY <2>3 DEF Progress
    <3>2. progress'[x] = [completed |-> p.completed, working |-> k + 1]
          BY <2>0, <2>1, <2>2, <3>1 DEF HandsTypes
    <3>3. \A y \in Rows \ {x} : progress'[y] = progress[y] BY <2>0, <2>2 DEF HandsTypes
    <3> QED BY <3>2, <3>3
  <2>14. ASSUME NEW y \in Rows PROVE progress'[y].completed >= progress[y].completed
    <3>1. progress'[y].completed = progress[y].completed BY <2>1, <2>13
    <3>2. progress[y].completed \in Nat BY <2>0, Kinds
    <3> HIDE DEF p
    <3> QED BY <3>1, <3>2, SMT
  <2>15. ASSUME NEW y \in Added, y > 0, progress'[y].working # progress[y].working
         PROVE  progress[y - 1].completed > PrevLimit(y, progress'[y].working - 1)
    <3>1. y = x
      <4>1. y \in Rows BY <2>0, AddedAreRows
      <4> QED BY <2>13, <2>15, <4>1
    <3>2. progress[x - 1].completed > PrevLimit(x, l.seen.working)
          BY <1>1, <2>0, <2>15, <3>1 DEF AboveIsDone
    <3>3. progress'[y].working - 1 = l.seen.working BY <1>4, <2>5, <2>13, <3>1
    <3> QED BY <3>1, <3>2, <3>3
  <2>16. b.pc # "take" BY <2>10
  <2>17. AboveIsDone' /\ (AllComplete => AllComplete')
         BY <1>1, <2>0, <2>2, <2>14, <2>15, <2>16, AboveRises
  <2> QED BY <1>1, <1>2, <2>2, <2>10, <2>12, <2>17, FramePieces
<1> QED BY <1>3, <1>4

LEMMA CompleteFrame ==
  ASSUME FrameInv, NEW w \in Workers, Complete(w)
  PROVE  FrameInv'
<1> DEFINE l == loc[w]
           x == Tid(l)
           p == progress[x]
           b == [l EXCEPT !.pc = "span", !.x = x, !.task = NoTask]
<1>1. running /\ l.pc = "publish" /\ l.pc \in AfterRun BY DEF Complete, At, AfterRun
<1>2. /\ HandsInv /\ HandsInv' /\ l \in Locals
      /\ Trusts(w, l, m_nTasks, AllComplete, m_nBlocking, m_mutex)
      BY Knows, CompleteKeeps
<1>3. l.task # NoTask /\ (AnyOrder(l) \/ l.seen = p) BY <1>1, <1>2, Completing
<1>4. HandsTypes /\ HandsTypes' BY <1>2 DEF HandsInv
<1>5. x \in Rows /\ x \in Nat BY <1>1, <1>2, <1>3, Own
<1>6. /\ Becomes(w, b) /\ progress' = [progress EXCEPT ![x].completed = @ + 1]
      /\ UNCHANGED <<rows, running, r_q, m_nBlocking, m_mutex>>
      BY <1>3 DEF Complete
<1>7. b.pc = "span" /\ b.site = l.site
  <2> HIDE DEF x, l
  <2> QED BY <1>2 DEF Locals
<1>8. b \in Locals BY <1>2, <1>6, NextLocal
<1> HIDE DEF b
<1>9. l.site # "forward" /\ m_mutex # w
  <2>1. l.site # "forward" BY <1>1, OwnSite
  <2> QED BY <1>1, <1>2, <2>1 DEF Trusts, Locked
<1>10. Trusts(w, b, m_nTasks, AllComplete', m_nBlocking, m_mutex)
       BY <1>7, <1>9, BusyTrusts
<1>11. Weight(b) = 0 /\ Weight(l) = 0 BY <1>1, <1>2, <1>7, <1>8, Weights
<1>12. /\ \A y \in Rows \ {x} : progress'[y] = progress[y]
       /\ progress'[x].completed = p.completed + 1 /\ progress'[x].working = p.working
  <2>1. p \in Progress BY <1>4, <1>5, Kinds
  <2>2. p = [completed |-> p.completed, working |-> p.working] BY <2>1 DEF Progress
  <2>3. progress'[x] = [completed |-> p.completed + 1, working |-> p.working]
        BY <1>4, <1>5, <1>6, <2>2 DEF HandsTypes
  <2>4. \A y \in Rows \ {x} : progress'[y] = progress[y] BY <1>4, <1>6 DEF HandsTypes
  <2> QED BY <2>3, <2>4
<1>13. ASSUME NEW y \in Rows
       PROVE  /\ progress'[y].completed >= progress[y].completed
              /\ progress'[y].working = progress[y].working
  <2>1. progress[y].completed \in Nat BY <1>4, Kinds
  <2>2. CASE y = x
    <3> DEFINE c == p.completed
               d == progress'[x].completed
    <3>1. c \in Nat /\ d = c + 1 BY <2>1, <2>2, <1>12
    <3> HIDE DEF c, d
    <3>2. d >= c BY <3>1, SMT
    <3> QED BY <1>12, <2>2, <3>2 DEF c, d
  <2>3. CASE y # x
    <3>1. progress'[y] = progress[y] BY <1>12, <2>3
    <3>2. progress[y].completed >= progress[y].completed BY <2>1, SMT
    <3> QED BY <3>1, <3>2
  <2> QED BY <2>2, <2>3
<1>14. Added \subseteq Rows BY <1>4, AddedAreRows
<1>15. b.pc # "take" BY <1>7
<1>16. AboveIsDone' /\ (AllComplete => AllComplete')
       BY <1>1, <1>4, <1>6, <1>13, <1>14, <1>15, AboveRises
<1>17. l.pc \notin {"pop", "announce", "signal", "returned"} BY <1>1
<1> QED BY <1>1, <1>2, <1>6, <1>10, <1>11, <1>16, <1>17, FramePieces

-----------------------------------------------------------------------------
(* The main thread, which adds rows only before it launches the workers.   *)
Idle ==
  /\ HandsInv /\ ~running /\ m_nBlocking = 0 /\ m_mutex = Nobody
  /\ \A x \in Added : progress[x] = Untouched

LEMMA IdleFrame == Idle => FrameInv
<1> SUFFICES ASSUME Idle PROVE FrameInv OBVIOUS
<1>1. /\ HandsInv /\ ~running /\ m_nBlocking = 0 /\ m_mutex = Nobody
      /\ r_q = <<>> /\ \A w \in Workers : loc[w] = Fresh
      /\ \A x \in Added : progress[x] = Untouched
      BY DEF Idle, HandsInv
<1>2. ~Ended BY <1>1, SMT DEF Ended
<1>3. Fresh.pc = "start" /\ Fresh.site = "obtain" BY DEF Fresh
<1>4. AboveIsDone
  <2>1. Untouched.working = 0 /\ ~(0 > 0) /\ NData # 0 BY Sizes, SMT DEF Untouched
  <2> QED BY <1>1, <1>3, <2>1 DEF AboveIsDone
<1>5. Blocking
  <2>1. Awaiting = {} /\ Giving = {} BY <1>1, <1>3 DEF Awaiting, Giving
  <2>2. Forwarded = {} BY <1>1 DEF Forwarded
  <2>3. 0 = Cardinality({}) - Cardinality({}) - Cardinality({}) BY FS_EmptySet, SMT
  <2> QED BY <1>1, <1>2, <2>1, <2>2, <2>3 DEF Blocking
<1>6. ASSUME NEW w \in Workers PROVE Believes(w)
  <2>1. m_mutex # w BY <1>1, Constants
  <2>2. Trusts(w, Fresh, m_nTasks, AllComplete, m_nBlocking, m_mutex)
        BY <1>3, <2>1, BusyTrusts
  <2> QED BY <1>1, <2>2, BelievesIs
<1> QED BY <1>1, <1>2, <1>4, <1>5, <1>6 DEF FrameInv

(* Nobody has left with the mutex.                                         *)
LEMMA Quietened ==
  ASSUME FrameInv, ~running \/ \A w \in Workers : Left(w)
  PROVE  m_mutex = Nobody
<1>1. ASSUME NEW w \in Workers PROVE m_mutex # w
  <2>1. Trusts(w, loc[w], m_nTasks, AllComplete, m_nBlocking, m_mutex) BY Knows
  <2>2. loc[w].pc \in {"start", "returned", "failed"} BY DEF FrameInv, HandsInv, Left, Fresh
  <2>3. loc[w].site # "forward" BY <2>1, <2>2 DEF Trusts, Looking
  <2> QED BY <2>1, <2>2, <2>3 DEF Trusts, Locked
<1>2. m_mutex \in Workers \cup {Nobody} BY DEF FrameInv, HandsInv, HandsTypes
<1> QED BY <1>1, <1>2

LEMMA InitFrame == Init => FrameInv
<1> SUFFICES ASSUME Init PROVE FrameInv OBVIOUS
<1>1. HandsInv BY InitHands
<1>2. \A x \in Added : progress[x] = Untouched
  <2>1. Added \subseteq Rows BY <1>1, AddedAreRows DEF HandsInv
  <2> QED BY <2>1 DEF Init
<1>3. Idle BY <1>1, <1>2 DEF Idle, Init
<1> QED BY <1>3, IdleFrame

LEMMA IdleNext == Idle' => FrameInv'
  BY IdleFrame, PTL

LEMMA TaskAddFrame ==
  ASSUME LateAdd = FALSE, FrameInv, NEW d \in Descriptions, TaskAdd(d)
  PROVE  FrameInv'
<1>1. /\ ~running /\ HandsInv /\ m_nTasks' = m_nTasks + 1
      /\ progress' = [progress EXCEPT ![m_nTasks] = Untouched]
      /\ UNCHANGED <<running, loc, r_q, m_nBlocking, m_mutex>>
      BY DEF TaskAdd, FrameInv
<1>2. HandsInv' BY <1>1, TaskAddKeeps
<1>3. m_mutex = Nobody BY <1>1, Quietened
<1>4. m_nBlocking = 0
  <2>1. /\ r_q = <<>> /\ \A w \in Workers : loc[w] = Fresh
        BY <1>1 DEF HandsInv
  <2>2. Fresh.pc = "start" BY DEF Fresh
  <2>3. Awaiting = {} /\ Giving = {} BY <2>1, <2>2 DEF Awaiting, Giving
  <2>4. Forwarded = {} BY <2>1 DEF Forwarded
  <2>5. 0 = Cardinality({}) - Cardinality({}) - Cardinality({}) BY FS_EmptySet, SMT
  <2> QED BY <1>1, <2>3, <2>4, <2>5 DEF FrameInv, Blocking
<1>5. ASSUME NEW x \in Added' PROVE progress'[x] = Untouched
  <2>1. m_nTasks \in 0 .. MaxTasks BY <1>1 DEF HandsInv, HandsTypes
  <2>2. x \in Added \/ x = m_nTasks BY <1>1, <2>1, Sizes, SMT DEF Added
  <2>3. m_nTasks < MaxTasks BY DEF TaskAdd
  <2>4. m_nTasks \in Rows /\ m_nTasks \notin Added BY <2>1, <2>3, Sizes, SMT DEF Rows, Added
  <2>5. Added \subseteq Rows BY <1>1, AddedAreRows DEF HandsInv
  <2>6. /\ progress'[m_nTasks] = Untouched
        /\ \A y \in Rows \ {m_nTasks} : progress'[y] = progress[y]
        BY <1>1, <2>4 DEF HandsInv, HandsTypes
  <2>7. \A y \in Added : progress[y] = Untouched BY <1>1 DEF FrameInv, AboveIsDone
  <2> QED BY <2>2, <2>4, <2>5, <2>6, <2>7
<1>6. Idle' BY <1>1, <1>2, <1>3, <1>4, <1>5 DEF Idle
<1> QED BY <1>6, IdleNext

LEMMA FloodFrame ==
  ASSUME FrameInv, Flood
  PROVE  FrameInv'
<1>1. HandsInv' BY FloodKeeps DEF FrameInv
<1>2. /\ UNCHANGED <<rows, m_nBlocking, progress, m_mutex, r_q, loc>> /\ running' BY DEF Flood
<1>3. (AllComplete' <=> AllComplete) /\ (Ended' <=> Ended)
      BY <1>2 DEF AllComplete, Ended, Added, rows
<1>4. AboveIsDone' BY <1>2 DEF FrameInv, AboveIsDone, Added, PrevLimit, rows
<1>5. Blocking'
      BY <1>2, <1>3 DEF FrameInv, Blocking, Awaiting, Giving, Leaving, Forwarded
<1>6. ASSUME NEW w \in Workers PROVE Believes(w)'
  <2>1. Trusts(w, loc[w], m_nTasks, AllComplete, m_nBlocking, m_mutex) BY Knows
  <2>2. loc'[w] = loc[w] /\ m_nTasks' = m_nTasks BY <1>2 DEF rows
  <2>3. Trusts(w, loc[w], m_nTasks', AllComplete', m_nBlocking', m_mutex')
        BY <1>2, <1>3, <2>1, <2>2 DEF Trusts
  <2> QED BY <2>2, <2>3, BelievesNext
<1> QED BY <1>1, <1>2, <1>3, <1>4, <1>5, <1>6 DEF FrameInv

LEMMA ResetFrame ==
  ASSUME FrameInv, Reset
  PROVE  FrameInv'
<1>1. HandsInv' BY ResetKeeps DEF FrameInv
<1>2. m_mutex' = Nobody BY Quietened DEF Reset
<1>3. running' = FALSE /\ m_nBlocking' = 0 /\ m_nTasks' = 0 BY DEF Reset
<1>4. Added' = {} BY <1>3, SMT DEF Added
<1>5. Idle' BY <1>1, <1>2, <1>3, <1>4 DEF Idle
<1> QED BY <1>5, IdleNext

LEMMA StutterFrame ==
  ASSUME FrameInv, UNCHANGED vars
  PROVE  FrameInv'
<1>1. HandsInv' BY StutterKeeps DEF FrameInv
<1>2. UNCHANGED <<rows, m_nBlocking, progress, m_mutex, r_q, loc, running>> BY DEF vars
<1>3. (AllComplete' <=> AllComplete) /\ (Ended' <=> Ended)
      BY <1>2 DEF AllComplete, Ended, Added, rows
<1>4. AboveIsDone' BY <1>2 DEF FrameInv, AboveIsDone, Added, PrevLimit, rows
<1>5. Blocking'
      BY <1>2, <1>3 DEF FrameInv, Blocking, Awaiting, Giving, Leaving, Forwarded
<1>6. ASSUME NEW w \in Workers PROVE Believes(w)'
  <2>1. Trusts(w, loc[w], m_nTasks, AllComplete, m_nBlocking, m_mutex) BY Knows
  <2>2. loc'[w] = loc[w] /\ m_nTasks' = m_nTasks BY <1>2 DEF rows
  <2>3. Trusts(w, loc[w], m_nTasks', AllComplete', m_nBlocking', m_mutex')
        BY <1>2, <1>3, <2>1, <2>2 DEF Trusts
  <2> QED BY <2>2, <2>3, BelievesNext
<1> QED BY <1>1, <1>2, <1>3, <1>4, <1>5, <1>6 DEF FrameInv

-----------------------------------------------------------------------------
LEMMA StepFrame ==
  ASSUME FrameInv, NEW w \in Workers, Step(w)
  PROVE  FrameInv'
<1>1. CASE ObtainPvt(w)
      BY <1>1, LookAtFrame, LookAtCacheFrame, LookAboveFrame, TakeFrame, AdvanceCacheFrame
      DEF ObtainPvt
<1>2. CASE Obtain(w)
      BY <1>2, StartFrame, ReadCountFrame, ReadFromFrame, ReadToFrame, LookAtLastFrame,
         QuitsFrame, PushSentinelFrame, BlockFrame, PopTaskFrame
      DEF Obtain
<1>3. CASE CompletesTask(w)
      BY <1>3, RanFrame, ReadMinFrame, ReadMaxFrame, SpinFrame, BoundsFrame, CompleteFrame,
         SpanFrame
      DEF CompletesTask
<1>4. CASE Forwards(w)
      BY <1>4, SignalFrame, LockFrame, SignalAgainFrame, GiveFrame, UncountFrame, RecountFrame,
         UnlockFrame
      DEF Forwards
<1> QED BY <1>1, <1>2, <1>3, <1>4 DEF Step

(* While no row is added to a frame that has been launched, as in          *)
(* fluidAdvanceASync, the count of blocked workers is right until the      *)
(* frame ends, and it ends when every row is complete.                     *)
THEOREM FrameInvariant ==
  ASSUME LateAdd = FALSE
  PROVE  Spec => []FrameInv
<1>1. FrameInv /\ [Next]_vars => FrameInv'
  <2> SUFFICES ASSUME FrameInv, [Next]_vars PROVE FrameInv' OBVIOUS
  <2>1. ASSUME NEW d \in Descriptions, TaskAdd(d) PROVE FrameInv' BY <2>1, TaskAddFrame
  <2>2. CASE Flood BY <2>2, FloodFrame
  <2>3. CASE Reset BY <2>3, ResetFrame
  <2>4. ASSUME NEW w \in Workers, Step(w) PROVE FrameInv' BY <2>4, StepFrame
  <2>5. CASE UNCHANGED vars BY <2>5, StutterFrame
  <2> QED BY <2>1, <2>2, <2>3, <2>4, <2>5 DEF Next
<1> QED BY <1>1, InitFrame, PTL DEF Spec

-----------------------------------------------------------------------------
(* What follows of the frame.                                              *)

LEMMA QueueHoldsPieces ==
  ASSUME FrameInv
  PROVE  /\ r_q \in Seq(Tasks \cup {Sentinel}) /\ Len(r_q) \in Nat /\ Len(r_q) <= QueueMax
         /\ AllComplete => Forwarded = {}
<1>1. HandsInv /\ HandsTypes /\ r_q \in Seq(Queued) /\ Len(r_q) <= QueueMax
      BY DEF FrameInv, HandsInv, HandsTypes, Queued
<1>2. DOMAIN r_q = 1 .. Len(r_q) /\ Len(r_q) \in Nat BY <1>1, SeqDomain
<1>3. ASSUME NEW i \in 1 .. Len(r_q) PROVE r_q[i] \in Tasks \cup {Sentinel}
  <2>1. r_q[i] \in Queued BY <1>1, <1>3, ElementOfSeq
  <2>2. r_q[i] # NoTask BY <1>2 DEF FrameInv
  <2> QED BY <2>1, <2>2 DEF Queued
<1>4. r_q = [i \in 1 .. Len(r_q) |-> r_q[i]] BY <1>1, <1>2, SeqDef
<1>5. r_q \in [1 .. Len(r_q) -> Tasks \cup {Sentinel}] BY <1>3, <1>4
<1>6. r_q \in Seq(Tasks \cup {Sentinel}) BY <1>2, <1>5, SeqDef
<1>7. ASSUME AllComplete, NEW i \in DOMAIN r_q PROVE r_q[i] = Sentinel
  <2>1. r_q[i] \in Tasks \cup {Sentinel} BY <1>2, <1>3, <1>7
  <2>2. ASSUME r_q[i] \in Tasks PROVE FALSE
    <3>1. GivenOut(r_q[i]) BY <1>1, <1>7, <2>2, Held
    <3> QED BY <1>1, <1>7, <2>2, <3>1, NotYet
  <2> QED BY <2>1, <2>2
<1> QED BY <1>1, <1>2, <1>6, <1>7 DEF Forwarded

LEMMA CountBounds ==
  ASSUME FrameInv
  PROVE  m_nBlocking \in -100 .. Cardinality(Workers)
<1>1. HandsTypes /\ Blocking /\ m_nBlocking \in Int BY DEF FrameInv, HandsInv, HandsTypes
<1> DEFINE A == Cardinality(Awaiting)
           G == Cardinality(Giving)
           L == Cardinality(Leaving)
           F == Cardinality(Forwarded)
           C == Cardinality(Workers)
<1>2. /\ A \in Nat /\ G \in Nat /\ L \in Nat /\ A <= C /\ L <= C
      BY <1>1, PlacesCount, CountsAreNat
<1>3. F \in Nat /\ C \in Nat BY <1>1, ForwardedIs, FS_CardinalityType, WorkersAssumption
<1>4. /\ ~Ended => m_nBlocking = A - F - G
      /\ Ended => m_nBlocking \in -100 .. L - 100
      /\ ~Ended => ~(m_nBlocking < 0)
      BY <1>1 DEF Blocking, Ended
<1> HIDE DEF A, G, L, F, C
<1>5. m_nBlocking \in -100 .. C BY <1>1, <1>2, <1>3, <1>4, SMT
<1> QED BY <1>5 DEF C

LEMMA FrameTypes == FrameInv => TypeOK
<1> SUFFICES ASSUME FrameInv PROVE TypeOK OBVIOUS
<1>1. HandsTypes BY DEF FrameInv, HandsInv
<1>2. m_min \in 0 .. MaxTasks /\ m_max \in 0 .. MaxTasks
  <2>1. m_nTasks \in 0 .. MaxTasks /\ m_min \in 0 .. m_nTasks /\ m_max \in 0 .. m_nTasks
        BY <1>1 DEF HandsTypes
  <2> QED BY <2>1, Sizes, SMT
<1>3. ASSUME NEW w \in Workers
      PROVE  /\ loc[w].pc \in PCs /\ loc[w].site \in Sites
             /\ loc[w].ret \in {"run", "signal"}
             /\ loc[w].task \in Tasks \cup {NoTask}
             /\ loc[w].seen \in Progress
  <2>1. loc[w] \in Locals BY <1>1 DEF HandsTypes
  <2> QED BY <2>1 DEF Locals
<1> QED BY <1>1, <1>2, <1>3, QueueHoldsPieces, CountBounds DEF TypeOK, HandsTypes

(* The bounds of the scan, the cache region, the counts of the rows, the   *)
(* queue and the count of blocked workers stay within theirs, whichever    *)
(* workers move them and when.                                             *)
THEOREM TypeCorrect ==
  ASSUME LateAdd = FALSE
  PROVE  Spec => []TypeOK
  BY FrameInvariant, FrameTypes, PTL

(* At most one worker has pushed its own piece and not yet lowered the     *)
(* count, which is then positive.                                          *)
LEMMA PoppersCover == FrameInv => PoppersCoverForwarded
<1> SUFFICES ASSUME FrameInv PROVE PoppersCoverForwarded OBVIOUS
<1> DEFINE Pop == {w \in Workers : loc[w].pc = "pop"}
           U == {w \in Workers : loc[w].pc = "uncount" /\ loc[w].site # "forward"}
<1>1. HandsTypes /\ Blocking /\ m_nBlocking \in Int BY DEF FrameInv, HandsInv, HandsTypes
<1>2. IsFiniteSet(Pop) /\ Cardinality(Pop) \in Nat
  <2>1. Pop \in SUBSET Workers OBVIOUS
  <2> QED BY <2>1, FS_Subset, FS_CardinalityType, WorkersAssumption
<1>3. Cardinality(Forwarded) \in Nat BY <1>1, ForwardedIs
<1>4. CASE Ended
  <2>1. Forwarded = {} BY <1>4, QueueHoldsPieces DEF FrameInv, Blocking
  <2>2. Cardinality(Forwarded) = 0 BY <2>1, FS_EmptySet
  <2>3. 0 <= Cardinality(Pop) BY <1>2, SMT
  <2> QED BY <2>2, <2>3 DEF PoppersCoverForwarded
<1>5. CASE ~Ended
  <2> DEFINE G == Cardinality(Giving)
  <2>1. m_nBlocking = Cardinality(Awaiting) - Cardinality(Forwarded) - G /\ G \in Nat
        BY <1>1, <1>5, PlacesCount, CountsAreNat DEF Blocking
  <2>2. m_nBlocking >= 0 BY <1>1, <1>5, SMT DEF Ended
  <2>3. Awaiting = Pop \cup U BY DEF Awaiting
  <2>4. ASSUME NEW w \in U PROVE m_mutex = w /\ m_nBlocking > 0
    <3>1. Trusts(w, loc[w], m_nTasks, AllComplete, m_nBlocking, m_mutex) BY Knows
    <3>2. ~(m_nBlocking < 0) BY <1>5 DEF Ended
    <3> QED BY <3>1, <3>2 DEF Trusts, Locked, CountsOn
  <2> HIDE DEF G
  <2>5. CASE U = {}
    <3>1. Cardinality(Awaiting) = Cardinality(Pop) BY <2>3, <2>5
    <3>2. Cardinality(Forwarded) <= Cardinality(Pop) BY <1>2, <1>3, <2>1, <2>2, <3>1, SMT
    <3> QED BY <3>2 DEF PoppersCoverForwarded
  <2>6. CASE U # {}
    <3>1. PICK w \in Workers : w \in U BY <2>6
    <3>2. U = {w} BY <2>4, <3>1
    <3>3. w \notin Pop BY <3>1
    <3>4. Cardinality(Awaiting) = Cardinality(Pop) + 1
      <4> HIDE DEF Pop, U
      <4> QED BY <1>2, <2>3, <3>2, <3>3, FS_AddElement
    <3>5. m_nBlocking > 0 BY <2>4, <3>1
    <3>6. Cardinality(Forwarded) <= Cardinality(Pop)
          BY <1>1, <1>2, <1>3, <2>1, <3>4, <3>5, SMT
    <3> QED BY <3>6 DEF PoppersCoverForwarded
  <2> QED BY <2>5, <2>6
<1> QED BY <1>4, <1>5

(* For every piece in r_q some worker is bound to pop it: forwarding never *)
(* loses a piece, although the count of blocked workers is read and        *)
(* lowered apart from the pushes (mpCTaskComplete).                        *)
THEOREM ForwardedArePopped ==
  ASSUME LateAdd = FALSE
  PROVE  Spec => []PoppersCoverForwarded
  BY FrameInvariant, PoppersCover, PTL

-----------------------------------------------------------------------------
(* Steps, by what they do to pieces.                                       *)

(* A piece changes hands only with the rows or through the queue.          *)
LEMMA SameTask ==
  ASSUME HandsInv, HandsInv', NEW w \in Workers, NEW l, Becomes(w, l),
         UNCHANGED <<rows, progress, r_q>>
  PROVE  l.task = loc[w].task
<1>1. HandsTypes /\ HandsTypes' /\ l \in Locals /\ loc[w] \in Locals
      BY NextLocal DEF HandsInv, HandsTypes
<1>2. \A t \in Tasks : Hands(t)' = Hands(t) /\ Hands(t) \in Int
  <2> SUFFICES ASSUME NEW t \in Tasks PROVE Hands(t)' = Hands(t) /\ Hands(t) \in Int OBVIOUS
  <2>1. GivenOut(t)' <=> GivenOut(t) BY DEF GivenOut, rows
  <2> QED BY <2>1 DEF HandsInv
<1>3. \A t : Hands(t)' = Hands(t) - (IF loc[w].task = t THEN 1 ELSE 0)
                                  + (IF l.task = t THEN 1 ELSE 0)
      BY <1>1, HandsChange
<1>4. ASSUME NEW t \in Tasks PROVE loc[w].task = t <=> l.task = t
  <2> DEFINE a == IF loc[w].task = t THEN 1 ELSE 0
             b == IF l.task = t THEN 1 ELSE 0
             h == Hands(t)
  <2>1. a \in {0, 1} /\ b \in {0, 1} OBVIOUS
  <2>2. h = h - a + b /\ h \in Int BY <1>2, <1>3
  <2> HIDE DEF a, b, h
  <2>3. a = b BY <2>1, <2>2, SMT
  <2> QED BY <2>3 DEF a, b
<1>5. l.task \in Tasks \cup {NoTask} /\ loc[w].task \in Tasks \cup {NoTask} BY <1>1 DEF Locals
<1> QED BY <1>4, <1>5

Same(x) == progress'[x].completed = progress[x].completed

(* Steps of workers that have no piece and get none.                       *)
LEMMA IdleSteps ==
  ASSUME HandsInv, HandsInv', NEW w \in Workers,
         \/ LookAt(w) \/ LookAtCache(w) \/ LookAbove(w) \/ Start(w) \/ ReadCount(w)
         \/ ReadFrom(w) \/ ReadTo(w) \/ LookAtLast(w) \/ Quits(w) \/ Block(w) \/ Span(w)
         \/ Recount(w) \/ Unlock(w)
  PROVE  /\ loc[w].pc \notin AfterRun \cup {"run"} /\ loc'[w].pc \notin AfterRun \cup {"run"}
         /\ loc'[w].task = NoTask /\ \A x \in Rows : Same(x)
<1>1. running /\ running' /\ loc[w].pc \in Handless \ (AfterRun \cup {"run"})
      BY DEF LookAt, LookAtCache, LookAbove, Start, ReadCount, ReadFrom, ReadTo, LookAtLast,
             Quits, Block, Span, Recount, Unlock, At, Private, Handless, Looking, AfterRun
<1>2. UNCHANGED <<rows, progress, r_q>> /\ \E b : Becomes(w, b)
      BY DEF LookAt, LookAtCache, LookAbove, Start, ReadCount, ReadFrom, ReadTo, LookAtLast,
             Quits, Block, Span, Recount, Unlock, Private
<1>3. PICK b : Becomes(w, b) BY <1>2
<1>4. loc'[w] = b /\ b.task = loc[w].task BY <1>2, <1>3, NextLocal, SameTask
<1>5. loc[w].task = NoTask BY <1>1, Worker DEF OK, InHand
<1>6. InHand(loc[w])' BY <1>1 DEF HandsInv
<1>7. loc'[w].pc \notin AfterRun \cup {"run"} BY <1>4, <1>5, <1>6 DEF InHand
<1> QED BY <1>1, <1>2, <1>4, <1>5, <1>7 DEF Same

(* Steps with a piece of which the function has not been called, or that   *)
(* obtain one.                                                             *)
LEMMA HandingSteps ==
  ASSUME FrameInv, HandsInv', NEW w \in Workers,
         \/ Take(w) \/ AdvanceCache(w) \/ PushSentinel(w) \/ PopTask(w) \/ Signal(w)
         \/ Lock(w) \/ SignalAgain(w) \/ Give(w) \/ Uncount(w)
  PROVE  /\ loc[w].pc \notin AfterRun \cup {"run"} /\ loc'[w].pc \notin AfterRun
         /\ \A x \in Rows : Same(x)
<1> DEFINE l == loc[w]
<1>1. HandsInv /\ HandsTypes /\ l \in Locals /\ l.ret \in {"run", "signal"}
      BY DEF FrameInv, HandsInv, HandsTypes, Locals
<1>2. running
      BY DEF Take, AdvanceCache, PushSentinel, PopTask, Signal, Lock, SignalAgain, Give, Uncount, At
<1>3. l.pc \in {"take", "advance", "announce", "pop", "signal", "lock", "again", "give", "uncount"}
      BY DEF Take, AdvanceCache, PushSentinel, PopTask, Signal, Lock, SignalAgain, Give, Uncount, At
<1>4. \A x \in Rows : Same(x)
  <2>1. CASE UNCHANGED progress BY <2>1 DEF Same
  <2>2. CASE Take(w) /\ ~UNCHANGED progress
    <3>1. progress' = [progress EXCEPT ![l.x].working = @ + 1] BY <2>2 DEF Take
    <3>2. l.x \in Rows BY <1>1, <1>2, <2>2, Scanning DEF Take, At, Looking
    <3>3. progress[l.x] \in Progress BY <1>1, <3>2, Kinds
    <3>4. progress[l.x] = [completed |-> progress[l.x].completed,
                           working |-> progress[l.x].working]
          BY <3>3 DEF Progress
    <3>5. progress'[l.x] = [completed |-> progress[l.x].completed,
                            working |-> progress[l.x].working + 1]
          BY <1>1, <3>1, <3>2, <3>4 DEF HandsTypes
    <3>6. \A y \in Rows \ {l.x} : progress'[y] = progress[y]
          BY <1>1, <3>1 DEF HandsTypes
    <3> QED BY <3>5, <3>6 DEF Same
  <2> QED BY <2>1, <2>2
          DEF AdvanceCache, PushSentinel, PopTask, Signal, Lock, SignalAgain, Give, Uncount,
              Private
<1>5. ASSUME NEW b, Becomes(w, b), b.pc \notin AfterRun PROVE loc'[w].pc \notin AfterRun
      BY <1>1, <1>5, NextLocal
<1>6. \A p \in {"advance", "lock", "give", "unlock", "announce"} : Goto(l, p).pc = p
      BY <1>1, GotoIs DEF PCs
<1>7. Returned(l).pc \notin AfterRun BY <1>1, ReturnedIs DEF AfterRun
<1>8. BackFromObtain(l).pc \notin AfterRun BY <1>1, BackIs, ReturnedIs DEF AfterRun
<1>9. loc'[w].pc \notin AfterRun
  <2>1. CASE Take(w)
    <3> DEFINE got == [l EXCEPT !.task = <<l.x, l.seen.working>>]
               t == got.task
    <3>1. CASE progress[l.x] # l.seen
      <4>1. Becomes(w, Missed(l)) BY <2>1, <3>1 DEF Take
      <4> QED BY <1>1, <1>5, <4>1, MissedAt DEF AfterRun
    <3>2. CASE progress[l.x] = l.seen
      <4>1. Becomes(w, Goto(got, "advance")) \/ Becomes(w, Found(got))
            BY <2>1, <3>2 DEF Take
      <4>2. got.site = l.site /\ got.ret = l.ret
        <5> HIDE DEF l
        <5> QED BY <1>1 DEF Locals
      <4>3. Goto(got, "advance").pc = "advance"
        <5> HIDE DEF l
        <5> QED BY <1>1 DEF Locals, Goto
      <4>4. Found(got).pc \notin AfterRun
        <5>1. l.site \in Sites BY <1>1 DEF Locals
        <5>2. \A p \in {"signal", "uncount"} : Goto(got, p).pc = p
          <6> HIDE DEF l
          <6> QED BY <1>1 DEF Locals, Goto
        <5>3. BackFromObtain(got).pc \in {"returned", "run", "signal"}
          <6> HIDE DEF got
          <6> QED BY DEF BackFromObtain, Returned, Fresh
        <5> HIDE DEF got
        <5> QED BY <5>1, <5>2, <5>3, <4>2 DEF Found, Sites, AfterRun
      <4> HIDE DEF got
      <4> QED BY <1>5, <4>1, <4>3, <4>4 DEF AfterRun
    <3> QED BY <3>1, <3>2
  <2>2. CASE AdvanceCache(w) BY <1>1, <1>5, <2>2, FoundAt DEF AdvanceCache, AfterRun
  <2>3. CASE PushSentinel(w) BY <1>5, <1>8, <2>3 DEF PushSentinel
  <2>4. CASE PopTask(w)
    <3> DEFINE got == [l EXCEPT !.task = Head(r_q)]
    <3>1. Becomes(w, Goto(l, "announce")) \/ Becomes(w, BackFromObtain(got))
          BY <2>4 DEF PopTask
    <3> HIDE DEF got
    <3>2. BackFromObtain(got).pc \in {"returned", "run", "signal"}
          BY DEF BackFromObtain, Returned, Fresh
    <3> QED BY <1>5, <1>6, <3>1, <3>2 DEF AfterRun
  <2>5. CASE Signal(w) BY <1>5, <1>6, <1>7, <2>5 DEF Signal, AfterRun
  <2>6. CASE Lock(w)
    <3>1. Goto(l, "again").pc = "again" BY <1>1, GotoIs DEF PCs
    <3> QED BY <1>5, <2>6, <3>1 DEF Lock, AfterRun
  <2>7. CASE SignalAgain(w)
    <3> DEFINE c == [l EXCEPT !.pc = "give", !.v = m_nBlocking]
    <3>1. Becomes(w, Returned(l)) \/ Becomes(w, c) BY <2>7 DEF SignalAgain
    <3>2. c.pc = "give"
      <4> HIDE DEF l
      <4> QED BY <1>1 DEF Locals
    <3> HIDE DEF c
    <3> QED BY <1>5, <1>7, <3>1, <3>2 DEF AfterRun
  <2>8. CASE Give(w)
    <3> DEFINE k == [l EXCEPT !.task = NoTask]
               g == [l EXCEPT !.pc = "uncount", !.task = NoTask]
    <3>1. Becomes(w, Missed(k)) \/ Becomes(w, g) BY <2>8 DEF Give
    <3>2. k \in Locals /\ g.pc = "uncount"
      <4> HIDE DEF l
      <4> QED BY <1>1 DEF Locals
    <3> HIDE DEF k, g
    <3>3. Missed(k).pc \notin AfterRun BY <3>2, MissedAt DEF AfterRun
    <3> QED BY <1>5, <3>1, <3>2, <3>3 DEF AfterRun
  <2>9. CASE Uncount(w)
    <3> DEFINE k == [Fresh EXCEPT !.site = "forward", !.lo = l.min, !.x = l.max + 1]
    <3>1. Becomes(w, Missed(k)) \/ Becomes(w, Goto(l, "give")) BY <2>9 DEF Uncount
    <3>2. k \in Locals
      <4>1. l.max + 1 \in Nat /\ l.min \in Nat
        <5>1. l.max \in Nat /\ l.min \in Nat BY <1>1 DEF Locals
        <5> QED BY <5>1, SMT
      <4> QED BY <4>1, Constants DEF Fresh, Locals, Sites
    <3> HIDE DEF k
    <3>3. Missed(k).pc \notin AfterRun BY <3>2, MissedAt DEF AfterRun
    <3> QED BY <1>5, <1>6, <3>1, <3>3 DEF AfterRun
  <2> QED BY <2>1, <2>2, <2>3, <2>4, <2>5, <2>6, <2>7, <2>8, <2>9
<1>10. l.pc \notin AfterRun \cup {"run"} BY <1>3 DEF AfterRun
<1> QED BY <1>4, <1>9, <1>10

(* Steps from the row's function to the count of completed pieces.         *)
LEMMA WorkSteps ==
  ASSUME FrameInv, HandsInv', NEW w \in Workers,
         ReadMin(w) \/ ReadMax(w) \/ Spin(w) \/ Shrink(w) \/ ClearCache(w) \/ Raise(w)
  PROVE  /\ loc[w].pc \in AfterRun /\ loc'[w].pc \in AfterRun /\ loc'[w].task = loc[w].task
         /\ \A x \in Rows : Same(x)
<1> DEFINE l == loc[w]
<1>1. /\ running /\ running' /\ l.pc \in AfterRun /\ \E b : Becomes(w, b)
      /\ UNCHANGED <<rows, progress, r_q>>
      BY DEF ReadMin, ReadMax, Spin, Shrink, ClearCache, Raise, At, Private, AfterRun
<1>2. HandsInv /\ HandsTypes /\ l \in Locals BY DEF FrameInv, HandsInv, HandsTypes
<1>3. PICK b : Becomes(w, b) BY <1>1
<1>4. loc'[w] = b /\ b.task = l.task BY <1>1, <1>2, <1>3, NextLocal, SameTask
<1>5. l.site # "forward" BY <1>1, OwnSite
<1>6. loc'[w].pc \in AfterRun \cup {"failed"}
  <2>1. ASSUME NEW c, Becomes(w, c), c.pc \in AfterRun \cup {"failed"}
        PROVE  loc'[w].pc \in AfterRun \cup {"failed"}
        BY <1>2, <2>1, NextLocal
  <2>2. Failed(l).pc = "failed" BY DEF Failed, Fresh
  <2>3. PastMin(l).pc \in AfterRun \cup {"failed"} BY <1>2, <1>5, PastMinAt DEF AfterRun
  <2>4. Publish(l).pc \in AfterRun \cup {"failed"} BY <1>2, <1>5, PublishAt DEF AfterRun
  <2>5. CASE ReadMin(w)
    <3> DEFINE c == [l EXCEPT !.pc = "max", !.min = m_min]
    <3>1. Becomes(w, c) BY <2>5 DEF ReadMin
    <3>2. c.pc = "max"
      <4> HIDE DEF l
      <4> QED BY <1>2 DEF Locals
    <3> HIDE DEF c
    <3> QED BY <2>1, <3>1, <3>2 DEF AfterRun
  <2>6. CASE ReadMax(w)
    <3> DEFINE k == [l EXCEPT !.max = m_max]
    <3>1. Becomes(w, PastSpin(k)) BY <2>6 DEF ReadMax
    <3>2. m_max \in Nat
      <4>1. m_max \in 0 .. m_nTasks /\ m_nTasks \in Nat
            BY <1>1, <1>2, Worker DEF HandsTypes
      <4> QED BY <4>1, SMT
    <3>3. k \in Locals /\ k.site = l.site BY <1>2, <3>2 DEF Locals
    <3> HIDE DEF k
    <3>4. PastSpin(k).pc \in AfterRun \cup {"failed"} BY <1>5, <3>3, PastSpinAt DEF AfterRun
    <3> QED BY <2>1, <3>1, <3>4
  <2>7. CASE Spin(w)
    <3> DEFINE k == [l EXCEPT !.seen = progress[Tid(l)]]
    <3>1. Becomes(w, PastSpin(k)) BY <2>7 DEF Spin
    <3>2. progress[Tid(l)] \in Progress BY <1>1, <1>2, Completing, Kinds
    <3>3. k \in Locals /\ k.site = l.site BY <1>2, <3>2 DEF Locals
    <3> HIDE DEF k
    <3>4. PastSpin(k).pc \in AfterRun \cup {"failed"} BY <1>5, <3>3, PastSpinAt DEF AfterRun
    <3> QED BY <2>1, <3>1, <3>4
  <2>8. CASE Shrink(w)
    <3>1. Goto(l, "clear").pc = "clear" BY <1>2, GotoIs DEF PCs
    <3>2. \E c \in {Goto(l, "clear"), PastMin(l), Failed(l)} : Becomes(w, c)
          BY <2>8 DEF Shrink
    <3> QED BY <2>1, <2>2, <2>3, <3>1, <3>2 DEF AfterRun
  <2>9. CASE ClearCache(w) BY <2>1, <2>3, <2>9 DEF ClearCache
  <2>10. CASE Raise(w)
    <3>1. \E c \in {Publish(l), Failed(l)} : Becomes(w, c) BY <2>10 DEF Raise
    <3> QED BY <2>1, <2>2, <2>4, <3>1
  <2> QED BY <2>5, <2>6, <2>7, <2>8, <2>9, <2>10
<1>7. loc'[w].pc # "failed" BY <1>1 DEF HandsInv, AsRead
<1> QED BY <1>1, <1>4, <1>6, <1>7 DEF Same

(* The calls and returns of the row's function.                            *)
LEMMA CallSteps ==
  ASSUME HandsInv, NEW w \in Workers
  PROVE  /\ Ran(w) => /\ loc[w].pc = "run" /\ loc'[w].pc \in AfterRun
                      /\ loc'[w].task = loc[w].task /\ \A x \in Rows : Same(x)
         /\ Complete(w) =>
              /\ loc[w].pc \in AfterRun /\ loc'[w].pc \notin AfterRun \cup {"run", "returned"}
              /\ \A x \in Rows \ {Tid(loc[w])} : Same(x)
              /\ progress'[Tid(loc[w])].completed = Tsk(loc[w]) + 1
              /\ progress[Tid(loc[w])].completed = Tsk(loc[w])
<1> DEFINE l == loc[w]
<1>1. HandsTypes /\ l \in Locals BY DEF HandsInv, HandsTypes
<1>2. ASSUME NEW b, Becomes(w, b) PROVE loc'[w] = b BY <1>1, <1>2 DEF HandsTypes, Becomes
<1>3. ASSUME Ran(w)
      PROVE  /\ l.pc = "run" /\ loc'[w].pc \in AfterRun /\ loc'[w].task = l.task
             /\ \A x \in Rows : Same(x)
  <2> DEFINE c == [l EXCEPT !.pc = "min", !.seen = progress[Tid(l)]]
  <2>1. Becomes(w, c) /\ UNCHANGED progress /\ l.pc = "run" BY <1>3 DEF Ran, Private, At
  <2>2. c.pc = "min" /\ c.task = l.task
    <3> HIDE DEF l
    <3> QED BY <1>1 DEF Locals
  <2> HIDE DEF c
  <2> QED BY <1>2, <2>1, <2>2 DEF Same, AfterRun
<1>4. ASSUME Complete(w)
      PROVE  /\ l.pc \in AfterRun /\ loc'[w].pc \notin AfterRun \cup {"run", "returned"}
             /\ \A x \in Rows \ {Tid(l)} : Same(x)
             /\ progress'[Tid(l)].completed = Tsk(l) + 1
             /\ progress[Tid(l)].completed = Tsk(l)
  <2> DEFINE x == Tid(l)
             b == [l EXCEPT !.pc = "span", !.x = x, !.task = NoTask]
  <2>1. running /\ l.pc = "publish" /\ l.pc \in AfterRun
        BY <1>4 DEF Complete, At, AfterRun
  <2>2. OK(l) /\ l.task # NoTask /\ x \in Rows /\ (AnyOrder(l) \/ l.seen = progress[x])
        BY <2>1, Completing
  <2>3. Becomes(w, b) /\ progress' = [progress EXCEPT ![x].completed = @ + 1]
        BY <1>4, <2>2 DEF Complete
  <2>4. b.pc = "span"
    <3> HIDE DEF l, x
    <3> QED BY <1>1 DEF Locals
  <2> HIDE DEF b
  <2>5. loc'[w].pc \notin AfterRun \cup {"run", "returned"}
        BY <1>2, <2>3, <2>4 DEF AfterRun
  <2>6. progress[x].completed = Tsk(l) BY <2>1, <2>2 DEF OK, AsRead
  <2>7. progress[x] \in Progress BY <1>1, <2>2, Kinds
  <2>8. progress[x] = [completed |-> progress[x].completed, working |-> progress[x].working]
        BY <2>7 DEF Progress
  <2>9. progress'[x] = [completed |-> progress[x].completed + 1,
                        working |-> progress[x].working]
        BY <1>1, <2>2, <2>3, <2>8 DEF HandsTypes
  <2>10. \A y \in Rows \ {x} : progress'[y] = progress[y] BY <1>1, <2>3 DEF HandsTypes
  <2> QED BY <2>1, <2>5, <2>6, <2>9, <2>10 DEF Same
<1> QED BY <1>3, <1>4

LEMMA StepIs ==
  ASSUME NEW w \in Workers, Step(w)
  PROVE  /\ \/ \/ LookAt(w) \/ LookAtCache(w) \/ LookAbove(w) \/ Start(w) \/ ReadCount(w)
               \/ ReadFrom(w) \/ ReadTo(w) \/ LookAtLast(w) \/ Quits(w) \/ Block(w) \/ Span(w)
               \/ Recount(w) \/ Unlock(w)
            \/ \/ Take(w) \/ AdvanceCache(w) \/ PushSentinel(w) \/ PopTask(w) \/ Signal(w)
               \/ Lock(w) \/ SignalAgain(w) \/ Give(w) \/ Uncount(w)
            \/ ReadMin(w) \/ ReadMax(w) \/ Spin(w) \/ Shrink(w) \/ ClearCache(w) \/ Raise(w)
            \/ Ran(w) \/ Complete(w)
         /\ UNCHANGED <<rows, running>> /\ \E l : Becomes(w, l)
<1>1. CASE ObtainPvt(w)
  <2> USE DEF Private
  <2> QED BY <1>1 DEF ObtainPvt, LookAt, LookAtCache, LookAbove, Take, AdvanceCache
<1>2. CASE Obtain(w)
  <2> USE DEF Private
  <2> QED BY <1>2 DEF Obtain, Start, ReadCount, ReadFrom, ReadTo, LookAtLast, Quits,
                     PushSentinel, Block, PopTask
<1>3. CASE CompletesTask(w)
  <2> USE DEF Private
  <2> QED BY <1>3 DEF CompletesTask, Ran, ReadMin, ReadMax, Spin, Shrink, ClearCache, Raise,
                     Complete, Span
<1>4. CASE Forwards(w)
  <2> USE DEF Private
  <2> QED BY <1>4 DEF Forwards, Signal, Lock, SignalAgain, Give, Uncount, Recount, Unlock
<1> QED BY <1>1, <1>2, <1>3, <1>4 DEF Step

-----------------------------------------------------------------------------
(* tid -1.                                                                 *)
LEMMA ReturnsWhenDone ==
  ASSUME FrameInv, FrameInv', [Next]_vars,
         NEW w \in Workers, ~Left(w), loc'[w].pc = "returned"
  PROVE  AllComplete
<1>1. HandsInv /\ HandsInv' /\ HandsTypes BY DEF FrameInv, HandsInv
<1>2. loc'[w] # loc[w] BY DEF Left
<1>3. Step(w)
  <2>1. ~UNCHANGED vars BY <1>2 DEF vars
  <2>2. ASSUME NEW d \in Descriptions, TaskAdd(d) PROVE FALSE BY <1>2, <2>2 DEF TaskAdd
  <2>3. ~Flood BY <1>2 DEF Flood
  <2>4. ~Reset BY DEF Reset, Fresh
  <2>5. ASSUME NEW u \in Workers, Step(u), u # w PROVE FALSE
    <3>1. PICK l : Becomes(u, l) BY <2>5, StepIs
    <3> QED BY <1>1, <1>2, <2>5, <3>1 DEF HandsTypes, Becomes
  <2> QED BY <2>1, <2>2, <2>3, <2>4, <2>5 DEF Next
<1>4. AllComplete'
  <2>1. (Believes(w))' BY DEF FrameInv
  <2>2. Ended' BY <2>1 DEF Believes
  <2> QED BY <2>2 DEF FrameInv, Blocking
<1>5. \A x \in Rows : Same(x)
      BY <1>1, <1>3, StepIs, IdleSteps, HandingSteps, WorkSteps, CallSteps
<1>6. Added' = Added /\ Added \subseteq Rows
      BY <1>1, <1>3, StepIs, AddedAreRows DEF Added, rows
<1> QED BY <1>4, <1>5, <1>6 DEF AllComplete, Same

(* A worker is told that there are no more tasks only when every row is    *)
(* complete: mpCTaskObtain, by the last row, the count or the sentinel.    *)
THEOREM ToldWhenDone ==
  ASSUME LateAdd = FALSE
  PROVE  Spec => NoMoreTasks
<1>1. FrameInv /\ FrameInv' /\ [Next]_vars =>
        [\A w \in Workers : ~Left(w) /\ loc'[w].pc = "returned" => AllComplete]_vars
      BY ReturnsWhenDone
<1> QED BY <1>1, FrameInvariant, PTL DEF Spec, NoMoreTasks

-----------------------------------------------------------------------------
(* The grid: every piece begins once, when the pieces it needs are done.   *)
Grids == Added \X (0 .. NData - 1)
InRun(t) == \E w \in Workers : loc[w].task = t /\ loc[w].pc \in AfterRun

LEMMA DoneIs ==
  /\ \A t : t \in DoneTasks <=> t \in Grids /\ (t[2] < progress[t[1]].completed \/ InRun(t))
  /\ \A t : t \in DoneTasks' <=>
       t \in Grids' /\ (t[2] < progress'[t[1]].completed \/ InRun(t)')
  BY DEF DoneTasks, Grids, InRun

LEMMA RunningMoves ==
  ASSUME HandsTypes, NEW w \in Workers, NEW l, Becomes(w, l), loc[w].pc # "run"
  PROVE  RunningTasks' = IF l.pc = "run" THEN RunningTasks \cup {l.task} ELSE RunningTasks
<1>1. \A u \in Workers : loc'[u] = IF u = w THEN l ELSE loc[u] BY DEF HandsTypes, Becomes
<1>2. CASE l.pc = "run"
  <2>1. ASSUME NEW t PROVE t \in RunningTasks' <=> t \in RunningTasks \cup {l.task}
        BY <1>1, <1>2 DEF RunningTasks
  <2> QED BY <1>2, <2>1
<1>3. CASE l.pc # "run"
  <2>1. ASSUME NEW t PROVE t \in RunningTasks' <=> t \in RunningTasks
        BY <1>1, <1>3 DEF RunningTasks
  <2> QED BY <1>3, <2>1
<1> QED BY <1>2, <1>3

LEMMA DoneStays ==
  ASSUME HandsTypes, NEW w \in Workers, NEW l, Becomes(w, l), UNCHANGED rows,
         \A x \in Rows : Same(x), loc[w].pc \in AfterRun <=> l.pc \in AfterRun,
         l.pc \in AfterRun => l.task = loc[w].task
  PROVE  DoneTasks' = DoneTasks
<1>1. \A u \in Workers : loc'[u] = IF u = w THEN l ELSE loc[u] BY DEF HandsTypes, Becomes
<1>2. Grids' = Grids BY DEF Grids, Added, rows
<1>3. Added \subseteq Rows BY AddedAreRows
<1>4. \A t : InRun(t)' <=> InRun(t) BY <1>1 DEF InRun
<1>5. \A t \in Grids : progress'[t[1]].completed = progress[t[1]].completed
      BY <1>3 DEF Grids, Same
<1>6. \A t : t \in DoneTasks' <=> t \in DoneTasks BY <1>2, <1>4, <1>5, DoneIs
<1> QED BY <1>6 DEF DoneTasks, Grids

(* Its function has returned; then the count says so.                      *)
LEMMA DoneRan ==
  ASSUME HandsInv, running, NEW w \in Workers, Ran(w)
  PROVE  /\ loc[w].task \in Grids
         /\ DoneTasks' = DoneTasks \cup {loc[w].task}
         /\ DoneTasks' \cup RunningTasks' = DoneTasks \cup RunningTasks
<1> DEFINE l == loc[w]
           t == l.task
<1>0. HandsTypes BY DEF HandsInv
<1>1. PICK b : Becomes(w, b) /\ UNCHANGED <<rows, progress>> BY DEF Ran, Private
<1>2. \A u \in Workers : loc'[u] = IF u = w THEN b ELSE loc[u]
      BY <1>0, <1>1 DEF HandsTypes, Becomes
<1>3. l.pc = "run" /\ b.pc \in AfterRun /\ b.task = t
      BY <1>2, CallSteps
<1>4. t \in Grids /\ t = <<Tid(l), Tsk(l)>>
  <2>1. t # NoTask BY <1>3, Worker DEF OK, InHand
  <2>2. t = <<Tid(l), Tsk(l)>> /\ Tid(l) \in Added /\ Tsk(l) \in Nat /\ Tsk(l) < NData
        BY <2>1, Own
  <2>3. Tsk(l) \in 0 .. NData - 1 BY <2>2, Sizes, SMT
  <2> QED BY <2>2, <2>3 DEF Grids
<1>5. Grids' = Grids BY <1>1 DEF Grids, Added, rows
<1>6. ASSUME NEW s PROVE InRun(s)' <=> InRun(s) \/ s = t
  <2>1. l.pc \notin AfterRun BY <1>3 DEF AfterRun
  <2> HIDE DEF l
  <2> QED BY <1>2, <1>3, <2>1 DEF InRun, l
<1>7. \A s : s \in DoneTasks' <=> s \in DoneTasks \/ s = t
      BY <1>1, <1>4, <1>5, <1>6, DoneIs
<1>8. ASSUME NEW s PROVE s \in RunningTasks \/ s = t <=> s \in RunningTasks' \/ s = t
  <2>1. b.pc # "run" BY <1>3 DEF AfterRun
  <2> HIDE DEF l
  <2> QED BY <1>2, <1>3, <2>1 DEF RunningTasks, l
<1>9. t \in RunningTasks BY <1>3 DEF RunningTasks
<1>10. DoneTasks' = DoneTasks \cup {t} BY <1>7
<1> HIDE DEF t
<1>11. DoneTasks' \cup RunningTasks' = DoneTasks \cup RunningTasks BY <1>8, <1>9, <1>10
<1> QED BY <1>4, <1>10, <1>11 DEF t

LEMMA DoneComplete ==
  ASSUME HandsInv, running, NEW w \in Workers, Complete(w)
  PROVE  DoneTasks' = DoneTasks /\ RunningTasks' = RunningTasks
<1> DEFINE l == loc[w]
           t == l.task
           x == Tid(l)
           k == Tsk(l)
<1>0. HandsTypes BY DEF HandsInv
<1>1. PICK b : Becomes(w, b) /\ UNCHANGED rows BY DEF Complete
<1>2. \A u \in Workers : loc'[u] = IF u = w THEN b ELSE loc[u]
      BY <1>0, <1>1 DEF HandsTypes, Becomes
<1>3. /\ l.pc \in AfterRun /\ b.pc \notin AfterRun \cup {"run"}
      /\ \A y \in Rows \ {x} : Same(y)
      /\ progress'[x].completed = k + 1 /\ progress[x].completed = k
      BY <1>2, CallSteps
<1>4. t = <<x, k>> /\ x \in Added /\ k \in Nat
  <2>1. t # NoTask BY <1>3, Worker DEF OK, InHand
  <2> QED BY <2>1, Own
<1>5. Grids' = Grids /\ Added \subseteq Rows
      BY <1>0, <1>1, AddedAreRows DEF Grids, Added, rows
<1>6. ASSUME NEW s PROVE InRun(s) <=> InRun(s)' \/ s = t
  <2> HIDE DEF l
  <2> QED BY <1>2, <1>3 DEF InRun, l
<1>7. ASSUME NEW s \in Grids
      PROVE  s[2] < progress'[s[1]].completed <=> s[2] < progress[s[1]].completed \/ s = t
  <2>1. s = <<s[1], s[2]>> /\ s[1] \in Rows /\ s[2] \in 0 .. NData - 1
        BY <1>5 DEF Grids
  <2>2. s[2] \in Nat BY <2>1, Sizes, SMT
  <2>3. CASE s[1] = x
    <3> DEFINE j == s[2]
    <3>1. s = t <=> j = k BY <1>4, <2>1, <2>3
    <3> HIDE DEF j, k, t
    <3>2. j < k + 1 <=> j < k \/ j = k BY <1>4, <2>2, SMT DEF j
    <3> QED BY <1>3, <2>3, <3>1, <3>2 DEF j
  <2>4. CASE s[1] # x
    <3>1. s # t BY <1>4, <2>1, <2>4
    <3>2. Same(s[1]) BY <1>3, <2>1, <2>4
    <3> QED BY <3>1, <3>2 DEF Same
  <2> QED BY <2>3, <2>4
<1>8. InRun(t) BY <1>3 DEF InRun
<1>9. \A s : s \in DoneTasks' <=> s \in DoneTasks BY <1>5, <1>6, <1>7, <1>8, DoneIs
<1>10. l.pc # "run" BY <1>3 DEF AfterRun
<1>11. RunningTasks' = RunningTasks BY <1>0, <1>1, <1>3, <1>10, RunningMoves
<1> QED BY <1>9, <1>11 DEF DoneTasks, Grids

GridRows == [i \in 1 .. m_nTasks |-> description[i - 1]]

LEMMA GridRowsAre ==
  ASSUME HandsTypes
  PROVE  /\ GridRows \in Seq(Descriptions) /\ Len(GridRows) = m_nTasks
         /\ \A x \in Added : GridRows[x + 1] = description[x]
         /\ Grid!Row = Added /\ Grid!Piece = 0 .. NData - 1 /\ Grid!AllPieces = Grids
<1>1. m_nTasks \in Nat /\ m_nTasks <= MaxTasks
  <2>1. m_nTasks \in 0 .. MaxTasks BY DEF HandsTypes
  <2> QED BY <2>1, Sizes, SMT
<1>2. \A i \in 1 .. m_nTasks : i - 1 \in Rows BY <1>1, Sizes, SMT DEF Rows
<1>3. GridRows \in [1 .. m_nTasks -> Descriptions] BY <1>2 DEF GridRows, HandsTypes
<1>4. GridRows \in Seq(Descriptions) BY <1>1, <1>3
<1>5. DOMAIN GridRows = 1 .. m_nTasks /\ DOMAIN GridRows = 1 .. Len(GridRows)
      /\ Len(GridRows) \in Nat
      BY <1>3, <1>4, LenProperties
<1>6. Len(GridRows) = m_nTasks
  <2> DEFINE n == Len(GridRows)
  <2>1. n \in Nat /\ 1 .. n = 1 .. m_nTasks BY <1>5
  <2> HIDE DEF n
  <2>2. n = m_nTasks BY <2>1, <1>1, SMT
  <2> QED BY <2>2 DEF n
<1>7. ASSUME NEW x \in Added PROVE GridRows[x + 1] = description[x]
  <2>1. x + 1 \in 1 .. m_nTasks /\ (x + 1) - 1 = x BY <1>1, SMT DEF Added
  <2> QED BY <2>1 DEF GridRows
<1>8. Grid!Row = Added BY <1>6 DEF Grid!Row, Added, GridRows
<1>9. Grid!Piece = 0 .. NData - 1 BY DEF Grid!Piece
<1> QED BY <1>4, <1>6, <1>7, <1>8, <1>9 DEF Grid!AllPieces, Grids

(* What a worker was given may begin: nobody else has it, it is not done,  *)
(* and the pieces it needs are.                                            *)
Begins ==
  \A w \in Workers : \A t \in Tasks : loc[w].pc = "run" /\ loc[w].task = t =>
    /\ t \in Grids /\ t \notin DoneTasks
    /\ \A u \in Workers : loc[u].task = t => u = w
    /\ Grid!Needs(t[1], t[2]) \subseteq DoneTasks

LEMMA MayBegin == FrameInv => Begins
<1> SUFFICES ASSUME FrameInv, NEW w \in Workers, NEW t \in Tasks,
                    loc[w].pc = "run", loc[w].task = t
             PROVE  /\ t \in Grids /\ t \notin DoneTasks
                    /\ \A u \in Workers : loc[u].task = t => u = w
                    /\ Grid!Needs(t[1], t[2]) \subseteq DoneTasks
    BY DEF Begins
<1> DEFINE x == t[1]
           k == t[2]
<1>0. HandsInv /\ HandsTypes /\ AboveIsDone BY DEF FrameInv, HandsInv
<1>1. running BY <1>0 DEF HandsInv, Fresh
<1>2. t # NoTask /\ Tid(loc[w]) = x /\ Tsk(loc[w]) = k BY Constants DEF Tid, Tsk
<1>3. /\ t = <<x, k>> /\ x \in Added /\ x \in Rows /\ x \in Nat /\ k \in Nat /\ k < NData
      /\ progress[x].completed \in Nat /\ progress[x].working \in Nat
      /\ progress[x].completed <= k /\ k < progress[x].working
      /\ description[x].depend = "any" \/ progress[x].completed = k
      BY <1>0, <1>1, <1>2, Own DEF AnyOrder
<1>4. t \in Grids
  <2>1. k \in 0 .. NData - 1 BY <1>3, Sizes, SMT
  <2> QED BY <1>3, <2>1 DEF Grids
<1>5. \A u \in Workers : loc[u].task = t => u = w BY <1>0, Held
<1>6. t \notin DoneTasks
  <2>1. ~InRun(t) BY <1>5 DEF InRun, AfterRun
  <2>2. ~(k < progress[x].completed) BY <1>3, SMT
  <2> QED BY <2>1, <2>2, DoneIs
<1>7. ASSUME NEW j \in 0 .. NData - 1, x > 0, j <= k + description[x].bottom
      PROVE  <<x - 1, j>> \in DoneTasks
  <2> DEFINE b == description[x].bottom
             n == progress[x].working
             c == progress[x - 1].completed
  <2>1. b \in Nat BY <1>0, <1>3, Kinds
  <2>2. x - 1 \in Added /\ x - 1 \in Rows
    <3>1. m_nTasks \in 0 .. MaxTasks BY <1>0 DEF HandsTypes
    <3> QED BY <1>3, <1>7, <3>1, Sizes, SMT DEF Added, Rows
  <2>3. c \in Nat BY <1>0, <2>2, Kinds
  <2>4. n > 0 BY <1>3, SMT
  <2>5. c > PrevLimit(x, n - 1) BY <1>0, <1>3, <1>7, <2>4 DEF AboveIsDone
  <2>6. c > Lesser(n - 1 + b, NData - 1) BY <2>5 DEF PrevLimit
  <2>7. n \in Nat /\ k \in Nat /\ k < n /\ j <= k + b BY <1>3, <1>7
  <2> HIDE DEF b, n, c, k
  <2>8. j < c BY <2>1, <2>3, <2>6, <2>7, Sizes, SMT DEF Lesser
  <2>9. <<x - 1, j>> \in Grids BY <2>2 DEF Grids
  <2> QED BY <2>8, <2>9, DoneIs DEF c
<1>8. ASSUME NEW j \in 0 .. NData - 1, description[x].depend = "inorder", j < k
      PROVE  <<x, j>> \in DoneTasks
  <2>1. <<x, j>> \in Grids BY <1>3 DEF Grids
  <2>2. j < progress[x].completed BY <1>3, <1>8
  <2> QED BY <2>1, <2>2, DoneIs
<1>9. Grid!Needs(x, k) \subseteq DoneTasks
  <2>1. GridRows[x + 1] = description[x] BY <1>0, <1>3, GridRowsAre
  <2>2. Grid!Piece = 0 .. NData - 1 BY DEF Grid!Piece
  <2> HIDE DEF x, k
  <2> QED BY <1>7, <1>8, <2>1, <2>2 DEF Grid!Needs, GridRows
<1> QED BY <1>4, <1>5, <1>6, <1>9

LEMMA MayBeginNext == FrameInv' => Begins'
  BY MayBegin, PTL

(* The rows of the grid, and the pieces begun and done, do not change.     *)
LEMMA GridStutters ==
  ASSUME UNCHANGED rows, DoneTasks' = DoneTasks, RunningTasks' = RunningTasks
  PROVE  UNCHANGED Grid!vars
  BY DEF Grid!vars, rows

LEMMA GridBegins ==
  ASSUME FrameInv, FrameInv', UNCHANGED rows, NEW w \in Workers, NEW b, Becomes(w, b),
         loc[w].pc # "run", b.pc = "run", DoneTasks' = DoneTasks
  PROVE  Grid!Next
<1> DEFINE t == b.task
           x == t[1]
           k == t[2]
<1>0. /\ HandsInv /\ HandsTypes /\ HandsInv' /\ HandsTypes' /\ Begins'
      BY MayBeginNext DEF FrameInv, HandsInv
<1>1. \A u \in Workers : loc'[u] = IF u = w THEN b ELSE loc[u]
      BY <1>0 DEF HandsTypes, Becomes
<1>2. t \in Tasks
  <2>1. loc'[w] = b /\ loc'[w] \in Locals BY <1>0, <1>1 DEF HandsTypes
  <2>2. b.task # NoTask BY <1>0, <1>1 DEF HandsInv, InHand, Fresh
  <2> QED BY <2>1, <2>2 DEF Locals
<1>3. /\ t \in Grids' /\ t \notin DoneTasks'
      /\ \A u \in Workers : loc'[u].task = t => u = w
      /\ (Grid!Needs(t[1], t[2]))' \subseteq DoneTasks'
      BY <1>0, <1>1, <1>2 DEF Begins
<1>4. Grids' = Grids BY DEF Grids, Added, rows
<1>5. t = <<x, k>> /\ x \in Added /\ k \in 0 .. NData - 1 BY <1>3, <1>4 DEF Grids
<1>6. t \notin RunningTasks BY <1>1, <1>3 DEF RunningTasks
<1>7. RunningTasks' = RunningTasks \cup {t} BY <1>0, RunningMoves
<1>8. (Grid!Needs(t[1], t[2]))' = Grid!Needs(x, k) BY DEF Grid!Needs, rows
<1> HIDE DEF t, x, k
<1>9. Grid!Begin(x, k)
  <2>1. <<x, k>> \in Grids /\ <<x, k>> \notin DoneTasks \cup RunningTasks
        BY <1>3, <1>4, <1>5, <1>6
  <2>2. <<x, k>> \in Grid!AllPieces \ (DoneTasks \cup RunningTasks)
        BY <1>0, <2>1, GridRowsAre
  <2>3. Grid!Needs(x, k) \subseteq DoneTasks BY <1>3, <1>8
  <2>4. (DoneTasks \cup RunningTasks)' = (DoneTasks \cup RunningTasks) \cup {<<x, k>>}
        BY <1>5, <1>7
  <2> QED BY <2>2, <2>3, <2>4 DEF Grid!Begin, rows
<1> QED BY <1>0, <1>5, <1>9, GridRowsAre DEF Grid!Next

LEMMA GridEnds ==
  ASSUME FrameInv, running, NEW w \in Workers, Ran(w)
  PROVE  Grid!Next
<1> DEFINE t == loc[w].task
           x == t[1]
           k == t[2]
<1>0. HandsInv /\ HandsTypes /\ Begins BY MayBegin DEF FrameInv, HandsInv
<1>1. /\ t \in Grids /\ DoneTasks' = DoneTasks \cup {t}
      /\ DoneTasks' \cup RunningTasks' = DoneTasks \cup RunningTasks
      BY <1>0, DoneRan
<1>2. loc[w].pc = "run" /\ UNCHANGED rows BY DEF Ran, At, Private
<1>3. t = <<x, k>> /\ x \in Added /\ k \in 0 .. NData - 1 BY <1>1 DEF Grids
<1>4. t \in Tasks BY <1>0, <1>3, AddedAreRows DEF Tasks
<1>5. t \notin DoneTasks BY <1>0, <1>2, <1>4 DEF Begins
<1>6. t \in RunningTasks BY <1>2 DEF RunningTasks
<1> HIDE DEF t, x, k
<1>7. Grid!End(x, k)
  <2>1. <<x, k>> \in (DoneTasks \cup RunningTasks) \ DoneTasks BY <1>3, <1>5, <1>6
  <2>2. DoneTasks' = DoneTasks \cup {<<x, k>>} BY <1>1, <1>3
  <2>3. (DoneTasks \cup RunningTasks)' = DoneTasks \cup RunningTasks BY <1>1
  <2> QED BY <1>2, <2>1, <2>2, <2>3 DEF Grid!End, rows
<1> QED BY <1>0, <1>3, <1>7, GridRowsAre DEF Grid!Next

LEMMA StepGrid ==
  ASSUME FrameInv, FrameInv', NEW w \in Workers, Step(w)
  PROVE  Grid!Next \/ UNCHANGED Grid!vars
<1>0. HandsInv /\ HandsInv' /\ HandsTypes BY DEF FrameInv, HandsInv
<1>1. PICK b : Becomes(w, b) /\ UNCHANGED <<rows, running>> BY StepIs
<1>2. loc'[w] = b BY <1>0, <1>1 DEF HandsTypes, Becomes
<1>3. running
      BY DEF Step, ObtainPvt, Obtain, CompletesTask, Forwards, LookAt, LookAtCache, LookAbove,
             Take, AdvanceCache, Start, ReadCount, ReadFrom, ReadTo, LookAtLast, Quits,
             PushSentinel, Block, PopTask, Ran, ReadMin, ReadMax, Spin, Shrink, ClearCache,
             Raise, Complete, Span, Signal, Lock, SignalAgain, Give, Uncount, Recount, Unlock,
             At
<1>4. ASSUME \A x \in Rows : Same(x), loc[w].pc \notin AfterRun \cup {"run"}, b.pc \notin AfterRun
      PROVE  Grid!Next \/ UNCHANGED Grid!vars
  <2>1. DoneTasks' = DoneTasks BY <1>0, <1>1, <1>4, DoneStays
  <2>2. CASE b.pc = "run" BY <1>1, <1>4, <2>1, <2>2, GridBegins
  <2>3. CASE b.pc # "run"
    <3>1. RunningTasks' = RunningTasks BY <1>0, <1>1, <1>4, <2>3, RunningMoves
    <3> QED BY <1>1, <2>1, <3>1, GridStutters
  <2> QED BY <2>2, <2>3
<1>5. CASE \/ LookAt(w) \/ LookAtCache(w) \/ LookAbove(w) \/ Start(w) \/ ReadCount(w)
           \/ ReadFrom(w) \/ ReadTo(w) \/ LookAtLast(w) \/ Quits(w) \/ Block(w) \/ Span(w)
           \/ Recount(w) \/ Unlock(w)
      BY <1>0, <1>2, <1>4, <1>5, IdleSteps
<1>6. CASE \/ Take(w) \/ AdvanceCache(w) \/ PushSentinel(w) \/ PopTask(w) \/ Signal(w)
           \/ Lock(w) \/ SignalAgain(w) \/ Give(w) \/ Uncount(w)
      BY <1>0, <1>2, <1>4, <1>6, HandingSteps
<1>7. CASE ReadMin(w) \/ ReadMax(w) \/ Spin(w) \/ Shrink(w) \/ ClearCache(w) \/ Raise(w)
  <2>1. /\ loc[w].pc \in AfterRun /\ b.pc \in AfterRun /\ b.task = loc[w].task
        /\ \A x \in Rows : Same(x)
        BY <1>0, <1>2, <1>7, WorkSteps
  <2>2. DoneTasks' = DoneTasks BY <1>0, <1>1, <2>1, DoneStays
  <2>3. loc[w].pc # "run" /\ b.pc # "run" BY <2>1 DEF AfterRun
  <2>4. RunningTasks' = RunningTasks BY <1>0, <1>1, <2>3, RunningMoves
  <2> QED BY <1>1, <2>2, <2>4, GridStutters
<1>8. CASE Ran(w) BY <1>3, <1>8, GridEnds
<1>9. CASE Complete(w)
  <2>1. DoneTasks' = DoneTasks /\ RunningTasks' = RunningTasks BY <1>0, <1>3, <1>9, DoneComplete
  <2> QED BY <1>1, <2>1, GridStutters
<1> QED BY <1>5, <1>6, <1>7, <1>8, <1>9, StepIs

(* Before the workers are launched nothing is begun.                       *)
Waits == FrameInv /\ ~running
NoneBegun == DoneTasks = {} /\ RunningTasks = {}

LEMMA NothingBegun == Waits => NoneBegun
<1> SUFFICES ASSUME FrameInv, ~running PROVE DoneTasks = {} /\ RunningTasks = {}
    BY DEF Waits, NoneBegun
<1>0. HandsInv /\ HandsTypes /\ AboveIsDone BY DEF FrameInv, HandsInv
<1>1. \A w \in Workers : loc[w].pc = "start" BY <1>0 DEF HandsInv, Fresh
<1>2. RunningTasks = {} BY <1>1 DEF RunningTasks
<1>3. ASSUME NEW t \in Grids PROVE t \notin DoneTasks
  <2>1. ~InRun(t) BY <1>1 DEF InRun, AfterRun
  <2>2. t[1] \in Added /\ t[2] \in 0 .. NData - 1 BY DEF Grids
  <2>3. progress[t[1]].completed = 0 BY <1>0, <2>2 DEF AboveIsDone, Untouched
  <2>4. ~(t[2] < 0) BY <2>2, Sizes, SMT
  <2> QED BY <2>1, <2>3, <2>4, DoneIs
<1>4. DoneTasks = {} BY <1>3, DoneIs
<1> QED BY <1>2, <1>4

LEMMA NothingBegunNext == Waits' => NoneBegun'
  BY NothingBegun, PTL

LEMMA InitGrid == Init => Grid!Init
<1> SUFFICES ASSUME Init PROVE Grid!Init OBVIOUS
<1>1. FrameInv /\ HandsTypes BY InitFrame DEF FrameInv, HandsInv
<1>2. DoneTasks = {} /\ RunningTasks = {} BY <1>1, NothingBegun DEF Init, Waits, NoneBegun
<1>3. GridRows \in Seq(Descriptions) /\ Len(GridRows) = 0
      BY <1>1, GridRowsAre DEF Init
<1>4. GridRows = <<>> BY <1>3, EmptySeq
<1> QED BY <1>2, <1>4 DEF Grid!Init, GridRows

LEMMA TaskAddGrid ==
  ASSUME FrameInv, FrameInv', LateAdd = FALSE, NEW d \in Descriptions, TaskAdd(d)
  PROVE  Grid!Next
<1>0. HandsTypes /\ HandsTypes' BY DEF FrameInv, HandsInv
<1>1. /\ ~running /\ ~running' /\ m_nTasks < MaxTasks /\ m_nTasks' = m_nTasks + 1
      /\ description' = [description EXCEPT ![m_nTasks] = d]
      BY DEF TaskAdd
<1>2. DoneTasks = {} /\ RunningTasks = {} /\ DoneTasks' = {} /\ RunningTasks' = {}
      BY <1>1, NothingBegun, NothingBegunNext DEF Waits, NoneBegun
<1> DEFINE n == m_nTasks
           added == [i \in 1 .. n + 1 |-> description'[i - 1]]
<1>3. n \in Nat /\ n \in Rows
  <2>1. m_nTasks \in 0 .. MaxTasks BY <1>0 DEF HandsTypes
  <2> QED BY <1>1, <2>1, Sizes, SMT DEF Rows
<1>4. GridRows \in Seq(Descriptions) /\ Len(GridRows) = n BY <1>0, GridRowsAre
<1>5. /\ Append(GridRows, d) \in Seq(Descriptions) /\ Len(Append(GridRows, d)) = n + 1
      /\ \A i \in 1 .. n : Append(GridRows, d)[i] = GridRows[i]
      /\ Append(GridRows, d)[n + 1] = d
      BY <1>4, AppendProperties
<1>6. DOMAIN Append(GridRows, d) = 1 .. n + 1 BY <1>5, LenProperties
<1>7. ASSUME NEW i \in 1 .. n + 1 PROVE added[i] = Append(GridRows, d)[i]
  <2>1. added[i] = description'[i - 1] OBVIOUS
  <2>2. CASE i = n + 1
    <3>1. i - 1 = n BY <1>3, <2>2, SMT
    <3>2. description'[n] = d BY <1>0, <1>1, <1>3 DEF HandsTypes
    <3> QED BY <1>5, <2>1, <2>2, <3>1, <3>2
  <2>3. CASE i # n + 1
    <3>1. i \in 1 .. n /\ i - 1 \in Rows /\ i - 1 # n BY <1>1, <1>3, <2>3, Sizes, SMT DEF Rows
    <3>2. description'[i - 1] = description[i - 1] BY <1>0, <1>1, <3>1 DEF HandsTypes
    <3>3. GridRows[i] = description[i - 1] BY <3>1 DEF GridRows
    <3> QED BY <1>5, <2>1, <3>1, <3>2, <3>3
  <2> QED BY <2>2, <2>3
<1>8. added = Append(GridRows, d)
  <2> DEFINE more == Append(GridRows, d)
  <2>1. more = [i \in DOMAIN more |-> more[i]] BY <1>5, LenProperties
  <2> QED BY <1>6, <1>7, <2>1
<1>9. Grid!Add(d)
  <2>1. Len(GridRows) < MaxTasks BY <1>1, <1>4
  <2>2. GridRows' = Append(GridRows, d) BY <1>1, <1>8 DEF GridRows
  <2>3. (DoneTasks \cup RunningTasks)' = DoneTasks \cup RunningTasks BY <1>2
  <2> QED BY <1>2, <2>1, <2>2, <2>3 DEF Grid!Add, GridRows
<1> QED BY <1>9 DEF Grid!Next

LEMMA ResetGrid ==
  ASSUME FrameInv, FrameInv', Reset
  PROVE  Grid!Next
<1>0. HandsInv /\ HandsTypes /\ HandsTypes' BY DEF FrameInv, HandsInv
<1>1. running /\ ~running' /\ m_nTasks' = 0 /\ \A w \in Workers : Left(w) BY DEF Reset
<1>2. DoneTasks' = {} /\ RunningTasks' = {} BY <1>1, NothingBegunNext DEF Waits, NoneBegun
<1>3. ASSUME NEW w \in Workers PROVE loc[w].pc = "returned"
      BY <1>0, <1>1 DEF Left, HandsInv, AsRead
<1>4. AllComplete
  <2>1. PICK w \in Workers : TRUE BY WorkersAssumption
  <2>2. Believes(w) BY DEF FrameInv
  <2>3. Ended BY <1>3, <2>2 DEF Believes
  <2> QED BY <2>3 DEF FrameInv, Blocking
<1>5. RunningTasks = {} BY <1>3 DEF RunningTasks
<1>6. DoneTasks = Grids
  <2>1. ASSUME NEW t \in Grids PROVE t \in DoneTasks
    <3>1. t[1] \in Added /\ t[2] \in 0 .. NData - 1 BY DEF Grids
    <3>2. progress[t[1]].completed = NData BY <1>4, <3>1 DEF AllComplete
    <3>3. t[2] < NData BY <3>1, Sizes, SMT
    <3> QED BY <3>2, <3>3, DoneIs
  <2> QED BY <2>1 DEF DoneTasks, Grids
<1>7. GridRows # <<>>
  <2>1. Len(GridRows) = m_nTasks /\ m_nTasks > 0 BY <1>0, <1>1, GridRowsAre DEF HandsInv
  <2>2. Len(<<>>) = 0 BY EmptySeq
  <2> QED BY <2>1, <2>2, SMT
<1>8. GridRows' = <<>>
  <2>1. GridRows' = [i \in 1 .. 0 |-> description'[i - 1]] BY <1>1 DEF GridRows
  <2>2. 1 .. 0 = {} BY SMT
  <2> QED BY <2>1, <2>2, SMT
<1>9. Grid!AllPieces = Grids BY <1>0, GridRowsAre
<1>10. Grid!NewFrame BY <1>2, <1>5, <1>6, <1>7, <1>8, <1>9 DEF Grid!NewFrame, GridRows
<1> QED BY <1>10 DEF Grid!Next

(* The scheduler keeps what mpx.h promises: every piece of every row       *)
(* begins once, after the pieces of the row above it that it needs and, in *)
(* an ordered row, after its left neighbours, and the frame is over when   *)
(* all are done.                                                           *)
THEOREM GridRefined ==
  ASSUME LateAdd = FALSE
  PROVE  Spec => ImplementsGrid
<1>1. FrameInv /\ FrameInv' /\ [Next]_vars => [Grid!Next]_(Grid!vars)
  <2> SUFFICES ASSUME FrameInv, FrameInv', [Next]_vars
               PROVE  Grid!Next \/ UNCHANGED Grid!vars
      OBVIOUS
  <2>1. ASSUME NEW d \in Descriptions, TaskAdd(d) PROVE Grid!Next BY <2>1, TaskAddGrid
  <2>2. CASE Flood
    <3>1. UNCHANGED <<rows, progress, loc>> BY <2>2 DEF Flood
    <3>2. DoneTasks' = DoneTasks /\ RunningTasks' = RunningTasks
          BY <3>1 DEF DoneTasks, RunningTasks, Added, rows
    <3> QED BY <3>1, <3>2, GridStutters
  <2>3. CASE Reset BY <2>3, ResetGrid
  <2>4. ASSUME NEW w \in Workers, Step(w) PROVE Grid!Next \/ UNCHANGED Grid!vars
        BY <2>4, StepGrid
  <2>5. CASE UNCHANGED vars
    <3>1. UNCHANGED <<rows, progress, loc>> BY <2>5 DEF vars
    <3>2. DoneTasks' = DoneTasks /\ RunningTasks' = RunningTasks
          BY <3>1 DEF DoneTasks, RunningTasks, Added, rows
    <3> QED BY <3>1, <3>2, GridStutters
  <2> QED BY <2>1, <2>2, <2>3, <2>4, <2>5 DEF Next
<1> QED BY <1>1, InitGrid, FrameInvariant, PTL DEF Spec, ImplementsGrid, Grid!Spec
=============================================================================
