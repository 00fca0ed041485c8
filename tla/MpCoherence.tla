---------------------------- MODULE MpCoherence -----------------------------
(***************************************************************************)
(* The task scheduler of mp_coherence.c (the variant built without         *)
(* SEQUENTIAL and COHERENCE_TQ), driven as fluid_cpu.c drives it: the main *)
(* thread adds the rows of a frame, floods the workers with fluidMP, waits *)
(* for all of them and resets.                                             *)
(*                                                                         *)
(* The scheduler takes no lock on its fast path.  A step here is one       *)
(* access to shared memory (an atomic read or a compare-and-swap) with the *)
(* private computation that follows it; a retry loop around a              *)
(* compare-and-swap that can only end by succeeding is one step.           *)
(* The queue r_q is a bounded buffer: MpQueue is shown to implement it.    *)
(***************************************************************************)
EXTENDS Integers, Sequences, FiniteSets

CONSTANTS
  Workers,       (* the copies of fluidMP that mpTaskFlood launches *)
  NData,         (* m_nData *)
  CacheSize,     (* m_cacheSize *)
  MaxTasks,      (* m_nMaxTasks *)
  Descriptions,  (* the rows callers add: [depend, bottom] *)
  QueueMax,      (* capacity of r_q: 2 in mpCCreate *)
  LateAdd        (* whether the caller also adds rows while tasks execute *)

ASSUME SizesAssumption ==
  /\ NData \in Nat \ {0} /\ CacheSize \in Nat \ {0}
  /\ MaxTasks \in Nat \ {0} /\ QueueMax \in Nat \ {0}
(* The fields of mpCoProgress and mpCoMessage are uint16_t's.              *)
ASSUME WidthAssumption == NData < 65536 /\ MaxTasks < 65536
ASSUME DescriptionsAssumption ==
  /\ Descriptions # {}
  /\ Descriptions \subseteq [depend : {"inorder", "any"}, bottom : 0 .. 255]
(* -100 marks the end of a frame: see Quits.                               *)
ASSUME WorkersAssumption ==
  IsFiniteSet(Workers) /\ Workers # {} /\ Cardinality(Workers) < 100
ASSUME LateAddAssumption == LateAdd \in BOOLEAN

VARIABLES
  m_nTasks, m_min, m_max, m_nCacheStart, m_nBlocking,
  description, progress,   (* r_tasks *)
  m_mutex,                 (* the worker that holds it, or Nobody *)
  r_q,                     (* tasks forwarded to blocked workers *)
  running,                 (* whether the frame's workers have been launched *)
  loc                      (* what each worker is doing and knows *)

bounds == <<m_min, m_max>>
rows == <<m_nTasks, description>>
vars == <<rows, bounds, m_nCacheStart, m_nBlocking, progress, m_mutex, r_q,
          running, loc>>

Rows == 0 .. MaxTasks - 1
Lesser(a, b) == IF a < b THEN a ELSE b

Nobody == "nobody"
ASSUME NobodyAssumption == Nobody \notin Workers
NoTask == <<-1, -1>>            (* tid -1: no more tasks *)
Sentinel == <<65535, 65535>>    (* 0xFFFFFFFF in r_q *)
Untouched == [completed |-> 0, working |-> 0]

(* pc names the next access of the worker.  site says on whose behalf a    *)
(* task is looked for: "obtain", "near" (mpCTaskComplete, around the row   *)
(* just completed) or "forward" (for blocked workers); ret, where          *)
(* mpCTaskObtain returns to.  task is the piece in the worker's hands;     *)
(* x, lo, hi the scan over rows; min, max mpCTaskComplete's copies of the  *)
(* bounds; last the number of rows mpCTaskObtain read; seen, cs, v the     *)
(* progress, cache start and blocking count last read.                     *)
Fresh == [pc |-> "start", site |-> "obtain", ret |-> "run", task |-> NoTask,
          x |-> 0, lo |-> 0, hi |-> 0, min |-> 0, max |-> 0, last |-> 0,
          seen |-> Untouched, cs |-> 0, v |-> 0]

Init ==
  /\ m_nTasks = 0 /\ m_min = 0 /\ m_max = 0
  /\ m_nCacheStart = 0 /\ m_nBlocking = 0
  /\ description \in [Rows -> {CHOOSE d \in Descriptions : TRUE}]
  /\ progress = [x \in Rows |-> Untouched]
  /\ m_mutex = Nobody /\ r_q = <<>>
  /\ running = FALSE
  /\ loc = [w \in Workers |-> Fresh]

-----------------------------------------------------------------------------
(* The main thread.                                                        *)

(* mpCTaskAdd: the row is published last, by the count.                    *)
TaskAdd(d) ==
  /\ running => LateAdd /\ \E w \in Workers : loc[w].pc = "run"
  /\ m_nTasks < MaxTasks
  /\ description' = [description EXCEPT ![m_nTasks] = d]
  /\ progress' = [progress EXCEPT ![m_nTasks] = Untouched]
  /\ m_nTasks' = m_nTasks + 1
  /\ UNCHANGED <<bounds, m_nCacheStart, m_nBlocking, m_mutex, r_q, running, loc>>

(* mpTaskFlood, at the end of fluidAdvanceASync.                           *)
Flood ==
  /\ ~running /\ m_nTasks > 0
  /\ running' = TRUE
  /\ UNCHANGED <<rows, bounds, m_nCacheStart, m_nBlocking, progress, m_mutex, r_q, loc>>

Left(w) == loc[w].pc \in {"returned", "failed"}

(* fluidAdvanceSync: one message of r_blocker per worker, then mpCReset.   *)
Reset ==
  /\ running /\ \A w \in Workers : Left(w)
  /\ running' = FALSE
  /\ m_nTasks' = 0 /\ m_min' = 0 /\ m_max' = 0
  /\ m_nBlocking' = 0 /\ m_nCacheStart' = 0
  /\ r_q' = <<>>
  /\ loc' = [w \in Workers |-> Fresh]
  /\ UNCHANGED <<description, progress, m_mutex>>

-----------------------------------------------------------------------------
(* Where a worker goes next; l is what it knows.                           *)

At(w, pc) == running /\ loc[w].pc = pc
Becomes(w, l) == loc' = [loc EXCEPT ![w] = l]
Goto(l, pc) == [l EXCEPT !.pc = pc]

(* Only what is still of use is kept once a task is in hand.               *)
Returned(l) ==
  IF l.task = NoTask THEN [Fresh EXCEPT !.pc = "returned"]
                     ELSE [Fresh EXCEPT !.pc = "run", !.task = l.task]

(* mpCTaskObtain called, and back from it: in fluidMP's loop, or where     *)
(* mpCTaskComplete looks whether anyone is blocked.                        *)
CallObtain(l, ret) ==
  [Fresh EXCEPT !.pc = "count", !.ret = ret, !.min = l.min, !.max = l.max]
BackFromObtain(l) ==
  IF l.ret = "run" THEN Returned(l)
  ELSE [Fresh EXCEPT !.pc = "signal", !.task = l.task, !.min = l.min, !.max = l.max]

(* The scan goes to the next row, or ends without a task.                  *)
Look(l, x) == [l EXCEPT !.pc = "look", !.x = x, !.seen = Untouched, !.cs = 0]
Missed(l) ==
  CASE l.site = "obtain"  -> IF l.x < l.hi THEN Look(l, l.x + 1) ELSE Goto(l, "last")
    [] l.site = "near"    -> IF l.x > l.lo THEN Look(l, l.x - 1) ELSE CallObtain(l, "signal")
    [] l.site = "forward" -> IF l.x > l.lo THEN [Look(l, l.x - 1) EXCEPT !.pc = "recount"]
                                           ELSE Goto(l, "unlock")
Found(l) ==
  CASE l.site = "obtain"  -> BackFromObtain(l)
    [] l.site = "near"    -> Goto(l, "signal")
    [] l.site = "forward" -> Goto(l, "uncount")

Private == <<rows, bounds, m_nCacheStart, m_nBlocking, progress, m_mutex, r_q, running>>

-----------------------------------------------------------------------------
(* mpCTaskObtainPvt: may the next piece of row x be given out?             *)

(* (Mistakes the definitions below could hold come before them, named      *)
(* after the definition and the mistake.)                                  *)
(* Mistake: a piece of an ordered row is given out while one is worked on. *)
Open_NoOrder(x, p) == p.working # NData

Open(x, p) ==
  \/ p.completed = p.working /\ p.completed # NData
  \/ description[x].depend = "any" /\ p.working # NData

(* The row's progress is read.                                             *)
LookAt(w) ==
  LET l == loc[w]  p == progress[l.x]
  IN  /\ At(w, "look")
      /\ Becomes(w, IF Open(l.x, p) THEN [l EXCEPT !.pc = "cache", !.seen = p]
                                    ELSE Missed(l))
      /\ UNCHANGED Private

(* A piece left of the cache region is put off, unless it is so far left   *)
(* that the region would wrap around to it.                                *)
OutsideCache(working, start) ==
  working + 1 < start /\ working + 1 >= start - NData + CacheSize

LookAtCache(w) ==
  LET l == loc[w]
  IN  /\ At(w, "cache")
      /\ Becomes(w, IF OutsideCache(l.seen.working, m_nCacheStart) THEN Missed(l)
                    ELSE [l EXCEPT !.pc = IF l.x = 0 THEN "take" ELSE "above",
                                   !.cs = m_nCacheStart])
      /\ UNCHANGED Private

(* The row above must be done up to bottom places to the right.            *)
(* Mistake: only the piece right above is waited for.                      *)
PrevLimit_NoBottom(x, working) == working

PrevLimit(x, working) == Lesser(working + description[x].bottom, NData - 1)

LookAbove(w) ==
  LET l == loc[w]
  IN  /\ At(w, "above")
      /\ Becomes(w, IF progress[l.x - 1].completed <= PrevLimit(l.x, l.seen.working)
                    THEN Missed(l) ELSE Goto(l, "take"))
      /\ UNCHANGED Private

(* Mistake: a plain write in place of the compare-and-swap.                *)
Take_NotCompared(w) ==
  LET l == loc[w]
      got == [l EXCEPT !.task = <<l.x, l.seen.working>>]
  IN  /\ At(w, "take")
      /\ progress' = [progress EXCEPT ![l.x] = [l.seen EXCEPT !.working = @ + 1]]
      /\ Becomes(w, IF l.seen.working + 1 > l.cs + CacheSize
                    THEN Goto(got, "advance") ELSE Found(got))
      /\ UNCHANGED <<rows, bounds, m_nCacheStart, m_nBlocking, m_mutex, r_q, running>>

(* The compare-and-swap that gives the piece out.                          *)
Take(w) ==
  LET l == loc[w]
      got == [l EXCEPT !.task = <<l.x, l.seen.working>>]
  IN  /\ At(w, "take")
      /\ IF progress[l.x] = l.seen
         THEN /\ progress' = [progress EXCEPT ![l.x].working = @ + 1]
              /\ Becomes(w, IF l.seen.working + 1 > l.cs + CacheSize
                            THEN Goto(got, "advance") ELSE Found(got))
         ELSE UNCHANGED progress /\ Becomes(w, Missed(l))
      /\ UNCHANGED <<rows, bounds, m_nCacheStart, m_nBlocking, m_mutex, r_q, running>>

AdvanceCache(w) ==
  LET l == loc[w]
  IN  /\ At(w, "advance")
      /\ m_nCacheStart' = IF m_nCacheStart = l.cs THEN l.cs + 1 ELSE m_nCacheStart
      /\ Becomes(w, Found(l))
      /\ UNCHANGED <<rows, bounds, m_nBlocking, progress, m_mutex, r_q, running>>

-----------------------------------------------------------------------------
(* mpCTaskObtain.                                                          *)

Start(w) ==
  /\ At(w, "start")
  /\ Becomes(w, CallObtain(loc[w], "run"))
  /\ UNCHANGED Private

ReadCount(w) ==
  /\ At(w, "count")
  /\ Becomes(w, [loc[w] EXCEPT !.pc = "from", !.last = m_nTasks])
  /\ UNCHANGED Private

ReadFrom(w) ==
  /\ At(w, "from")
  /\ Becomes(w, [loc[w] EXCEPT !.pc = "to", !.lo = m_min])
  /\ UNCHANGED Private

ReadTo(w) ==
  LET l == loc[w]
      hi == Lesser(m_max + 1, l.last - 1)
  IN  /\ At(w, "to")
      /\ Becomes(w, IF l.lo <= hi THEN Look([l EXCEPT !.hi = hi], l.lo)
                                  ELSE Goto(l, "last"))
      /\ UNCHANGED Private

(* Mistake: the frame is over once its last row is given out.              *)
LookAtLast_Working(w) ==
  LET l == loc[w]
  IN  /\ At(w, "last")
      /\ Becomes(w, Goto(l, IF progress[l.last - 1].working = NData
                            THEN "quit" ELSE "block"))
      /\ UNCHANGED Private

(* Nothing to obtain: the frame is over once its last row is complete.     *)
LookAtLast(w) ==
  LET l == loc[w]
  IN  /\ At(w, "last")
      /\ Becomes(w, Goto(l, IF progress[l.last - 1].completed = NData
                            THEN "quit" ELSE "block"))
      /\ UNCHANGED Private

(* The worker that finds -100 is not the first to know.                    *)
Quits(w) ==
  LET l == loc[w]
  IN  /\ At(w, "quit")
      /\ m_nBlocking' = -100
      /\ Becomes(w, IF m_nBlocking >= 0 THEN Goto(l, "announce") ELSE BackFromObtain(l))
      /\ UNCHANGED <<rows, bounds, m_nCacheStart, progress, m_mutex, r_q, running>>

(* The sentinel is pushed by the first to know, and put back by every      *)
(* worker that pops it.                                                    *)
PushSentinel(w) ==
  /\ At(w, "announce")
  /\ Len(r_q) < QueueMax
  /\ r_q' = Append(r_q, Sentinel)
  /\ Becomes(w, BackFromObtain(loc[w]))
  /\ UNCHANGED <<rows, bounds, m_nCacheStart, m_nBlocking, progress, m_mutex, running>>

Block(w) ==
  /\ At(w, "block")
  /\ m_mutex = Nobody
  /\ m_nBlocking' = m_nBlocking + 1
  /\ Becomes(w, Goto(loc[w], "pop"))
  /\ UNCHANGED <<rows, bounds, m_nCacheStart, progress, m_mutex, r_q, running>>

PopTask(w) ==
  LET l == loc[w]
  IN  /\ At(w, "pop")
      /\ r_q # <<>>
      /\ r_q' = Tail(r_q)
      /\ Becomes(w, IF Head(r_q) = Sentinel THEN Goto(l, "announce")
                    ELSE BackFromObtain([l EXCEPT !.task = Head(r_q)]))
      /\ UNCHANGED <<rows, bounds, m_nCacheStart, m_nBlocking, progress, m_mutex, running>>

ObtainPvt(w) ==
  LookAt(w) \/ LookAtCache(w) \/ LookAbove(w) \/ Take(w) \/ AdvanceCache(w)
Obtain(w) ==
  \/ Start(w) \/ ReadCount(w) \/ ReadFrom(w) \/ ReadTo(w)
  \/ LookAtLast(w) \/ Quits(w) \/ PushSentinel(w) \/ Block(w) \/ PopTask(w)

-----------------------------------------------------------------------------
(* mpCTaskComplete.                                                        *)

Tid(l) == l.task[1]
Tsk(l) == l.task[2]
AnyOrder(l) == description[Tid(l)].depend = "any"

(* errorAssert raises: fluidMP catches it and the worker leaves.           *)
Failed(l) == [Fresh EXCEPT !.pc = "failed"]

(* The function of the row has run on the piece; its progress is read.     *)
Ran(w) ==
  LET l == loc[w]
  IN  /\ At(w, "run")
      /\ Becomes(w, [l EXCEPT !.pc = "min", !.seen = progress[Tid(l)]])
      /\ UNCHANGED Private

ReadMin(w) ==
  /\ At(w, "min")
  /\ Becomes(w, [loc[w] EXCEPT !.pc = "max", !.min = m_min])
  /\ UNCHANGED Private

(* Past the spin, up to the next access.  The last test asserts that no    *)
(* piece of an ordered row is being worked on besides this one.            *)
Publish(l) ==
  IF AnyOrder(l) \/ l.seen.completed + 1 = l.seen.working
    THEN Goto(l, "publish") ELSE Failed(l)
(* Mistake: every completion raises the upper bound.                       *)
PastMin_AlwaysRaises(l) ==
  Goto(IF l.seen.working = NData THEN [l EXCEPT !.min = @ + 1] ELSE l, "raise")

PastMin(l) ==
  LET l2 == IF l.seen.working = NData THEN [l EXCEPT !.min = @ + 1] ELSE l
  IN  IF Tid(l) = l.max THEN Goto(l2, "raise") ELSE Publish(l2)
PastSpin(l) ==
  IF AnyOrder(l) /\ l.seen.completed # Tsk(l) THEN Goto(l, "spin")
  ELSE IF l.seen.working = NData /\ l.min = Tid(l) THEN Goto(l, "shrink")
  ELSE PastMin(l)

ReadMax(w) ==
  LET l == [loc[w] EXCEPT !.max = m_max]
  IN  /\ At(w, "max")
      /\ Becomes(w, PastSpin(l))
      /\ UNCHANGED Private

(* Pieces of a row without order are completed from left to right all the  *)
(* same: the worker spins until the ones before its own are.               *)
Spin(w) ==
  LET l == [loc[w] EXCEPT !.seen = progress[Tid(loc[w])]]
  IN  /\ At(w, "spin")
      /\ l.seen.completed = Tsk(l)
      /\ Becomes(w, PastSpin(l))
      /\ UNCHANGED Private

(* The lowest row is given out entirely: the scans start below it.         *)
Shrink(w) ==
  LET l == loc[w]
  IN  /\ At(w, "shrink")
      /\ IF m_min = l.min
         THEN m_min' = m_min + 1 /\ Becomes(w, Goto(l, "clear"))
         ELSE /\ UNCHANGED m_min
              /\ Becomes(w, IF AnyOrder(l) THEN PastMin(l) ELSE Failed(l))
      /\ UNCHANGED <<rows, m_max, m_nCacheStart, m_nBlocking, progress, m_mutex, r_q, running>>

(* Mistake: the cache region stays where the row above left it.            *)
ClearCache_Keeps(w) ==
  /\ At(w, "clear")
  /\ Becomes(w, PastMin(loc[w]))
  /\ UNCHANGED Private

ClearCache(w) ==
  /\ At(w, "clear")
  /\ m_nCacheStart' = 0
  /\ Becomes(w, PastMin(loc[w]))
  /\ UNCHANGED <<rows, bounds, m_nBlocking, progress, m_mutex, r_q, running>>

Raise(w) ==
  LET l == loc[w]
  IN  /\ At(w, "raise")
      /\ IF m_max = l.max
         THEN m_max' = m_max + 1 /\ Becomes(w, Publish(l))
         ELSE /\ UNCHANGED m_max
              /\ Becomes(w, IF AnyOrder(l) THEN Publish(l) ELSE Failed(l))
      /\ UNCHANGED <<rows, m_min, m_nCacheStart, m_nBlocking, progress, m_mutex, r_q, running>>

(* completed goes up by one; in a row without order, whatever the other    *)
(* workers made of working meanwhile.                                      *)
Complete(w) ==
  LET l == loc[w]
      after == [l EXCEPT !.pc = "span", !.x = Tid(l), !.task = NoTask]
  IN  /\ At(w, "publish")
      /\ IF AnyOrder(l) \/ progress[Tid(l)] = l.seen
         THEN /\ progress' = [progress EXCEPT ![Tid(l)].completed = @ + 1]
              /\ Becomes(w, after)
         ELSE UNCHANGED progress /\ Becomes(w, Failed(l))
      /\ UNCHANGED <<rows, bounds, m_nCacheStart, m_nBlocking, m_mutex, r_q, running>>

(* The next piece is looked for around the row just completed.             *)
Span(w) ==
  LET l == loc[w]
      max == Lesser(l.max + 1, m_nTasks - 1)
      s == Lesser(IF l.x < l.min THEN l.min ELSE l.x, max)
  IN  /\ At(w, "span")
      /\ Becomes(w, Look([Fresh EXCEPT !.site = "near", !.lo = s, !.min = l.min,
                                       !.max = max],
                         Lesser(s + 1, max)))
      /\ UNCHANGED Private

CompletesTask(w) ==
  \/ Ran(w) \/ ReadMin(w) \/ ReadMax(w) \/ Spin(w) \/ Shrink(w)
  \/ ClearCache(w) \/ Raise(w) \/ Complete(w) \/ Span(w)

-----------------------------------------------------------------------------
(* The end of mpCTaskComplete: work for the blocked workers.               *)

Signal(w) ==
  LET l == loc[w]
  IN  /\ At(w, "signal")
      /\ Becomes(w, IF m_nBlocking > 0 THEN Goto(l, "lock") ELSE Returned(l))
      /\ UNCHANGED Private

Lock(w) ==
  LET l == loc[w]
  IN  /\ At(w, "lock")
      /\ m_mutex = Nobody
      /\ m_mutex' = w
      /\ Becomes(w, Goto(l, "again"))
      /\ UNCHANGED <<rows, bounds, m_nCacheStart, m_nBlocking, progress, r_q, running>>

(* Mistake: the count read before the mutex was taken is relied upon.      *)
SignalAgain_NoRecheck(w) ==
  LET l == loc[w]
  IN  /\ At(w, "again")
      /\ Becomes(w, [l EXCEPT !.pc = "give", !.v = m_nBlocking])
      /\ UNCHANGED Private

SignalAgain(w) ==
  LET l == loc[w]
  IN  /\ At(w, "again")
      /\ IF m_nBlocking = 0
         THEN m_mutex' = Nobody /\ Becomes(w, Returned(l))
         ELSE UNCHANGED m_mutex /\ Becomes(w, [l EXCEPT !.pc = "give", !.v = m_nBlocking])
      /\ UNCHANGED <<rows, bounds, m_nCacheStart, m_nBlocking, progress, r_q, running>>

(* Its own piece goes first; then every row is scanned, downwards, for     *)
(* pieces to give while somebody is blocked.                               *)
Give(w) ==
  LET l == loc[w]
  IN  /\ At(w, "give")
      /\ Len(r_q) < QueueMax
      /\ r_q' = Append(r_q, l.task)
      /\ Becomes(w, IF l.site = "forward" THEN Missed([l EXCEPT !.task = NoTask])
                    ELSE [l EXCEPT !.pc = "uncount", !.task = NoTask])
      /\ UNCHANGED <<rows, bounds, m_nCacheStart, m_nBlocking, progress, m_mutex, running>>

Uncount(w) ==
  LET l == loc[w]
  IN  /\ At(w, "uncount")
      /\ m_nBlocking' = IF m_nBlocking = l.v THEN l.v - 1 ELSE m_nBlocking
      /\ Becomes(w, IF l.site = "forward" THEN Goto(l, "give")
                    ELSE Missed([Fresh EXCEPT !.site = "forward", !.lo = l.min,
                                              !.x = l.max + 1]))
      /\ UNCHANGED <<rows, bounds, m_nCacheStart, progress, m_mutex, r_q, running>>

Recount(w) ==
  LET l == loc[w]
  IN  /\ At(w, "recount")
      /\ Becomes(w, IF m_nBlocking = 0 THEN Goto(l, "unlock")
                    ELSE [l EXCEPT !.pc = "look", !.v = m_nBlocking])
      /\ UNCHANGED Private

Unlock(w) ==
  /\ At(w, "unlock")
  /\ m_mutex' = Nobody
  /\ Becomes(w, CallObtain(Fresh, "run"))
  /\ UNCHANGED <<rows, bounds, m_nCacheStart, m_nBlocking, progress, r_q, running>>

Forwards(w) ==
  \/ Signal(w) \/ Lock(w) \/ SignalAgain(w) \/ Give(w) \/ Uncount(w)
  \/ Recount(w) \/ Unlock(w)

-----------------------------------------------------------------------------
Step(w) == ObtainPvt(w) \/ Obtain(w) \/ CompletesTask(w) \/ Forwards(w)

Next ==
  \/ \E d \in Descriptions : TaskAdd(d)
  \/ Flood \/ Reset
  \/ \E w \in Workers : Step(w)

Spec == Init /\ [][Next]_vars

(* Threads are scheduled: a worker that can take a step does take one, and *)
(* the main thread that waits for the workers resets.                      *)
FairSpec == Spec /\ WF_vars(Reset) /\ \A w \in Workers : WF_vars(Step(w))

-----------------------------------------------------------------------------
Sites == {"obtain", "near", "forward"}
PCs == {"start", "count", "from", "to", "look", "cache", "above", "take", "advance",
        "last", "quit", "announce", "block", "pop", "run", "min", "max", "spin",
        "shrink", "clear", "raise", "publish", "span", "signal", "lock", "again",
        "give", "uncount", "recount", "unlock", "returned", "failed"}
Progress == [completed : 0 .. NData, working : 0 .. NData]
Tasks == Rows \X (0 .. NData - 1)

(* The bounds of the scan stay within the table of rows, the cache region  *)
(* within the data, no row counts more pieces than there are, and the      *)
(* queue never holds more than its capacity: all of them are moved by      *)
(* several workers at once.                                                *)
TypeOK ==
  /\ m_nTasks \in 0 .. MaxTasks
  /\ m_min \in 0 .. MaxTasks /\ m_max \in 0 .. MaxTasks
  /\ m_nCacheStart \in 0 .. NData
  /\ m_nBlocking \in -100 .. Cardinality(Workers)
  /\ description \in [Rows -> Descriptions]
  /\ progress \in [Rows -> Progress]
  /\ m_mutex \in Workers \cup {Nobody}
  /\ r_q \in Seq(Tasks \cup {Sentinel}) /\ Len(r_q) <= QueueMax
  /\ running \in BOOLEAN
  /\ \A w \in Workers :
       /\ loc[w].pc \in PCs /\ loc[w].site \in Sites
       /\ loc[w].ret \in {"run", "signal"}
       /\ loc[w].task \in Tasks \cup {NoTask}
       /\ loc[w].seen \in Progress

Added == 0 .. m_nTasks - 1

(* Every piece that was given out and is not complete is in exactly one    *)
(* hand: one worker's, or the queue's.  No other piece is in any.          *)
Hands(t) ==
  Cardinality({w \in Workers : loc[w].task = t})
    + Cardinality({i \in DOMAIN r_q : r_q[i] = t})
InOneHand ==
  \A x \in Added, k \in 0 .. NData - 1 :
    Hands(<<x, k>>) = IF k \in progress[x].completed .. progress[x].working - 1
                        THEN 1 ELSE 0

(* The errorAsserts of mpCTaskComplete never raise.                        *)
NoAssertFails == \A w \in Workers : loc[w].pc # "failed"

(* A forwarded piece has a blocked worker bound to pop it.                 *)
Forwarded == {i \in DOMAIN r_q : r_q[i] # Sentinel}
PoppersCoverForwarded ==
  Cardinality(Forwarded) <= Cardinality({w \in Workers : loc[w].pc = "pop"})

AllComplete == \A x \in Added : progress[x].completed = NData

(* mpx.h: out_tid is -1 if there are no more tasks.                        *)
NoMoreTasks ==
  [][\A w \in Workers : ~Left(w) /\ loc'[w].pc = "returned" => AllComplete]_vars

(* The frame ends: every worker comes to return -1.                        *)
FrameEnds == running ~> ~running

(* The grid of TaskGrid: begun pieces are those whose function has been    *)
(* called, done those whose function has returned.                         *)
AfterRun == {"min", "max", "spin", "shrink", "clear", "raise", "publish"}
DoneTasks ==
  {t \in Added \X (0 .. NData - 1) :
     \/ t[2] < progress[t[1]].completed
     \/ \E w \in Workers : loc[w].task = t /\ loc[w].pc \in AfterRun}
RunningTasks == {loc[w].task : w \in {v \in Workers : loc[v].pc = "run"}}

Grid == INSTANCE TaskGrid
          WITH rows <- [i \in 1 .. m_nTasks |-> description[i - 1]],
               begun <- DoneTasks \cup RunningTasks, done <- DoneTasks
ImplementsGrid == Grid!Spec

-----------------------------------------------------------------------------
(* The inductive invariant of the pieces: who has which, whatever the      *)
(* caller adds and when.                                                   *)

Looking == {"look", "cache", "above", "take"}
Handless ==
  Looking \cup {"start", "count", "from", "to", "last", "quit", "announce", "block", "pop",
                "span", "recount", "unlock", "returned", "failed"}
Locals ==
  [pc : PCs, site : Sites, ret : {"run", "signal"}, task : Tasks \cup {NoTask},
   x : Nat, lo : Nat, hi : Nat, min : Nat, max : Nat, last : Nat,
   seen : Progress, cs : Nat, v : Int]

(* The rows that a worker looks at have been added.                        *)
InTable(l) ==
  /\ l.max <= m_nTasks
  /\ l.pc \notin AfterRun \cup {"span"} => l.max < m_nTasks
  /\ l.pc \in {"from", "to", "last"} => l.last \in 1 .. m_nTasks
  /\ l.pc \in Looking \cup {"recount"} => l.x < m_nTasks
  /\ l.pc \in Looking /\ l.site = "obtain" => l.hi < m_nTasks /\ l.last \in 1 .. m_nTasks
  /\ l.site = "forward" => l.x <= m_nTasks

(* Where a worker is tells whether it has a piece, its own or a forwarded. *)
InHand(l) ==
  /\ l.pc \in AfterRun \cup {"advance", "run"} => l.task # NoTask
  /\ l.pc \in {"give", "uncount"} /\ l.site = "forward" => l.task # NoTask
  /\ l.pc = "uncount" /\ l.site # "forward" => l.task = NoTask
  /\ l.pc \in {"signal", "lock", "again"} => l.site # "forward"
  /\ l.pc \in {"recount", "unlock"} => l.site = "forward"
  /\ l.pc \in Handless => l.task = NoTask

(* What a worker read and acts upon is still so: its own piece is the next *)
(* of its row to be completed and, in an ordered row, the only one given   *)
(* out, so that nobody else may move a bound that stands at the row.  Then *)
(* no assertion raises.                                                    *)
AsRead(l) ==
  /\ l.pc # "failed"
  /\ l.pc \in {"cache", "above", "take"} => Open(l.x, l.seen)
  /\ l.pc = "advance" => l.cs < NData
  /\ l.pc \in AfterRun =>
       /\ l.seen.completed <= progress[Tid(l)].completed
       /\ ~AnyOrder(l) => l.seen = progress[Tid(l)]
  /\ l.pc \in {"shrink", "clear", "raise", "publish"} => progress[Tid(l)].completed = Tsk(l)
  /\ l.pc = "spin" => AnyOrder(l)
  /\ l.pc = "shrink" => l.min = Tid(l)
  /\ l.pc = "raise" => l.max = Tid(l)
  /\ l.pc \in {"max", "shrink"} /\ l.min = Tid(l) => AnyOrder(l) \/ m_min = l.min
  /\ l.pc \in {"shrink", "clear", "raise"} /\ l.max = Tid(l) => AnyOrder(l) \/ m_max = l.max

(* Pieces are given out and completed from left to right, one at a time in *)
(* an ordered row.                                                         *)
RowsInOrder ==
  /\ \A x \in Rows : progress[x].completed <= progress[x].working
  /\ \A x \in Added : description[x].depend = "inorder" =>
                        progress[x].working <= progress[x].completed + 1

GivenOut(t) ==
  t[1] < m_nTasks /\ t[2] \in progress[t[1]].completed .. progress[t[1]].working - 1

HandsTypes ==
  /\ m_nTasks \in 0 .. MaxTasks /\ m_min \in 0 .. m_nTasks /\ m_max \in 0 .. m_nTasks
  /\ m_nCacheStart \in 0 .. NData /\ m_nBlocking \in Int
  /\ description \in [Rows -> Descriptions] /\ progress \in [Rows -> Progress]
  /\ m_mutex \in Workers \cup {Nobody}
  /\ r_q \in Seq(Tasks \cup {Sentinel, NoTask}) /\ Len(r_q) <= QueueMax
  /\ running \in BOOLEAN /\ loc \in [Workers -> Locals]

HandsInv ==
  /\ HandsTypes /\ RowsInOrder
  /\ \A t \in Tasks : Hands(t) = IF GivenOut(t) THEN 1 ELSE 0
  /\ running => /\ m_nTasks > 0
                /\ \A w \in Workers : InTable(loc[w]) /\ InHand(loc[w]) /\ AsRead(loc[w])
  /\ ~running => r_q = <<>> /\ \A w \in Workers : loc[w] = Fresh

-----------------------------------------------------------------------------
(* The inductive invariant of the frame, while the caller adds no rows to  *)
(* a frame that has been launched.                                         *)

(* The row above a piece that was given out is complete as far as the      *)
(* piece needs it; above a row given out entirely, everything is complete. *)
AboveIsDone ==
  /\ \A x \in Added : x > 0 /\ progress[x].working > 0 =>
       progress[x - 1].completed > PrevLimit(x, progress[x].working - 1)
  /\ \A x, y \in Added : x < y /\ progress[y].working = NData => progress[x].completed = NData
  /\ \A w \in Workers : loc[w].pc = "take" /\ loc[w].x > 0 =>
       progress[loc[w].x - 1].completed > PrevLimit(loc[w].x, loc[w].seen.working)
  /\ ~running => \A x \in Added : progress[x] = Untouched

Ended == m_nBlocking < 0
Locked(l) == l.site = "forward" \/ l.pc \in {"again", "give", "uncount"}

(* The workers that count on the count of blocked workers: before they     *)
(* subtract one from it for a piece that they forward.                     *)
CountsOn(l) ==
  IF l.site = "forward" THEN l.pc \in Looking \cup {"advance", "uncount"}
                        ELSE l.pc \in {"give", "uncount"}

(* What a worker believes of the frame.                                    *)
Believes(w) ==
  LET l == loc[w]
  IN  /\ l.pc \in {"from", "to", "last"} \/ (l.pc \in Looking /\ l.site = "obtain")
           => l.last = m_nTasks
      /\ l.pc = "quit" => AllComplete
      /\ l.pc \in {"announce", "returned"} => Ended
      /\ l.pc = "signal" /\ l.task = NoTask => Ended
      /\ l.pc \in {"lock", "again", "give"} => l.task # NoTask
      /\ l.pc \in {"give", "uncount"} => l.v > 0
      /\ CountsOn(l) /\ ~Ended => l.v = m_nBlocking /\ l.v > 0
      /\ l.site = "forward" => l.pc \in Looking \cup {"advance", "give", "uncount", "recount",
                                                      "unlock"}
      /\ Locked(l) <=> m_mutex = w

(* Each worker in m_nBlocking waits for a piece that nobody has forwarded. *)
Awaiting == {w \in Workers : \/ loc[w].pc = "pop"
                             \/ loc[w].pc = "uncount" /\ loc[w].site # "forward"}
Giving == {w \in Workers : loc[w].pc = "give" /\ loc[w].site = "forward"}
Leaving == {w \in Workers : loc[w].pc \in {"pop", "announce", "signal", "returned"}}
Blocking ==
  /\ ~Ended => m_nBlocking = Cardinality(Awaiting) - Cardinality(Forwarded) - Cardinality(Giving)
  /\ Ended => AllComplete /\ m_nBlocking \in -100 .. Cardinality(Leaving) - 100

FrameInv ==
  /\ HandsInv /\ AboveIsDone /\ Blocking
  /\ \A w \in Workers : Believes(w)
  /\ \A i \in DOMAIN r_q : r_q[i] # NoTask /\ (r_q[i] = Sentinel => Ended)
  /\ ~running => ~Ended
=============================================================================
