------------------------- MODULE TimeManager_proofs -------------------------
(***************************************************************************)
(* Proofs about TimeManager, for every set of tasks and every table size:  *)
(* the properties MCTimeManager checks hold because IInv is inductive.     *)
(***************************************************************************)
EXTENDS TimeManager, WellFoundedInduction, TLAPS

\* What the safety properties rest on.  Owners: descriptors in use belong to
\* tasks.  InLoop: the loop variable is an index while a handler runs.
Owners == \A k \in Indices : desc[k].in_use => desc[k].task \in Tasks

InLoop == pc = "handler" => i < NUM_DESCS

\* The clock never goes back before the emulator's start.
ClockBooted == now >= BootTime

\* The part of NoTaskLost that is about Mac memory and the table alone.
ActiveScheduled ==
  \A t \in Tasks : tm[t].active =>
    \E k \in Indices : desc[k].in_use /\ desc[k].task = t /\ desc[k].wakeup # 0

IInv ==
  /\ TypeOK
  /\ Owners
  /\ InLoop
  /\ ClockBooted
  /\ ScanReachesAll
  /\ OneDescPerTask
  /\ NextWakeupExact
  /\ ActiveScheduled

-----------------------------------------------------------------------------
\* Min picks the least element of any non-empty set of naturals.
LEMMA MinIsLeast ==
  ASSUME NEW S, S \subseteq Nat, S # {}
  PROVE  Min(S) \in S /\ \A x \in S : Min(S) <= x
<1>1. PICK m \in S : \A y \in S : ~ (<<y, m>> \in OpToRel(<, Nat))
  BY WFMin, NatLessThanWellFounded
<1>2. ASSUME NEW y \in S
      PROVE  m <= y
  <2>1. <<y, m>> \in Nat \X Nat /\ <<y, m>>[1] = y /\ <<y, m>>[2] = m
    OBVIOUS
  <2>2. y < m => <<y, m>> \in OpToRel(<, Nat)
    BY <2>1, Zenon DEF OpToRel
  <2>3. ~ (y < m)
    BY <1>1, <1>2, <2>2, Zenon
  <2>4. y \in Nat /\ m \in Nat
    OBVIOUS
  <2> QED
    BY <2>3, <2>4
<1> QED
  BY <1>1, <1>2 DEF Min

\* update_next_wakeup() finds a wakeup time that no scheduled descriptor it
\* looks at precedes, and 0 exactly when it looks at none.
LEMMA EarliestWakeupBounds ==
  ASSUME NEW ds \in [Indices -> TMDesc], NEW n
  PROVE  /\ EarliestWakeup(ds, n) \in Nat
         /\ \A k \in Indices : k < n /\ ds[k].in_use /\ ds[k].wakeup # 0 =>
              /\ EarliestWakeup(ds, n) # 0
              /\ EarliestWakeup(ds, n) <= ds[k].wakeup
<1> DEFINE W == {ds[k].wakeup : k \in {j \in Indices : j < n /\ ds[j].in_use}} \ {0}
<1>1. W \subseteq Nat
  BY DEF TMDesc
<1>2. EarliestWakeup(ds, n) = IF W = {} THEN 0 ELSE Min(W)
  BY DEF EarliestWakeup
<1>3. W # {} => Min(W) \in W /\ \A x \in W : Min(W) <= x
  BY <1>1, MinIsLeast
<1>4. \A k \in Indices : k < n /\ ds[k].in_use /\ ds[k].wakeup # 0 => ds[k].wakeup \in W
  OBVIOUS
<1>5. 0 \notin W
  OBVIOUS
<1> HIDE DEF W
<1>6. EarliestWakeup(ds, n) \in Nat
  <2>1. CASE W = {}
    BY <1>2, <2>1
  <2>2. CASE W # {}
    <3>1. Min(W) \in Nat
      BY <1>1, <1>3, <2>2
    <3> QED
      BY <1>2, <2>2, <3>1
  <2> QED
    BY <2>1, <2>2
<1>7. ASSUME NEW k \in Indices, k < n, ds[k].in_use, ds[k].wakeup # 0
      PROVE  EarliestWakeup(ds, n) # 0 /\ EarliestWakeup(ds, n) <= ds[k].wakeup
  <2>1. ds[k].wakeup \in W
    BY <1>4, <1>7
  <2>2. W # {}
    BY <2>1
  <2>3. EarliestWakeup(ds, n) = Min(W) /\ Min(W) \in W /\ Min(W) <= ds[k].wakeup
    BY <1>2, <1>3, <2>1, <2>2
  <2> QED
    BY <1>5, <2>3
<1> QED
  BY <1>6, <1>7

\* Nothing is missed by looking only at the descriptors below n when all those
\* in use are there.
LEMMA EarliestWakeupPrefix ==
  ASSUME NEW ds, NEW n \in 0 .. NUM_DESCS, NUM_DESCS \in Nat,
         \A k \in Indices : ds[k].in_use => k < n
  PROVE  EarliestWakeup(ds, n) = EarliestWakeup(ds, NUM_DESCS)
<1>1. {j \in Indices : j < n /\ ds[j].in_use}
        = {j \in Indices : j < NUM_DESCS /\ ds[j].in_use}
  BY DEF Indices
<1> QED
  BY <1>1 DEF EarliestWakeup

\* free_desc() keeps num_descs above every other descriptor in use.
LEMMA ShrunkDescsCovers ==
  ASSUME NEW ds, NEW n \in 0 .. NUM_DESCS, NEW d \in Indices, NUM_DESCS \in Nat,
         \A k \in Indices : ds[k].in_use => k < n
  PROVE  /\ ShrunkDescs(ds, n, d) \in 0 .. NUM_DESCS
         /\ \A k \in Indices : ds[k].in_use /\ k # d => k < ShrunkDescs(ds, n, d)
<1>1. CASE d + 1 # n
  BY <1>1 DEF ShrunkDescs
<1>2. CASE d + 1 = n
  <2> DEFINE S == {m \in 0 .. d : \A k \in m .. d : ~ ds[k].in_use \/ k = d}
  <2>1. d \in Nat /\ d < NUM_DESCS
    BY DEF Indices
  <2>2. d \in S
    BY <2>1
  <2>3. S \subseteq Nat /\ S # {}
    BY <2>1, <2>2
  <2>4. Min(S) \in S
    BY <2>3, MinIsLeast
  <2>5. ShrunkDescs(ds, n, d) = Min(S)
    BY <1>2 DEF ShrunkDescs
  <2> HIDE DEF S
  <2>6. /\ Min(S) \in 0 .. d
        /\ \A k \in Min(S) .. d : ~ ds[k].in_use \/ k = d
    BY <2>4 DEF S
  <2>7. ASSUME NEW k \in Indices, ds[k].in_use, k # d
        PROVE  k < Min(S)
    <3>1. k \in Nat /\ k <= d
      BY <1>2, <2>1, <2>7 DEF Indices
    <3>2. k \notin Min(S) .. d
      BY <2>6, <2>7
    <3> QED
      BY <2>1, <2>6, <3>1, <3>2
  <2> QED
    BY <2>1, <2>5, <2>6, <2>7
<1> QED
  BY <1>1, <1>2

\* find_desc() returns the one descriptor of the task.
LEMMA FindDesc ==
  ASSUME NEW t, DescsOf(t) # {}, NUM_DESCS \in Nat
  PROVE  /\ find_desc(t) \in Indices
         /\ find_desc(t) < num_descs
         /\ desc[find_desc(t)].in_use
         /\ desc[find_desc(t)].task = t
<1>1. DescsOf(t) \subseteq Nat
  BY DEF DescsOf, Indices
<1>2. find_desc(t) \in DescsOf(t)
  BY <1>1, MinIsLeast DEF find_desc
<1> QED
  BY <1>2 DEF DescsOf

-----------------------------------------------------------------------------
\* The empty table satisfies the inductive invariant.
LEMMA InitIInv == Init => IInv
<1> SUFFICES ASSUME Init PROVE IInv
  OBVIOUS
<1> USE TimeManagerAssumption
<1>1. TypeOK
  BY DEF Init, TypeOK, NoDescs, TMDesc, TMTask, FreshTask
<1>2. \A k \in Indices : ~ desc[k].in_use
  BY DEF Init, NoDescs
<1>3. NextWakeupExact
  <2>1. {j \in Indices : j < NUM_DESCS /\ desc[j].in_use} = {}
    BY <1>2
  <2>2. EarliestWakeup(desc, NUM_DESCS) = 0
    BY <2>1 DEF EarliestWakeup
  <2> QED
    BY <2>2 DEF Init, NextWakeupExact
<1> QED
  BY <1>1, <1>2, <1>3
  DEF Init, IInv, Owners, InLoop, ClockBooted, ScanReachesAll, OneDescPerTask, ActiveScheduled, FreshTask

\* A step that leaves the table, its cache and Mac memory alone.
LEMMA QuietStep ==
  ASSUME IInv, TypeOK', InLoop', ClockBooted', UNCHANGED <<desc, num_descs, next_wakeup, tm>>
  PROVE  IInv'
BY DEF IInv, Owners, ScanReachesAll, OneDescPerTask, NextWakeupExact, ActiveScheduled

\* InsTime() adds at most one descriptor, which schedules nothing.
LEMMA InsTimeIInv ==
  ASSUME IInv, NEW t \in Tasks, NEW ext \in BOOLEAN, InsTime(t, ext)
  PROVE  IInv'
<1> USE TimeManagerAssumption
<1>1. tm' \in [Tasks -> TMTask] /\ \A u \in Tasks : tm'[u].active => tm[u].active
  BY DEF IInv, TypeOK, InsTime, TMTask
<1>2. CASE DescsOf(t) = {} /\ FreeDescs # {}
  <2> DEFINE k == Min(FreeDescs)
  <2>1. k \in Indices /\ ~ desc[k].in_use /\ k \in Nat
    <3>1. FreeDescs \subseteq Nat
      BY DEF FreeDescs, Indices
    <3>2. k \in FreeDescs
      BY <1>2, <3>1, MinIsLeast
    <3> QED
      BY <3>2 DEF FreeDescs, Indices
  <2>2. /\ desc' = [desc EXCEPT ![k] = [task |-> t, wakeup |-> 0, in_use |-> TRUE]]
        /\ num_descs' = IF k >= num_descs THEN k + 1 ELSE num_descs
        /\ UNCHANGED <<next_wakeup, now, pc, i, scan_now>>
    BY <1>2 DEF InsTime, alloc_desc
  <2> HIDE DEF k
  <2>3. desc' \in [Indices -> TMDesc]
    BY <2>1, <2>2 DEF IInv, TypeOK, TMDesc
  <2>4. num_descs' \in 0 .. NUM_DESCS
    BY <2>1, <2>2 DEF IInv, TypeOK, Indices
  <2>5. TypeOK'
    BY <1>1, <2>2, <2>3, <2>4 DEF IInv, TypeOK
  <2>6. \A j \in Indices : desc'[j] = IF j = k THEN [task |-> t, wakeup |-> 0, in_use |-> TRUE]
                                      ELSE desc[j]
    BY <2>1, <2>2 DEF IInv, TypeOK
  <2>7. ScanReachesAll'
    BY <2>1, <2>2, <2>6 DEF IInv, TypeOK, ScanReachesAll, Indices
  <2>8. \A j \in Indices : desc[j].in_use => desc[j].task # t
    BY <1>2 DEF DescsOf, IInv, ScanReachesAll
  <2>9. Owners' /\ OneDescPerTask'
    BY <2>6, <2>8 DEF IInv, Owners, OneDescPerTask
  <2>10. NextWakeupExact'
    <3>1. {desc'[j].wakeup : j \in {l \in Indices : l < NUM_DESCS /\ desc'[l].in_use}} \ {0}
            = {desc[j].wakeup : j \in {l \in Indices : l < NUM_DESCS /\ desc[l].in_use}} \ {0}
      BY <2>1, <2>6
    <3>2. EarliestWakeup(desc', NUM_DESCS) = EarliestWakeup(desc, NUM_DESCS)
      BY <3>1 DEF EarliestWakeup
    <3> QED
      BY <2>2, <3>2 DEF IInv, NextWakeupExact
  <2>11. ActiveScheduled'
    BY <1>1, <2>1, <2>6 DEF IInv, ActiveScheduled
  <2>12. InLoop' /\ ClockBooted'
    BY <2>2 DEF IInv, InLoop, ClockBooted
  <2> QED
    BY <2>5, <2>7, <2>9, <2>10, <2>11, <2>12 DEF IInv
<1>3. CASE ~ (DescsOf(t) = {} /\ FreeDescs # {})
  <2>1. UNCHANGED <<desc, num_descs, next_wakeup, now, pc, i, scan_now>>
    BY <1>3 DEF InsTime
  <2> QED
    BY <1>1, <2>1 DEF IInv, TypeOK, Owners, InLoop, ClockBooted, ScanReachesAll, OneDescPerTask,
                      NextWakeupExact, ActiveScheduled
<1> QED
  BY <1>2, <1>3

\* RmvTime() frees the task's descriptor and clears its active bit together.
LEMMA RmvTimeIInv ==
  ASSUME IInv, NEW t \in Tasks, RmvTime(t)
  PROVE  IInv'
<1> USE TimeManagerAssumption
<1> DEFINE d == find_desc(t)
<1>1. d \in Indices /\ d < num_descs /\ desc[d].in_use /\ desc[d].task = t
  BY FindDesc DEF RmvTime
<1>2. /\ desc' = [desc EXCEPT ![d].in_use = FALSE]
      /\ num_descs' = ShrunkDescs(desc, num_descs, d)
      /\ next_wakeup' = EarliestWakeup(desc', num_descs')
      /\ UNCHANGED <<now, pc, i, scan_now>>
  BY DEF RmvTime, free_desc
<1>3. /\ tm' \in [Tasks -> TMTask]
      /\ ~ tm'[t].active
      /\ \A u \in Tasks : tm'[u].active => tm[u].active
  <2> DEFINE remaining == desc[d].wakeup - now
             left == IF tm[t].active /\ remaining > 0 THEN remaining ELSE 0
  <2>1. remaining \in Int
    BY <1>1 DEF IInv, TypeOK, TMDesc
  <2>2. left \in Nat
    BY <2>1
  <2>3. tm' = [tm EXCEPT ![t].active = FALSE, ![t].tmCount = left]
    BY DEF RmvTime
  <2> HIDE DEF left
  <2> QED
    BY <2>2, <2>3 DEF IInv, TypeOK, TMTask
<1> HIDE DEF d
<1>4. desc' \in [Indices -> TMDesc]
  BY <1>1, <1>2 DEF IInv, TypeOK, TMDesc
<1>5. \A k \in Indices : /\ desc'[k].task = desc[k].task
                         /\ desc'[k].wakeup = desc[k].wakeup
                         /\ desc'[k].in_use <=> desc[k].in_use /\ k # d
  BY <1>1, <1>2 DEF IInv, TypeOK, TMDesc
<1>6. /\ num_descs' \in 0 .. NUM_DESCS
      /\ \A k \in Indices : desc[k].in_use /\ k # d => k < num_descs'
  BY <1>1, <1>2, ShrunkDescsCovers DEF IInv, TypeOK, ScanReachesAll
<1>7. ScanReachesAll'
  BY <1>5, <1>6 DEF ScanReachesAll
<1>8. next_wakeup' \in Nat
  BY <1>2, <1>4, EarliestWakeupBounds
<1>9. TypeOK' /\ InLoop' /\ ClockBooted'
  BY <1>2, <1>3, <1>4, <1>6, <1>8 DEF IInv, TypeOK, InLoop, ClockBooted
<1>10. NextWakeupExact'
  <2>1. EarliestWakeup(desc', num_descs') = EarliestWakeup(desc', NUM_DESCS)
    BY <1>6, <1>7, EarliestWakeupPrefix DEF ScanReachesAll
  <2> QED
    BY <1>2, <2>1 DEF NextWakeupExact
<1>11. Owners' /\ OneDescPerTask'
  BY <1>5 DEF IInv, Owners, OneDescPerTask
<1>12. ActiveScheduled'
  BY <1>1, <1>3, <1>5 DEF IInv, ActiveScheduled
<1> QED
  BY <1>7, <1>9, <1>10, <1>11, <1>12 DEF IInv

\* PrimeTime() changes one wakeup time and computes the cache anew.
LEMMA PrimeTimeIInv ==
  ASSUME IInv, NEW t \in Tasks, NEW delay \in Delays, PrimeTime(t, delay)
  PROVE  IInv'
<1> USE TimeManagerAssumption
<1> DEFINE d == find_desc(t)
           w == WakeupTime(t, delay)
<1>1. d \in Indices /\ d < num_descs /\ desc[d].in_use /\ desc[d].task = t
  BY FindDesc DEF PrimeTime
<1>2. w \in Nat
  BY <1>1 DEF WakeupTime, IInv, TypeOK, TMDesc
<1>3. w # 0
  <2>1. now > 0
    BY DEF IInv, ClockBooted, TypeOK
  <2>2. CASE tm[t].extended /\ tm[t].woken
    <3>1. delay # 0 /\ delay \in Nat
      BY <2>2 DEF PrimeTime, Unsupported
    <3>2. w = desc[d].wakeup + delay /\ desc[d].wakeup \in Nat
      BY <1>1, <2>2 DEF WakeupTime, IInv, TypeOK, TMDesc
    <3> HIDE DEF w
    <3> QED
      BY <3>1, <3>2
  <2>3. CASE ~ (tm[t].extended /\ tm[t].woken)
    <3>1. w = now + delay /\ now \in Nat
      BY <2>3 DEF WakeupTime, IInv, TypeOK
    <3> HIDE DEF w
    <3> QED
      BY <2>1, <3>1
  <2> QED
    BY <2>2, <2>3
<1>4. /\ desc' = [desc EXCEPT ![d].wakeup = w]
      /\ next_wakeup' = EarliestWakeup(desc', num_descs)
      /\ UNCHANGED <<num_descs, now, pc, i, scan_now>>
  BY DEF PrimeTime
<1>5. /\ tm' \in [Tasks -> TMTask]
      /\ \A u \in Tasks : u # t /\ tm'[u].active => tm[u].active
  BY DEF PrimeTime, IInv, TypeOK, TMTask
<1> HIDE DEF d, w
<1>6. desc' \in [Indices -> TMDesc]
  BY <1>1, <1>2, <1>4 DEF IInv, TypeOK, TMDesc
<1>7. \A k \in Indices : /\ desc'[k].task = desc[k].task
                         /\ desc'[k].in_use = desc[k].in_use
                         /\ desc'[k].wakeup = IF k = d THEN w ELSE desc[k].wakeup
  BY <1>1, <1>4 DEF IInv, TypeOK, TMDesc
<1>8. ScanReachesAll'
  BY <1>4, <1>7 DEF IInv, ScanReachesAll
<1>9. next_wakeup' \in Nat
  BY <1>4, <1>6, EarliestWakeupBounds
<1>10. TypeOK' /\ InLoop' /\ ClockBooted'
  BY <1>4, <1>5, <1>6, <1>9 DEF IInv, TypeOK, InLoop, ClockBooted
<1>11. NextWakeupExact'
  <2>1. EarliestWakeup(desc', num_descs) = EarliestWakeup(desc', NUM_DESCS)
    BY <1>4, <1>8, EarliestWakeupPrefix DEF IInv, TypeOK, ScanReachesAll
  <2> QED
    BY <1>4, <2>1 DEF NextWakeupExact
<1>12. Owners' /\ OneDescPerTask'
  BY <1>7 DEF IInv, Owners, OneDescPerTask
<1>13. ActiveScheduled'
  <2>1. ASSUME NEW u \in Tasks, tm'[u].active
        PROVE  \E k \in Indices : desc'[k].in_use /\ desc'[k].task = u /\ desc'[k].wakeup # 0
    <3>1. CASE u = t
      BY <1>1, <1>3, <1>7, <3>1
    <3>2. CASE u # t
      BY <1>1, <1>3, <1>5, <1>7, <2>1, <3>2 DEF IInv, ActiveScheduled
    <3> QED
      BY <3>1, <3>2
  <2> QED
    BY <2>1 DEF ActiveScheduled
<1> QED
  BY <1>8, <1>10, <1>11, <1>12, <1>13 DEF IInv

\* TimerReset() empties the table and the cache together.
LEMMA TimerResetIInv ==
  ASSUME IInv, TimerReset
  PROVE  IInv'
<1> USE TimeManagerAssumption
<1>1. /\ desc' = [k \in Indices |-> [desc[k] EXCEPT !.in_use = FALSE]]
      /\ num_descs' = 0 /\ next_wakeup' = 0
      /\ tm' = [t \in Tasks |-> FreshTask]
      /\ UNCHANGED <<now, pc, i, scan_now>>
  BY DEF TimerReset
<1>2. TypeOK' /\ InLoop' /\ ClockBooted'
  <2>1. desc' \in [Indices -> TMDesc]
    BY <1>1 DEF IInv, TypeOK, TMDesc
  <2>2. tm' \in [Tasks -> TMTask]
    BY <1>1 DEF TMTask, FreshTask
  <2> QED
    BY <1>1, <2>1, <2>2 DEF IInv, TypeOK, InLoop, ClockBooted
<1>3. \A k \in Indices : ~ desc'[k].in_use
  BY <1>1 DEF IInv, TypeOK, TMDesc
<1>4. NextWakeupExact'
  <2>1. {j \in Indices : j < NUM_DESCS /\ desc'[j].in_use} = {}
    BY <1>3
  <2>2. EarliestWakeup(desc', NUM_DESCS) = 0
    BY <2>1 DEF EarliestWakeup
  <2> QED
    BY <1>1, <2>2 DEF NextWakeupExact
<1>5. Owners' /\ ScanReachesAll' /\ OneDescPerTask'
  BY <1>3 DEF Owners, ScanReachesAll, OneDescPerTask
<1>6. ActiveScheduled'
  BY <1>1 DEF ActiveScheduled, FreshTask
<1> QED
  BY <1>2, <1>4, <1>5, <1>6 DEF IInv

\* Clearing bits in Mac memory cannot lose a task.
LEMMA FewerActive ==
  ASSUME IInv, TypeOK', InLoop', ClockBooted',
         UNCHANGED <<desc, num_descs, next_wakeup>>,
         \A t \in Tasks : tm'[t].active => tm[t].active
  PROVE  IInv'
BY DEF IInv, Owners, ScanReachesAll, OneDescPerTask, NextWakeupExact, ActiveScheduled

\* TimerInterrupt() clears the active bit of the task it calls.
LEMMA CallTaskIInv ==
  ASSUME IInv, CallTask
  PROVE  IInv'
<1> USE TimeManagerAssumption
<1>1. i \in Indices /\ i + 1 \in 0 .. NUM_DESCS /\ i < NUM_DESCS
  BY DEF CallTask, IInv, TypeOK, Indices
<1>2. desc[i].task \in Tasks
  BY <1>1 DEF CallTask, Expired, IInv, Owners
<1>3. tm' = [tm EXCEPT ![desc[i].task].active = FALSE]
  BY DEF CallTask
<1>4. tm' \in [Tasks -> TMTask] /\ \A t \in Tasks : tm'[t].active => tm[t].active
  BY <1>2, <1>3 DEF IInv, TypeOK, TMTask
<1>5. /\ pc' \in {"scan", "handler"} /\ i' \in 0 .. NUM_DESCS
      /\ pc' = "handler" => i' < NUM_DESCS
      /\ UNCHANGED <<desc, num_descs, next_wakeup, now, scan_now>>
  <2>1. CASE desc[i].task \in Handlerless
    BY <1>1, <2>1 DEF CallTask
  <2>2. CASE desc[i].task \notin Handlerless
    BY <1>1, <2>2 DEF CallTask, IInv, TypeOK
  <2> QED
    BY <2>1, <2>2
<1>6. TypeOK' /\ InLoop' /\ ClockBooted'
  BY <1>4, <1>5 DEF IInv, TypeOK, InLoop, ClockBooted
<1> QED
  BY <1>4, <1>5, <1>6, FewerActive

\* The steps of the loop that touch neither the table nor Mac memory.
LEMMA LoopIInv ==
  ASSUME IInv, StartInterrupt \/ SkipTask \/ HandlerReturns \/ EndInterrupt \/ Tick
  PROVE  IInv'
<1> USE TimeManagerAssumption
<1>1. UNCHANGED <<desc, num_descs, next_wakeup, tm>>
  BY DEF StartInterrupt, SkipTask, HandlerReturns, EndInterrupt, Tick
<1>2. TypeOK' /\ InLoop' /\ ClockBooted'
  <2> USE DEF IInv, TypeOK, InLoop, ClockBooted
  <2>1. CASE StartInterrupt
    BY <2>1 DEF StartInterrupt
  <2>2. CASE SkipTask
    BY <2>2 DEF SkipTask
  <2>3. CASE HandlerReturns
    BY <2>3 DEF HandlerReturns
  <2>4. CASE EndInterrupt
    BY <2>4 DEF EndInterrupt
  <2>5. CASE Tick
    BY <2>5 DEF Tick
  <2> QED
    BY <2>1, <2>2, <2>3, <2>4, <2>5
<1> QED
  BY <1>1, <1>2, QuietStep

\* A program that clears tmWakeUp leaves the table alone.
LEMMA ClearWakeUpIInv ==
  ASSUME IInv, NEW t \in Tasks, ClearWakeUp(t)
  PROVE  IInv'
<1>1. /\ tm' \in [Tasks -> TMTask]
      /\ \A u \in Tasks : tm'[u].active => tm[u].active
      /\ UNCHANGED <<desc, num_descs, next_wakeup, now, pc, i, scan_now>>
  BY DEF ClearWakeUp, IInv, TypeOK, TMTask
<1>2. TypeOK' /\ InLoop' /\ ClockBooted'
  BY <1>1 DEF IInv, TypeOK, InLoop, ClockBooted
<1> QED
  BY <1>1, <1>2, FewerActive

\* Every trap and every step of the interrupt preserves the invariant.
LEMMA NextIInv == IInv /\ [Next]_vars => IInv'
<1> SUFFICES ASSUME IInv, [Next]_vars PROVE IInv'
  OBVIOUS
<1>1. CASE Traps
  <2>1. ASSUME NEW t \in Tasks, NEW ext \in BOOLEAN, InsTime(t, ext) PROVE IInv'
    BY <2>1, InsTimeIInv
  <2>2. ASSUME NEW t \in Tasks, NEW delay \in Delays, PrimeTime(t, delay) PROVE IInv'
    BY <2>2, PrimeTimeIInv
  <2>3. ASSUME NEW t \in Tasks, RmvTime(t) PROVE IInv'
    BY <2>3, RmvTimeIInv
  <2>4. ASSUME NEW t \in Tasks, ClearWakeUp(t) PROVE IInv'
    BY <2>4, ClearWakeUpIInv
  <2> QED
    BY <1>1, <2>1, <2>2, <2>3, <2>4 DEF Traps
<1>2. CASE TimerReset
  BY <1>2, TimerResetIInv
<1>3. CASE TimerInterrupt
  BY <1>3, CallTaskIInv, LoopIInv DEF TimerInterrupt
<1>4. CASE Tick
  BY <1>4, LoopIInv
<1>5. CASE UNCHANGED vars
  <2>1. TypeOK' /\ InLoop' /\ ClockBooted'
    BY <1>5 DEF vars, IInv, TypeOK, InLoop, ClockBooted
  <2> QED
    BY <1>5, <2>1, QuietStep DEF vars
<1> QED
  BY <1>1, <1>2, <1>3, <1>4, <1>5 DEF Next

\* The invariant holds of every behaviour.
THEOREM Invariance == Spec => []IInv
<1>1. Init => IInv
  BY InitIInv
<1>2. IInv /\ [Next]_vars => IInv'
  BY NextIInv
<1> QED
  BY <1>1, <1>2, PTL DEF Spec

-----------------------------------------------------------------------------
\* The state of src/src/timer.cpp stays in its types.
THEOREM TypeCorrect == Spec => []TypeOK
<1>1. IInv => TypeOK
  BY DEF IInv
<1> QED
  BY <1>1, Invariance, PTL

\* No loop that stops at num_descs misses a descriptor in use.
THEOREM LoopsReachAll == Spec => []ScanReachesAll
<1>1. IInv => ScanReachesAll
  BY DEF IInv
<1> QED
  BY <1>1, Invariance, PTL

\* A task owns at most one descriptor.
THEOREM OneDescriptor == Spec => []OneDescPerTask
<1>1. IInv => OneDescPerTask
  BY DEF IInv
<1> QED
  BY <1>1, Invariance, PTL

\* The cached wakeup time is the earliest one of the table.
THEOREM CacheExact == Spec => []NextWakeupExact
<1>1. IInv => NextWakeupExact
  BY DEF IInv
<1> QED
  BY <1>1, Invariance, PTL

\* An active task is in the table, and the early exit does not hide it.
THEOREM ActiveNotLost == Spec => []NoTaskLost
<1>1. IInv => NoTaskLost
  <2> SUFFICES ASSUME IInv, NEW t \in Tasks, tm[t].active
               PROVE  \E k \in Indices :
                        /\ desc[k].in_use /\ desc[k].task = t
                        /\ desc[k].wakeup # 0
                        /\ next_wakeup # 0 /\ next_wakeup <= desc[k].wakeup
    BY DEF NoTaskLost
  <2>1. PICK k \in Indices : desc[k].in_use /\ desc[k].task = t /\ desc[k].wakeup # 0
    BY DEF IInv, ActiveScheduled
  <2>2. k < NUM_DESCS
    BY TimeManagerAssumption DEF Indices
  <2>3. next_wakeup # 0 /\ next_wakeup <= desc[k].wakeup
    BY <2>1, <2>2, EarliestWakeupBounds DEF IInv, TypeOK, NextWakeupExact
  <2> QED
    BY <2>1, <2>3
<1> QED
  BY <1>1, Invariance, PTL
=============================================================================
