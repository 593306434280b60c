---------------------------- MODULE TimeManager ----------------------------
(***************************************************************************)
(* The Time Manager of src/src/timer.cpp: a table of descriptors, one per  *)
(* installed TMTask, the earliest scheduled wakeup time cached beside it,  *)
(* and the part of the 60Hz interrupt that calls the tasks that expired.   *)
(* The MacOS thread runs everything here.  A task's handler is 68k code    *)
(* that runs inside TimerInterrupt, and may itself insert, prime and       *)
(* remove tasks while the interrupt is half way through the table.         *)
(*                                                                         *)
(* Times are ticks of the host's performance counter since 1904.  Because  *)
(* 0 stands for "not scheduled", the model starts its clock at BootTime,   *)
(* far from 0.  Horizon bounds the clock and every wakeup time.            *)
(***************************************************************************)
EXTENDS Integers, FiniteSets, FiniteSetsExt

CONSTANTS
  Tasks,        \* addresses of the TMTask structures Mac programs use
  NoTask,       \* the task of a descriptor that was never used
  Handlerless,  \* the tasks whose tmAddr is 0
  XTasks,       \* the tasks that programs may insert with InsXTime()
  NUM_DESCS,    \* size of the descriptor table
  BootTime,     \* the clock when the emulator starts
  Horizon,      \* bound on the clock and on wakeup times
  Delays        \* the delays given to PrimeTime, in ticks

ASSUME TimeManagerAssumption ==
  /\ NoTask \notin Tasks
  /\ Handlerless \subseteq Tasks /\ XTasks \subseteq Tasks
  /\ NUM_DESCS \in Nat \ {0}
  /\ BootTime \in Nat /\ Horizon \in Nat
  /\ Delays \subseteq Nat
  /\ \A d \in Delays : d < BootTime

VARIABLES
  desc,         \* the table: task, wakeup, in_use
  num_descs,    \* one past the last descriptor in use
  next_wakeup,  \* earliest scheduled wakeup time, 0 if there is none
  now,          \* the performance counter
  tm,           \* the TMTask structures in Mac memory
  pc,           \* where TimerInterrupt is
  i,            \* its loop variable
  scan_now      \* the time it read when it started

vars == <<desc, num_descs, next_wakeup, now, tm, pc, i, scan_now>>

Indices == 0 .. NUM_DESCS - 1

\* qType bit 15 (active), qType bit 14 (extended), tmWakeUp # 0, tmCount.
TMTask == [active : BOOLEAN, extended : BOOLEAN, woken : BOOLEAN, tmCount : Nat]

TMDesc == [task : Tasks \union {NoTask}, wakeup : Nat, in_use : BOOLEAN]

FreshTask == [active |-> FALSE, extended |-> FALSE, woken |-> FALSE, tmCount |-> 0]

NoDescs == [k \in Indices |-> [task |-> NoTask, wakeup |-> 0, in_use |-> FALSE]]

Init ==
  /\ desc = NoDescs
  /\ num_descs = 0
  /\ next_wakeup = 0
  /\ now = BootTime
  /\ tm = [t \in Tasks |-> FreshTask]
  /\ pc = "idle"
  /\ i = 0
  /\ scan_now = BootTime

-----------------------------------------------------------------------------
(* Helpers of the table.                                                   *)

\* update_next_wakeup(): the earliest wakeup among ds[0 .. n-1].
EarliestWakeup(ds, n) ==
  LET W == {ds[k].wakeup : k \in {j \in Indices : j < n /\ ds[j].in_use}} \ {0}
  IN  IF W = {} THEN 0 ELSE Min(W)

\* A mutant: the loop stops after one step.
MutShrunkDescs(ds, n, d) == IF n > 0 THEN n - 1 ELSE 0

\* free_desc(d): the loop that shrinks num_descs over the free tail.
ShrunkDescs(ds, n, d) ==
  IF d + 1 = n
  THEN Min({m \in 0 .. d : \A k \in m .. d : ~ ds[k].in_use \/ k = d})
  ELSE n

\* find_desc(t), as the set of the indices it may return.
DescsOf(t) == {k \in Indices : k < num_descs /\ desc[k].in_use /\ desc[k].task = t}

find_desc(t) == Min(DescsOf(t))

FreeDescs == {k \in Indices : ~ desc[k].in_use}

alloc_desc(t) ==
  LET k == Min(FreeDescs)
  IN  /\ desc' = [desc EXCEPT ![k] = [task |-> t, wakeup |-> 0, in_use |-> TRUE]]
      /\ num_descs' = IF k >= num_descs THEN k + 1 ELSE num_descs

free_desc(d) ==
  /\ desc' = [desc EXCEPT ![d].in_use = FALSE]
  /\ num_descs' = ShrunkDescs(desc, num_descs, d)
  /\ next_wakeup' = EarliestWakeup(desc', num_descs')

-----------------------------------------------------------------------------
(* The traps, called by Mac programs and by task handlers.                 *)

\* 68k code runs, either a program or the handler of a task.
MacRuns == pc \in {"idle", "handler"}

\* InsTime keeps the descriptor of a task that has one, gives it the first
\* free one otherwise, and only prints a message when there is none.
InsTime(t, ext) ==
  /\ MacRuns
  /\ ext => t \in XTasks
  /\ tm' = [tm EXCEPT ![t].active = FALSE, ![t].extended = ext]
  /\ IF DescsOf(t) = {} /\ FreeDescs # {}
     THEN alloc_desc(t)
     ELSE UNCHANGED <<desc, num_descs>>
  /\ UNCHANGED <<next_wakeup, now, pc, i, scan_now>>

\* RmvTime leaves the time that remained in tmCount.
MutRmvTime(t) ==
  /\ MacRuns
  /\ DescsOf(t) # {}
  /\ free_desc(find_desc(t))
  /\ UNCHANGED <<tm, now, pc, i, scan_now>>

RmvTime(t) ==
  /\ MacRuns
  /\ DescsOf(t) # {}
  /\ LET d == find_desc(t)
         remaining == desc[d].wakeup - now
     IN  /\ tm' = [tm EXCEPT ![t].active = FALSE,
                             ![t].tmCount = IF tm[t].active /\ remaining > 0
                                            THEN remaining ELSE 0]
         /\ free_desc(d)
  /\ UNCHANGED <<now, pc, i, scan_now>>

\* An extended task that was scheduled before is scheduled relative to the
\* wakeup time its descriptor holds, any other task relative to now.
WakeupTime(t, delay) ==
  IF tm[t].extended /\ tm[t].woken
  THEN desc[find_desc(t)].wakeup + delay
  ELSE now + delay

\* PrimeTime(0) of a task that was scheduled before is "unsupported".
Unsupported(t, delay) == tm[t].extended /\ tm[t].woken /\ delay = 0

MutPrimeTime(t, delay) ==
  /\ MacRuns
  /\ DescsOf(t) # {} /\ ~ Unsupported(t, delay)
  /\ WakeupTime(t, delay) <= Horizon
  /\ desc' = [desc EXCEPT ![find_desc(t)].wakeup = WakeupTime(t, delay)]
  /\ tm' = [tm EXCEPT ![t].active = TRUE,
                      ![t].woken = tm[t].woken \/ tm[t].extended]
  /\ UNCHANGED <<next_wakeup, num_descs, now, pc, i, scan_now>>

PrimeTime(t, delay) ==
  /\ MacRuns
  /\ DescsOf(t) # {}
  /\ ~ Unsupported(t, delay)
  /\ WakeupTime(t, delay) <= Horizon
  /\ desc' = [desc EXCEPT ![find_desc(t)].wakeup = WakeupTime(t, delay)]
  /\ tm' = [tm EXCEPT ![t].active = TRUE,
                      ![t].woken = tm[t].woken \/ tm[t].extended]
  /\ next_wakeup' = EarliestWakeup(desc', num_descs)
  /\ UNCHANGED <<num_descs, now, pc, i, scan_now>>

\* A program starts a new series of wakeups by clearing tmWakeUp itself.
ClearWakeUp(t) ==
  /\ MacRuns
  /\ tm[t].woken
  /\ tm' = [tm EXCEPT ![t].woken = FALSE]
  /\ UNCHANGED <<desc, num_descs, next_wakeup, now, pc, i, scan_now>>

\* TimerReset() frees every descriptor; the Mac reboots, and the programs
\* that run then set up their TMTask structures anew.
TimerReset ==
  /\ pc = "idle"
  /\ desc' = [k \in Indices |-> [desc[k] EXCEPT !.in_use = FALSE]]
  /\ num_descs' = 0
  /\ next_wakeup' = 0
  /\ tm' = [t \in Tasks |-> FreshTask]
  /\ UNCHANGED <<now, pc, i, scan_now>>

-----------------------------------------------------------------------------
(* TimerInterrupt().                                                       *)

\* The early exit on next_wakeup is a step that changes nothing.
StartInterrupt ==
  /\ pc = "idle"
  /\ next_wakeup # 0 /\ next_wakeup < now
  /\ pc' = "scan"
  /\ i' = 0
  /\ scan_now' = now
  /\ UNCHANGED <<desc, num_descs, next_wakeup, now, tm>>

\* The descriptor the loop looks at belongs to a task that has expired.
Expired ==
  /\ desc[i].in_use
  /\ desc[i].wakeup # 0
  /\ tm[desc[i].task].active
  /\ desc[i].wakeup < scan_now

CallTask ==
  /\ pc = "scan" /\ i < num_descs
  /\ Expired
  /\ tm' = [tm EXCEPT ![desc[i].task].active = FALSE]
  /\ IF desc[i].task \in Handlerless
     THEN pc' = "scan" /\ i' = i + 1
     ELSE pc' = "handler" /\ i' = i
  /\ UNCHANGED <<desc, num_descs, next_wakeup, now, scan_now>>

SkipTask ==
  /\ pc = "scan" /\ i < num_descs
  /\ ~ Expired
  /\ i' = i + 1
  /\ UNCHANGED <<desc, num_descs, next_wakeup, now, tm, pc, scan_now>>

HandlerReturns ==
  /\ pc = "handler"
  /\ pc' = "scan"
  /\ i' = i + 1
  /\ UNCHANGED <<desc, num_descs, next_wakeup, now, tm, scan_now>>

EndInterrupt ==
  /\ pc = "scan" /\ i >= num_descs
  /\ pc' = "idle"
  /\ i' = 0
  /\ UNCHANGED <<desc, num_descs, next_wakeup, now, tm, scan_now>>

Tick ==
  /\ now < Horizon
  /\ now' = now + 1
  /\ UNCHANGED <<desc, num_descs, next_wakeup, tm, pc, i, scan_now>>

-----------------------------------------------------------------------------
Traps ==
  \E t \in Tasks :
    \/ \E ext \in BOOLEAN : InsTime(t, ext)
    \/ \E delay \in Delays : PrimeTime(t, delay)
    \/ RmvTime(t)
    \/ ClearWakeUp(t)

TimerInterrupt ==
  StartInterrupt \/ CallTask \/ SkipTask \/ HandlerReturns \/ EndInterrupt

Next == Traps \/ TimerReset \/ TimerInterrupt \/ Tick

Spec == Init /\ [][Next]_vars

\* The 60Hz thread keeps raising the interrupt (tick_func_accurate), the
\* MacOS thread executes it, and the 68k handlers return.
FairSpec == Spec /\ WF_vars(TimerInterrupt)

-----------------------------------------------------------------------------
TypeOK ==
  /\ desc \in [Indices -> TMDesc]
  /\ num_descs \in 0 .. NUM_DESCS
  /\ next_wakeup \in Nat
  /\ now \in Nat
  /\ tm \in [Tasks -> TMTask]
  /\ pc \in {"idle", "scan", "handler"}
  /\ i \in 0 .. NUM_DESCS
  /\ scan_now \in Nat

\* Every descriptor in use is below num_descs, so the loops that stop there
\* (find_desc, update_next_wakeup, TimerInterrupt) miss none.
ScanReachesAll == \A k \in Indices : desc[k].in_use => k < num_descs

\* A task never owns two descriptors, however often it is inserted.
OneDescPerTask ==
  \A j, k \in Indices :
    desc[j].in_use /\ desc[k].in_use /\ desc[j].task = desc[k].task => j = k

\* next_wakeup is the earliest wakeup time in the table at every moment, also
\* between the calls a handler makes in the middle of the interrupt.
NextWakeupExact == next_wakeup = EarliestWakeup(desc, NUM_DESCS)

\* A task that is marked active in Mac memory is in the table, with a wakeup
\* time that the early exit of TimerInterrupt does not hide.
NoTaskLost ==
  \A t \in Tasks : tm[t].active =>
    \E k \in Indices :
      /\ desc[k].in_use /\ desc[k].task = t
      /\ desc[k].wakeup # 0
      /\ next_wakeup # 0 /\ next_wakeup <= desc[k].wakeup

\* A task that has expired does not stay so: it is called, unless its program
\* removes it, inserts it again or moves its wakeup time first.
Due(t) ==
  /\ tm[t].active
  /\ \E k \in Indices : desc[k].in_use /\ desc[k].task = t /\ desc[k].wakeup < now

DueTasksAreCalled == \A t \in Tasks : Due(t) ~> ~ Due(t)
=============================================================================
