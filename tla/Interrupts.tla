----------------------------- MODULE Interrupts -----------------------------
(***************************************************************************)
(* How host threads interrupt the emulated 68k: a thread sets its bit in   *)
(* InterruptFlags and calls TriggerInterrupt(), which sets SPCFLAG_INT and *)
(* swaps the table of opcode functions for one that calls do_specialties() *)
(* before the next instruction.  do_specialties() decides when the level 1 *)
(* handler runs; its EMUL_OP_IRQ serves the flags one by one.              *)
(*                                                                         *)
(* Sysdeps.h leaves DO_INTERLOCKED undefined: InterruptFlags is changed    *)
(* with locked instructions, regs.spcflags is not.  On one processor its   *)
(* `or' and `and' are still indivisible; on several (SMP) the load and the *)
(* store of one thread can enclose those of another.                       *)
(*                                                                         *)
(* Of the 68k code only what meets the interrupt logic is kept: writing    *)
(* the status register, STOP, EMUL_OPs that call Execute68k(), and the     *)
(* level 1 handler.                                                        *)
(***************************************************************************)
EXTENDS Integers, Sequences, FiniteSets

CONSTANTS
  Sources,     \* the interrupt sources in the order EMUL_OP_IRQ tests them
  SMPSources   \* bound: the sources that are raised on several processors

Source == {Sources[k] : k \in 1 .. Len(Sources)}

ASSUME InterruptsAssumption ==
  Sources \in Seq(Source) /\ Sources # <<>> /\ SMPSources \subseteq Source

VARIABLES
  SMP,             \* the host has several processors; never changes
  InterruptFlags,  \* pending interrupts
  owed,            \* history: sources raised and not served since
  spcflags,        \* regs.spcflags
  cpufunctbl,      \* the opcode table in use
  thread,          \* where the thread of each source is
  loaded,          \* the value of regs.spcflags it loaded
  cpu,             \* the CPU thread, see CPU below
  todo,            \* its changes of regs.spcflags that are still to do
  step,            \* the progress of the first of them
  val              \* the value of regs.spcflags it loaded

vars == <<SMP, InterruptFlags, owed, spcflags, cpufunctbl, thread, loaded,
          cpu, todo, step, val>>

SpcFlags == {"INT", "DOINT", "STOP", "BRK"}

\* Innermost last: exception frames of level 1 interrupts (returns: the
\* handler has run EMUL_OP_IRQ) and EMUL_OPs that call Execute68k() (returns:
\* the PC is on the EXEC_RETURN opcode).  mask is the one to go back to.
Frame == [kind : {"irq", "emul_op"}, mask : {0, 1}, returns : BOOLEAN]

\* pc: where the thread is.  intmask: regs.intmask.  intr: the result of
\* intlev(), or the flag the dispatcher is at.  quit: quit_program.
\* progmask: history, the mask the program itself set last.
CPU == [pc : {"run", "exec", "stop", "stop_take", "doint", "doint_take", "int",
              "brk", "leave", "emul_op", "irq", "irq_serve"},
        intmask : {0, 1}, intr : 0 .. Len(Sources) + 1,
        frames : Seq(Frame), quit : BOOLEAN, progmask : {0, 1}]

Or(fs) == [op |-> "or", fs |-> fs]
And(fs) == [op |-> "and", fs |-> fs]   \* clears the flags fs
ClearTrace == And({})                  \* the trace flags are never set

Applied(c, v) == IF c.op = "or" THEN v \union c.fs ELSE v \ c.fs

Init ==
  /\ SMP \in BOOLEAN
  /\ InterruptFlags = {} /\ owed = {}
  /\ spcflags = {} /\ cpufunctbl = "real"
  /\ thread = [s \in Source |-> "idle"]
  /\ loaded = [s \in Source |-> {}]
  /\ cpu = [pc |-> "run", intmask |-> 0, intr |-> 0, frames |-> <<>>,
            quit |-> FALSE, progmask |-> 0]
  /\ todo = <<>> /\ step = "rmw" /\ val = {}

-----------------------------------------------------------------------------
(* The threads.                                                            *)

Thread(s, at, to) == thread[s] = at /\ thread' = [thread EXCEPT ![s] = to]

CpuWaits == UNCHANGED <<SMP, cpu, todo, step, val>>

SetInterruptFlag(s) ==
  /\ Thread(s, "idle", "trigger")
  /\ SMP => s \in SMPSources
  /\ InterruptFlags' = InterruptFlags \union {s}
  /\ owed' = owed \union {s}
  /\ CpuWaits /\ UNCHANGED <<spcflags, cpufunctbl, loaded>>

\* REGS_SPCFLAGS_OR(SPCFLAG_INT) in one instruction, or in its two halves;
\* then spcflags_changed() tests the flags and writes the table.
TriggerInterrupt(s) ==
  /\ \/ /\ Thread(s, "trigger", "test")
        /\ spcflags' = spcflags \union {"INT"}
        /\ UNCHANGED <<cpufunctbl, loaded>>
     \/ /\ SMP
        /\ Thread(s, "trigger", "store")
        /\ loaded' = [loaded EXCEPT ![s] = spcflags]
        /\ UNCHANGED <<spcflags, cpufunctbl>>
     \/ /\ Thread(s, "store", "test")
        /\ spcflags' = loaded[s] \union {"INT"}
        /\ loaded' = [loaded EXCEPT ![s] = {}]
        /\ UNCHANGED cpufunctbl
     \/ /\ Thread(s, "test", IF spcflags # {} THEN "table" ELSE "idle")
        /\ UNCHANGED <<spcflags, cpufunctbl, loaded>>
     \/ /\ Thread(s, "table", "idle")
        /\ cpufunctbl' = "fake"
        /\ UNCHANGED <<spcflags, loaded>>
  /\ CpuWaits /\ UNCHANGED <<InterruptFlags, owed>>

-----------------------------------------------------------------------------
(* The CPU thread's changes of regs.spcflags, made before it goes on:      *)
(* spcflags_changed() follows an `or', spcflags_changed2() an `and'.       *)

ChangeFlags ==
  /\ todo # <<>>
  /\ \/ /\ step = "rmw" /\ step' = "test"
        /\ spcflags' = Applied(Head(todo), spcflags)
        /\ UNCHANGED <<todo, val, cpufunctbl>>
     \/ /\ SMP
        /\ step = "rmw" /\ step' = "store"
        /\ val' = spcflags
        /\ UNCHANGED <<todo, spcflags, cpufunctbl>>
     \/ /\ step = "store" /\ step' = "test"
        /\ spcflags' = Applied(Head(todo), val)
        /\ val' = {}
        /\ UNCHANGED <<todo, cpufunctbl>>
     \/ /\ step = "test"
        /\ IF (Head(todo).op = "or") = (spcflags # {})
           THEN step' = "table" /\ UNCHANGED todo
           ELSE step' = "rmw" /\ todo' = Tail(todo)
        /\ UNCHANGED <<val, spcflags, cpufunctbl>>
     \/ /\ step = "table" /\ step' = "rmw"
        /\ cpufunctbl' = IF Head(todo).op = "or" THEN "fake" ELSE "real"
        /\ todo' = Tail(todo)
        /\ UNCHANGED <<val, spcflags>>
  /\ UNCHANGED <<SMP, cpu, InterruptFlags, owed, thread, loaded>>

At(l) == cpu.pc = l /\ todo = <<>>

\* The CPU thread becomes c, with the changes t of the flags to make first.
CpuStep(c, t) ==
  /\ cpu' = c /\ todo' = t
  /\ UNCHANGED <<SMP, step, val, spcflags, cpufunctbl, thread, loaded>>

Quietly(c, t) == CpuStep(c, t) /\ UNCHANGED <<InterruptFlags, owed>>

-----------------------------------------------------------------------------
(* do_specialties().                                                       *)

intlev == IF InterruptFlags # {} THEN 1 ELSE 0

MutInterrupted(c) ==
  [c EXCEPT !.frames = Append(@, [kind |-> "irq", mask |-> c.intmask, returns |-> FALSE])]

\* Interrupt(1): Exception() pushes a frame, then the mask is raised.
Interrupted(c) ==
  [c EXCEPT !.frames = Append(@, [kind |-> "irq", mask |-> c.intmask, returns |-> FALSE]),
            !.intmask = 1]

EnterSpecialties ==
  /\ At("run") /\ cpufunctbl = "fake"
  /\ Quietly([cpu EXCEPT !.pc = IF "STOP" \in spcflags THEN "stop" ELSE "doint"], <<>>)

MutStopLoop ==
  /\ At("stop")
  /\ \/ /\ {"STOP", "DOINT"} \subseteq spcflags
        /\ Quietly([cpu EXCEPT !.pc = "stop_take", !.intr = intlev], <<And({"INT", "DOINT"})>>)
     \/ /\ "STOP" \notin spcflags
        /\ Quietly([cpu EXCEPT !.pc = "doint"], <<>>)

\* while (regs.spcflags & SPCFLAG_STOP): polls for an interrupt.
StopLoop ==
  /\ At("stop")
  /\ \/ /\ "STOP" \in spcflags
        /\ spcflags \intersect {"INT", "DOINT"} # {}
        /\ Quietly([cpu EXCEPT !.pc = "stop_take", !.intr = intlev], <<And({"INT", "DOINT"})>>)
     \/ /\ "STOP" \notin spcflags
        /\ Quietly([cpu EXCEPT !.pc = "doint"], <<>>)

StopTake ==
  /\ At("stop_take")
  /\ LET c == [cpu EXCEPT !.pc = "stop", !.intr = 0]
     IN  IF cpu.intr > cpu.intmask
         THEN Quietly(Interrupted(c), <<ClearTrace, Or({"INT"}), And({"STOP"})>>)
         ELSE Quietly(c, <<>>)

DoIntTest ==
  /\ At("doint")
  /\ IF "DOINT" \in spcflags
     THEN Quietly([cpu EXCEPT !.pc = "doint_take", !.intr = intlev], <<And({"DOINT"})>>)
     ELSE Quietly([cpu EXCEPT !.pc = "int"], <<>>)

DoIntTake ==
  /\ At("doint_take")
  /\ LET c == [cpu EXCEPT !.pc = "int", !.intr = 0]
     IN  IF cpu.intr > cpu.intmask
         THEN Quietly(Interrupted(c), <<ClearTrace, Or({"INT"})>>)
         ELSE Quietly(c, <<>>)

\* SPCFLAG_INT becomes SPCFLAG_DOINT: the interrupt waits one instruction.
IntTest ==
  /\ At("int")
  /\ Quietly([cpu EXCEPT !.pc = "brk"],
             IF "INT" \in spcflags THEN <<And({"INT"}), Or({"DOINT"})>> ELSE <<>>)

\* SPCFLAG_BRK leaves m68k_run_1(); otherwise one instruction is executed.
BrkTest ==
  /\ At("brk")
  /\ IF "BRK" \in spcflags
     THEN Quietly([cpu EXCEPT !.pc = "leave"], <<And({"BRK"})>>)
     ELSE Quietly([cpu EXCEPT !.pc = "exec"], <<>>)

do_specialties ==
  EnterSpecialties \/ StopLoop \/ StopTake \/ DoIntTest \/ DoIntTake \/ IntTest \/ BrkTest

-----------------------------------------------------------------------------
(* 68k code.                                                               *)

\* An instruction is executed through the real table, or by do_specialties().
Executes == At("exec") \/ (At("run") /\ cpufunctbl = "real")

Depth == Len(cpu.frames)
Top == cpu.frames[Depth]
InProgram == cpu.frames = <<>>
InHandler == Depth > 0 /\ Top.kind = "irq"
InEmulOp == Depth > 0 /\ Top.kind = "emul_op"

Popped == SubSeq(cpu.frames, 1, Depth - 1)

\* An instruction that does not matter here.
Plain ==
  /\ At("exec")
  /\ ~ (InEmulOp /\ Top.returns)
  /\ Quietly([cpu EXCEPT !.pc = "run"], <<>>)

\* The program writes the status register: MakeFromSR() sets SPCFLAG_INT.
WriteSR(m) ==
  /\ Executes /\ InProgram
  /\ Quietly([cpu EXCEPT !.pc = "run", !.intmask = m, !.progmask = m],
             <<Or({"INT"}), ClearTrace>>)

\* STOP #$2000 waits with interrupts enabled.
Stop ==
  /\ Executes /\ InProgram
  /\ Quietly([cpu EXCEPT !.pc = "run", !.intmask = 0, !.progmask = 0],
             <<Or({"INT"}), ClearTrace, Or({"STOP"})>>)

\* op_illg() saves the registers and runs an EMUL_OP that calls 68k code.
EnterEmulOp ==
  /\ Executes /\ InProgram
  /\ Quietly([cpu EXCEPT !.pc = "emul_op",
                         !.frames = <<[kind |-> "emul_op", mask |-> cpu.intmask,
                                       returns |-> FALSE]>>], <<>>)

Execute68k ==
  /\ At("emul_op")
  /\ Quietly([cpu EXCEPT !.pc = "run", !.quit = FALSE,
                         !.frames = [@ EXCEPT ![Depth].returns = FALSE]], <<>>)

\* EXEC_RETURN: the PC stays on this opcode until m68k_go() is left.
ExecReturn ==
  /\ Executes /\ InEmulOp
  /\ Quietly([cpu EXCEPT !.pc = "run", !.quit = TRUE,
                         !.frames = [@ EXCEPT ![Depth].returns = TRUE]], <<Or({"BRK"})>>)

\* m68k_run_1() returns.  With quit_program set m68k_go() returns as well, to
\* the Execute68k() of the innermost EMUL_OP, whose frame is all that is kept.
LeaveRun ==
  /\ At("leave")
  /\ IF cpu.quit
     THEN \E k \in 1 .. Depth :
            /\ cpu.frames[k].kind = "emul_op"
            /\ \A j \in k + 1 .. Depth : cpu.frames[j].kind = "irq"
            /\ Quietly([cpu EXCEPT !.pc = "emul_op", !.quit = FALSE,
                                   !.frames = SubSeq(@, 1, k)], <<>>)
     ELSE Quietly([cpu EXCEPT !.pc = "run"], <<>>)

\* op_illg() restores the registers; MakeFromSR_no_interrupt() restores the
\* mask and leaves SPCFLAG_INT as it is.
MutLeaveEmulOp ==
  /\ At("emul_op")
  /\ Quietly([cpu EXCEPT !.pc = "run", !.frames = Popped], <<>>)

LeaveEmulOp ==
  /\ At("emul_op")
  /\ Quietly([cpu EXCEPT !.pc = "run", !.intmask = Top.mask, !.frames = Popped], <<>>)

-----------------------------------------------------------------------------
(* The level 1 handler: EMUL_OP_IRQ, then RTE.                             *)

EnterIRQ ==
  /\ Executes /\ InHandler /\ ~ Top.returns
  /\ Quietly([cpu EXCEPT !.pc = "irq", !.intr = 1], <<>>)

\* A flag that is set is cleared before its service routine runs.  (Before
\* MacOS has started the 60Hz and 1Hz routines are empty.)
TestFlag ==
  /\ At("irq") /\ cpu.intr <= Len(Sources)
  /\ LET s == Sources[cpu.intr]
     IN  IF s \in InterruptFlags
         THEN /\ InterruptFlags' = InterruptFlags \ {s}
              /\ CpuStep([cpu EXCEPT !.pc = "irq_serve"], <<>>)
              /\ UNCHANGED owed
         ELSE Quietly([cpu EXCEPT !.intr = @ + 1], <<>>)

\* The service routine starts: it sees whatever its thread did before now.
Serve ==
  /\ At("irq_serve")
  /\ owed' = owed \ {Sources[cpu.intr]}
  /\ CpuStep([cpu EXCEPT !.pc = "irq", !.intr = @ + 1], <<>>)
  /\ UNCHANGED InterruptFlags

MutLeaveIRQ ==
  /\ At("irq") /\ cpu.intr > Len(Sources)
  /\ InterruptFlags' = {}
  /\ CpuStep([cpu EXCEPT !.pc = "run", !.intr = 0,
                         !.frames = [@ EXCEPT ![Depth].returns = TRUE]], <<>>)
  /\ UNCHANGED owed

LeaveIRQ ==
  /\ At("irq") /\ cpu.intr > Len(Sources)
  /\ Quietly([cpu EXCEPT !.pc = "run", !.intr = 0,
                         !.frames = [@ EXCEPT ![Depth].returns = TRUE]], <<>>)

\* RTE restores the status register with MakeFromSR().
ReturnFromInterrupt ==
  /\ Executes /\ InHandler /\ Top.returns
  /\ Quietly([cpu EXCEPT !.pc = "run", !.intmask = Top.mask, !.frames = Popped],
             <<Or({"INT"}), ClearTrace>>)

-----------------------------------------------------------------------------
Program ==
  \/ Plain \/ Stop \/ EnterEmulOp \/ Execute68k \/ ExecReturn \/ LeaveRun \/ LeaveEmulOp
  \/ \E m \in {0, 1} : WriteSR(m)

Handler == EnterIRQ \/ TestFlag \/ Serve \/ LeaveIRQ \/ ReturnFromInterrupt

CpuThread == ChangeFlags \/ do_specialties \/ Program \/ Handler

Threads == \E s \in Source : SetInterruptFlag(s) \/ TriggerInterrupt(s)

Next == Threads \/ CpuThread

Spec == Init /\ [][Next]_vars

\* The host schedules every thread, the 60Hz thread never ends, and the
\* level 1 handler gets to EMUL_OP_IRQ and to RTE.
FairSpec ==
  /\ Spec
  /\ WF_vars(CpuThread)
  /\ \A s \in Source : WF_vars(TriggerInterrupt(s))
  /\ WF_vars(SetInterruptFlag(Sources[1]))
  /\ SF_vars(Handler)

-----------------------------------------------------------------------------
TypeOK ==
  /\ SMP \in BOOLEAN
  /\ InterruptFlags \subseteq Source /\ owed \subseteq Source
  /\ spcflags \subseteq SpcFlags /\ cpufunctbl \in {"real", "fake"}
  /\ thread \in [Source -> {"idle", "trigger", "store", "test", "table"}]
  /\ loaded \in [Source -> SUBSET SpcFlags]
  /\ cpu \in CPU
  /\ step \in {"rmw", "store", "test", "table"} /\ val \subseteq SpcFlags

\* A source that was raised is served by a run of its routine that starts
\* later: until then its flag is set, or the dispatcher is about to serve it.
NothingForgotten ==
  \A s \in owed :
    s \in InterruptFlags \/ (cpu.pc = "irq_serve" /\ Sources[cpu.intr] = s)

\* The level 1 handler, and so every service routine, is never re-entered.
OneHandler ==
  \A j, k \in 1 .. Depth :
    cpu.frames[j].kind = "irq" /\ cpu.frames[k].kind = "irq" => j = k

\* Interrupts give the program its interrupt mask back, also when one is
\* taken on the way out of Execute68k() and its frame is dropped.
ProgramMaskKept == cpu.pc = "run" /\ InProgram => cpu.intmask = cpu.progmask

\* The program has interrupts enabled and calls no EMUL_OP that runs 68k code.
Settled ==
  /\ cpu.progmask = 0
  /\ \A k \in 1 .. Depth : cpu.frames[k].kind = "irq"

\* On one processor every interrupt that is raised is served once the program
\* has settled: a trigger that gets lost is made good by a later 60Hz tick.
\* (A program that keeps enabling interrupts for one instruction only is never
\* interrupted, as SPCFLAG_INT takes effect one later; nor is one whose
\* interrupts are all taken on the way out of Execute68k().)
EveryInterruptServed ==
  ~ SMP /\ <>[]Settled => \A s \in Source : s \in owed ~> s \notin owed
=============================================================================
