------------------------ MODULE Interrupts_ADB_proofs -----------------------
(***************************************************************************)
(* Proofs about Interrupts and about ADB, which raises one of them.        *)
(*                                                                         *)
(* Interrupts, for every list of sources, on one processor and on several: *)
(* no interrupt is forgotten, the level 1 handler is never re-entered, and *)
(* the program gets its interrupt mask back.  ADB, for every size of       *)
(* key_buffer and any events: keys reach the Mac in order.                 *)
(***************************************************************************)
EXTENDS Interrupts, ADB, SequenceTheorems, TLAPS

-----------------------------------------------------------------------------
(* Interrupts.                                                             *)

Change == [op : {"or", "and"}, fs : SUBSET SpcFlags]

\* Where the CPU thread c can be.  Under an interrupt is the program or one
\* EMUL_OP, under an EMUL_OP only the program; an exception frame is there only
\* while the mask is raised; and the mask of the program is the one in use or
\* the one in the outermost frame.
CpuInv(c) ==
  /\ c \in CPU
  /\ Len(c.frames) <= 2
  /\ Len(c.frames) = 2 => c.frames[1].kind = "emul_op" /\ c.frames[2].kind = "irq"
  /\ \A k \in 1 .. Len(c.frames) : c.frames[k].kind = "irq" => c.intmask = 1
  /\ IF Len(c.frames) = 0 THEN c.intmask = c.progmask ELSE c.frames[1].mask = c.progmask
  /\ c.pc = "emul_op" => Len(c.frames) = 1 /\ c.frames[1].kind = "emul_op"
  /\ c.pc \in {"irq", "irq_serve"} => c.intr > 0 /\ Len(c.frames) > 0
  /\ c.pc = "irq_serve" => c.intr <= Len(Sources)
  /\ c.pc \in {"stop_take", "doint_take"} => c.intr \in {0, 1}

\* The changes of the flags are well formed, and one that has begun is there.
TodoOK == todo \in Seq(Change) /\ (step # "rmw" => todo # <<>>)

IInv == TypeOK /\ CpuInv(cpu) /\ TodoOK /\ NothingForgotten
-----------------------------------------------------------------------------
(* What the operators on the state of the CPU thread keep.                 *)

\* Where nothing is asked of the interrupt level or of the frames.
Plainly == {"run", "exec", "stop", "doint", "int", "brk", "leave"}

\* The frames one by one.
LEMMA FramesTyped ==
  ASSUME NEW c, CpuInv(c)
  PROVE  /\ c.frames \in Seq(Frame) /\ Len(c.frames) \in {0, 1, 2}
         /\ DOMAIN c.frames = 1 .. Len(c.frames)
         /\ \A k \in 1 .. Len(c.frames) :
              /\ c.frames[k] \in Frame /\ c.frames[k].kind \in {"irq", "emul_op"}
              /\ c.frames[k].mask \in {0, 1} /\ c.frames[k].returns \in BOOLEAN
         /\ c.intmask \in {0, 1} /\ c.progmask \in {0, 1} /\ c.intr \in 0 .. Len(Sources) + 1
         /\ Len(c.frames) = 0 <=> c.frames = <<>>
<1>1. c \in CPU
  BY DEF CpuInv
<1>2. c.frames \in Seq(Frame) /\ c.intmask \in {0, 1} /\ c.progmask \in {0, 1}
      /\ c.intr \in 0 .. Len(Sources) + 1
  BY <1>1 DEF CPU
<1>3. Len(c.frames) \in Nat /\ DOMAIN c.frames = 1 .. Len(c.frames)
  BY <1>2, LenProperties
<1>4. Len(c.frames) \in {0, 1, 2}
  <2>1. Len(c.frames) <= 2
    BY DEF CpuInv
  <2>2. \A n \in Nat : n <= 2 => n \in {0, 1, 2}
    OBVIOUS
  <2>3. QED
    BY <2>1, <2>2, <1>3
<1>5. \A k \in 1 .. Len(c.frames) : c.frames[k] \in Frame
  BY <1>2, ElementOfSeq
<1>6. Len(c.frames) = 0 <=> c.frames = <<>>
  BY <1>2, EmptySeq
<1>7. QED
  BY <1>2, <1>3, <1>4, <1>5, <1>6 DEF Frame

\* Going on.
LEMMA Goes ==
  ASSUME NEW c, CpuInv(c), NEW p \in Plainly
  PROVE  CpuInv([c EXCEPT !.pc = p])
BY DEF CpuInv, CPU, Plainly

\* Going on with another result of intlev().
LEMMA Polled ==
  ASSUME NEW c, CpuInv(c), NEW p \in {"stop_take", "doint_take"}
  PROVE  CpuInv([c EXCEPT !.pc = p, !.intr = intlev])
<1>1. intlev \in {0, 1} /\ intlev \in 0 .. Len(Sources) + 1
  <2>1. Len(Sources) \in Nat
    BY InterruptsAssumption, LenProperties
  <2>2. QED
    BY <2>1 DEF intlev
<1>2. QED
  BY <1>1 DEF CpuInv, CPU

LEMMA GoesAfterPoll ==
  ASSUME NEW c, CpuInv(c), NEW p \in Plainly
  PROVE  CpuInv([c EXCEPT !.pc = p, !.intr = 0])
<1>1. 0 \in 0 .. Len(Sources) + 1
  <2>1. Len(Sources) \in Nat
    BY InterruptsAssumption, LenProperties
  <2>2. QED
    BY <2>1
<1>2. QED
  BY <1>1 DEF CpuInv, CPU, Plainly

\* Interrupt(1): with the mask at 0 there is no exception frame.
LEMMA InterruptedInv ==
  ASSUME NEW c, CpuInv(c), c.pc \in Plainly, c.intmask = 0
  PROVE  CpuInv(Interrupted(c))
<1> DEFINE f == [kind |-> "irq", mask |-> c.intmask, returns |-> FALSE]
           d == Interrupted(c)
<1>1. f \in Frame /\ f.kind = "irq" /\ f.mask = c.intmask
  BY DEF Frame
<1> HIDE DEF f
<1>2. /\ d.frames = Append(c.frames, f) /\ d.intmask = 1 /\ d.pc = c.pc
      /\ d.progmask = c.progmask /\ d.intr = c.intr
  BY DEF Interrupted, CpuInv, CPU, f
<1>3. \A k \in 1 .. Len(c.frames) : c.frames[k].kind = "emul_op"
  BY FramesTyped DEF CpuInv
<1>4. Len(c.frames) \in {0, 1}
  BY <1>3, FramesTyped DEF CpuInv
<1>5. /\ d.frames \in Seq(Frame) /\ Len(d.frames) = Len(c.frames) + 1
      /\ \A i \in 1 .. Len(c.frames) : d.frames[i] = c.frames[i]
      /\ d.frames[Len(c.frames) + 1] = f
  BY <1>1, <1>2, FramesTyped, AppendProperties
<1>6. d \in CPU
  BY <1>2, <1>5 DEF Interrupted, CpuInv, CPU
<1>7. QED
  BY <1>1, <1>2, <1>3, <1>4, <1>5, <1>6 DEF CpuInv, Plainly

\* Taking the interrupt that was polled, or not.
LEMMA TakenInv ==
  ASSUME NEW c, CpuInv(c), c.intr \in {0, 1}, NEW p \in Plainly
  PROVE  LET d == [c EXCEPT !.pc = p, !.intr = 0]
         IN  CpuInv(d) /\ (c.intr > c.intmask => CpuInv(Interrupted(d)))
<1> DEFINE d == [c EXCEPT !.pc = p, !.intr = 0]
<1>1. CpuInv(d)
  BY GoesAfterPoll
<1>2. ASSUME c.intr > c.intmask
      PROVE  CpuInv(Interrupted(d))
  <2>1. c.intmask = 0
    BY <1>2, FramesTyped
  <2>2. d.pc \in Plainly /\ d.intmask = 0
    BY <2>1 DEF CpuInv, CPU
  <2>3. QED
    BY <2>2, <1>1, InterruptedInv
<1>3. QED
  BY <1>1, <1>2

\* Dropping the innermost frames, down to the k-th.
LEMMA Dropped ==
  ASSUME NEW c, CpuInv(c), NEW k \in 0 .. Len(c.frames)
  PROVE  /\ SubSeq(c.frames, 1, k) \in Seq(Frame) /\ Len(SubSeq(c.frames, 1, k)) = k
         /\ \A i \in 1 .. k : SubSeq(c.frames, 1, k)[i] = c.frames[i]
<1>1. k \in Int /\ \A i \in 1 .. k : c.frames[i] \in Frame
  BY FramesTyped
<1>2. /\ SubSeq(c.frames, 1, k) \in Seq(Frame)
      /\ Len(SubSeq(c.frames, 1, k)) = IF 1 <= k THEN k - 1 + 1 ELSE 0
      /\ \A i \in 1 .. k - 1 + 1 : SubSeq(c.frames, 1, k)[i] = c.frames[1 + i - 1]
  BY <1>1, SubSeqProperties
<1>3. QED
  BY <1>1, <1>2, FramesTyped

-----------------------------------------------------------------------------
(* The steps.                                                              *)

\* The changes that the CPU thread is given to do.
LEMMA Changes ==
  /\ <<>> \in Seq(Change)
  /\ <<And({"INT", "DOINT"})>> \in Seq(Change)
  /\ <<And({"DOINT"})>> \in Seq(Change)
  /\ <<And({"BRK"})>> \in Seq(Change)
  /\ <<Or({"BRK"})>> \in Seq(Change)
  /\ <<ClearTrace, Or({"INT"}), And({"STOP"})>> \in Seq(Change)
  /\ <<ClearTrace, Or({"INT"})>> \in Seq(Change)
  /\ <<And({"INT"}), Or({"DOINT"})>> \in Seq(Change)
  /\ <<Or({"INT"}), ClearTrace>> \in Seq(Change)
  /\ <<Or({"INT"}), ClearTrace, Or({"STOP"})>> \in Seq(Change)
<1>1. /\ And({"INT", "DOINT"}) \in Change /\ And({"DOINT"}) \in Change
      /\ And({"BRK"}) \in Change /\ Or({"BRK"}) \in Change /\ ClearTrace \in Change
      /\ Or({"INT"}) \in Change /\ And({"STOP"}) \in Change /\ And({"INT"}) \in Change
      /\ Or({"DOINT"}) \in Change /\ Or({"STOP"}) \in Change
  BY DEF Or, And, ClearTrace, Change, SpcFlags
<1>2. QED
  BY <1>1

\* What a step of the CPU thread has to show that changes no flag itself.
LEMMA CpuStepInv ==
  ASSUME IInv, NEW c, NEW t, Quietly(c, t), CpuInv(c), t \in Seq(Change), todo = <<>>,
         cpu.pc # "irq_serve"
  PROVE  IInv'
<1>1. /\ cpu' = c /\ todo' = t /\ step = "rmw" /\ step' = step
      /\ UNCHANGED <<SMP, InterruptFlags, owed, val, spcflags, cpufunctbl, thread, loaded>>
  BY DEF IInv, TodoOK, Quietly, CpuStep
<1>2. TypeOK'
  BY <1>1 DEF IInv, TypeOK, CpuInv
<1>3. CpuInv(cpu)' /\ TodoOK'
  BY <1>1 DEF CpuInv, TodoOK
<1>4. NothingForgotten'
  BY <1>1 DEF IInv, NothingForgotten
<1>5. QED
  BY <1>2, <1>3, <1>4 DEF IInv

\* The threads, which may run at any moment.
LEMMA ThreadStep ==
  ASSUME IInv, NEW s \in Source, SetInterruptFlag(s) \/ TriggerInterrupt(s)
  PROVE  IInv'
<1>1. UNCHANGED <<SMP, cpu, todo, step, val>>
  BY DEF SetInterruptFlag, TriggerInterrupt, CpuWaits
<1>2. CpuInv(cpu)' /\ TodoOK'
  BY <1>1 DEF IInv, CpuInv, TodoOK
<1>3. TypeOK'
  <2>1. CASE SetInterruptFlag(s)
    BY <2>1, <1>1 DEF IInv, TypeOK, SetInterruptFlag, Thread
  <2>2. CASE TriggerInterrupt(s)
    <3>1. UNCHANGED <<InterruptFlags, owed>> /\ cpufunctbl' \in {"real", "fake"}
      BY <2>2 DEF IInv, TypeOK, TriggerInterrupt
    <3>2. \E to \in {"idle", "trigger", "store", "test", "table"} :
            thread' = [thread EXCEPT ![s] = to]
      BY <2>2 DEF TriggerInterrupt, Thread
    <3>3. thread' \in [Source -> {"idle", "trigger", "store", "test", "table"}]
      BY <3>2 DEF IInv, TypeOK
    <3>4. loaded' \in [Source -> SUBSET SpcFlags] /\ spcflags' \subseteq SpcFlags
      BY <2>2 DEF IInv, TypeOK, TriggerInterrupt, SpcFlags
    <3>5. QED
      BY <3>1, <3>3, <3>4, <1>1 DEF IInv, TypeOK
  <2>3. QED
    BY <2>1, <2>2
<1>4. NothingForgotten'
  BY <1>1 DEF IInv, NothingForgotten, SetInterruptFlag, TriggerInterrupt
<1>5. QED
  BY <1>2, <1>3, <1>4 DEF IInv

\* The changes of the flags, one after the other.
LEMMA ChangeStep ==
  ASSUME IInv, ChangeFlags
  PROVE  IInv'
<1>1. /\ TypeOK /\ CpuInv(cpu) /\ todo \in Seq(Change) /\ todo # <<>>
      /\ UNCHANGED <<SMP, cpu, InterruptFlags, owed, thread, loaded>>
  BY DEF IInv, TodoOK, ChangeFlags
<1>2. Head(todo) \in Change /\ Tail(todo) \in Seq(Change)
  BY <1>1, HeadTailProperties
<1>3. \A v \in SUBSET SpcFlags : Applied(Head(todo), v) \subseteq SpcFlags
  BY <1>2 DEF Change, Applied
<1>4. spcflags' \subseteq SpcFlags /\ val' \subseteq SpcFlags /\ cpufunctbl' \in {"real", "fake"}
  BY <1>1, <1>3 DEF TypeOK, ChangeFlags
<1>5. step' \in {"rmw", "store", "test", "table"} /\ TodoOK'
  BY <1>1, <1>2 DEF ChangeFlags, TodoOK
<1>6. TypeOK' /\ CpuInv(cpu)' /\ NothingForgotten'
  BY <1>1, <1>4, <1>5 DEF IInv, TypeOK, CpuInv, NothingForgotten
<1>7. QED
  BY <1>5, <1>6 DEF IInv

\* do_specialties(): an interrupt is taken with the mask at 0 only.
LEMMA SpecialtiesStep ==
  ASSUME IInv, do_specialties
  PROVE  IInv'
<1>1. CpuInv(cpu) /\ cpu \in CPU
  BY DEF IInv, CpuInv
<1> DEFINE going(p) == [cpu EXCEPT !.pc = p]
           polled(p) == [cpu EXCEPT !.pc = p, !.intr = intlev]
           taken(p) == [cpu EXCEPT !.pc = p, !.intr = 0]
<1>2. \A p \in Plainly : CpuInv(going(p))
  BY <1>1, Goes
<1>3. \A p \in {"stop_take", "doint_take"} : CpuInv(polled(p))
  BY <1>1, Polled
<1>4. ASSUME cpu.pc \in {"stop_take", "doint_take"}, NEW p \in Plainly
      PROVE  CpuInv(taken(p)) /\ (cpu.intr > cpu.intmask => CpuInv(Interrupted(taken(p))))
  <2>1. cpu.intr \in {0, 1}
    BY <1>1, <1>4 DEF CpuInv
  <2>2. QED
    BY <2>1, <1>1, TakenInv
<1>5. PICK c, t :
        /\ Quietly(c, t)
        /\ \/ \E p \in Plainly : c = going(p)
           \/ \E p \in {"stop_take", "doint_take"} : c = polled(p)
           \/ /\ cpu.pc \in {"stop_take", "doint_take"}
              /\ \E p \in Plainly :
                   c = taken(p) \/ (cpu.intr > cpu.intmask /\ c = Interrupted(taken(p)))
        /\ t \in Seq(Change)
        /\ todo = <<>> /\ cpu.pc # "irq_serve"
  <2> HIDE DEF going, polled, taken
  <2> USE Changes
  <2>p. /\ "stop" \in Plainly /\ "doint" \in Plainly /\ "int" \in Plainly /\ "brk" \in Plainly
        /\ "leave" \in Plainly /\ "exec" \in Plainly
    BY DEF Plainly
  <2>1. CASE EnterSpecialties
    <3>1. todo = <<>> /\ cpu.pc = "run"
      BY <2>1 DEF EnterSpecialties, At
    <3>2. Quietly(going("stop"), <<>>) \/ Quietly(going("doint"), <<>>)
      BY <2>1, Zenon DEF EnterSpecialties, going
    <3>3. QED
      BY <3>1, <3>2, <2>p
  <2>2. CASE StopLoop
    <3>1. todo = <<>> /\ cpu.pc = "stop"
      BY <2>2 DEF StopLoop, At
    <3>2. Quietly(polled("stop_take"), <<And({"INT", "DOINT"})>>) \/ Quietly(going("doint"), <<>>)
      BY <2>2, Zenon DEF StopLoop, polled, going
    <3>3. QED
      BY <3>1, <3>2, <2>p
  <2>3. CASE StopTake
    <3>1. todo = <<>> /\ cpu.pc = "stop_take"
      BY <2>3 DEF StopTake, At
    <3>2. \/ /\ cpu.intr > cpu.intmask
             /\ Quietly(Interrupted(taken("stop")), <<ClearTrace, Or({"INT"}), And({"STOP"})>>)
          \/ Quietly(taken("stop"), <<>>)
      BY <2>3, Zenon DEF StopTake, taken
    <3>3. QED
      BY <3>1, <3>2, <2>p
  <2>4. CASE DoIntTest
    <3>1. todo = <<>> /\ cpu.pc = "doint"
      BY <2>4 DEF DoIntTest, At
    <3>2. Quietly(polled("doint_take"), <<And({"DOINT"})>>) \/ Quietly(going("int"), <<>>)
      BY <2>4, Zenon DEF DoIntTest, polled, going
    <3>3. QED
      BY <3>1, <3>2, <2>p
  <2>5. CASE DoIntTake
    <3>1. todo = <<>> /\ cpu.pc = "doint_take"
      BY <2>5 DEF DoIntTake, At
    <3>2. \/ /\ cpu.intr > cpu.intmask
             /\ Quietly(Interrupted(taken("int")), <<ClearTrace, Or({"INT"})>>)
          \/ Quietly(taken("int"), <<>>)
      BY <2>5, Zenon DEF DoIntTake, taken
    <3>3. QED
      BY <3>1, <3>2, <2>p
  <2>6. CASE IntTest
    <3>1. todo = <<>> /\ cpu.pc = "int"
      BY <2>6 DEF IntTest, At
    <3>2. Quietly(going("brk"), <<And({"INT"}), Or({"DOINT"})>>) \/ Quietly(going("brk"), <<>>)
      BY <2>6, Zenon DEF IntTest, going
    <3>3. QED
      BY <3>1, <3>2, <2>p
  <2>7. CASE BrkTest
    <3>1. todo = <<>> /\ cpu.pc = "brk"
      BY <2>7 DEF BrkTest, At
    <3>2. Quietly(going("leave"), <<And({"BRK"})>>) \/ Quietly(going("exec"), <<>>)
      BY <2>7, Zenon DEF BrkTest, going
    <3>3. QED
      BY <3>1, <3>2, <2>p
  <2>8. QED
    BY <2>1, <2>2, <2>3, <2>4, <2>5, <2>6, <2>7 DEF do_specialties
<1> HIDE DEF going, polled, taken
<1>6. CpuInv(c)
  BY <1>2, <1>3, <1>4, <1>5
<1>7. QED
  BY <1>5, <1>6, CpuStepInv

\* The program sets its own mask.
LEMMA MaskSet ==
  ASSUME NEW c, CpuInv(c), c.frames = <<>>, NEW m \in {0, 1}
  PROVE  CpuInv([c EXCEPT !.pc = "run", !.intmask = m, !.progmask = m])
<1>1. Len(c.frames) = 0 /\ c \in CPU
  BY FramesTyped DEF CpuInv
<1> DEFINE d == [c EXCEPT !.pc = "run", !.intmask = m, !.progmask = m]
<1>2. /\ d \in CPU /\ d.frames = c.frames /\ d.intmask = m /\ d.progmask = m
      /\ d.pc = "run"
  BY <1>1 DEF CPU
<1> HIDE DEF d
<1>3. CpuInv(d)
  BY <1>1, <1>2 DEF CpuInv
<1>4. QED
  BY <1>3 DEF d

\* An EMUL_OP saves the mask of the program ...
LEMMA EmulOpEntered ==
  ASSUME NEW c, CpuInv(c), c.frames = <<>>
  PROVE  CpuInv([c EXCEPT !.pc = "emul_op",
                          !.frames = <<[kind |-> "emul_op", mask |-> c.intmask,
                                        returns |-> FALSE]>>])
<1> DEFINE f == [kind |-> "emul_op", mask |-> c.intmask, returns |-> FALSE]
           d == [c EXCEPT !.pc = "emul_op", !.frames = <<f>>]
<1>1. Len(c.frames) = 0 /\ c \in CPU /\ c.intmask = c.progmask /\ c.intmask \in {0, 1}
  BY FramesTyped DEF CpuInv
<1>2. f \in Frame /\ f.kind = "emul_op" /\ f.mask = c.progmask
  BY <1>1 DEF Frame
<1> HIDE DEF f
<1>3. <<f>> \in Seq(Frame) /\ Len(<<f>>) = 1 /\ <<f>>[1] = f
  BY <1>2
<1>4. /\ d \in CPU /\ d.frames = <<f>> /\ d.intmask = c.intmask /\ d.progmask = c.progmask
      /\ d.pc = "emul_op"
  BY <1>1, <1>3 DEF CPU
<1> HIDE DEF d
<1>5. CpuInv(d)
  BY <1>2, <1>3, <1>4 DEF CpuInv
<1>6. QED
  BY <1>5 DEF d, f

\* One frame of an EMUL_OP that has saved the program's mask.
LEMMA OneEmulOp ==
  ASSUME NEW d \in CPU, Len(d.frames) = 1, d.frames[1].kind = "emul_op",
         d.frames[1].mask = d.progmask, d.pc \in {"run", "emul_op"}
  PROVE  CpuInv(d)
<1>1. \A k \in 1 .. Len(d.frames) : d.frames[k].kind # "irq"
  <2>1. \A k \in 1 .. 1 : k = 1
    OBVIOUS
  <2>2. QED
    BY <2>1
<1>2. Len(d.frames) <= 2 /\ Len(d.frames) # 2 /\ Len(d.frames) # 0
  OBVIOUS
<1>3. d.pc \notin {"irq", "irq_serve", "stop_take", "doint_take"}
  OBVIOUS
<1>4. QED
  BY <1>1, <1>2, <1>3, Zenon DEF CpuInv

\* ... and every way back to it restores the mask.
LEMMA FramePopped ==
  ASSUME NEW c, CpuInv(c), Len(c.frames) > 0,
         c.pc = "emul_op" \/ c.frames[Len(c.frames)].kind = "irq"
  PROVE  CpuInv([c EXCEPT !.pc = "run", !.intmask = c.frames[Len(c.frames)].mask,
                          !.frames = SubSeq(c.frames, 1, Len(c.frames) - 1)])
<1> DEFINE n == Len(c.frames)
           m == c.frames[Len(c.frames)].mask
           fs == SubSeq(c.frames, 1, n - 1)
           d == [c EXCEPT !.pc = "run", !.intmask = m, !.frames = fs]
<1>1. n \in {1, 2} /\ c \in CPU /\ m \in {0, 1} /\ n - 1 \in 0 .. Len(c.frames)
  BY FramesTyped DEF CpuInv
<1>2. fs \in Seq(Frame) /\ Len(fs) = n - 1 /\ \A i \in 1 .. n - 1 : fs[i] = c.frames[i]
  BY <1>1, Dropped
<1>3. n = 1 => m = c.progmask
  BY DEF CpuInv
<1>4. n = 2 => c.frames[1].kind = "emul_op" /\ c.frames[1].mask = c.progmask
  BY DEF CpuInv
<1> HIDE DEF m, fs, n
<1>5. /\ d \in CPU /\ d.frames = fs /\ d.intmask = m /\ d.progmask = c.progmask
      /\ d.pc = "run"
  BY <1>1, <1>2 DEF CPU
<1> HIDE DEF d
<1>6. CpuInv(d)
  <2>1. CASE n = 1
    BY <2>1, <1>2, <1>3, <1>5 DEF CpuInv
  <2>2. CASE n = 2
    <3>1. Len(fs) = 1 /\ fs[1] = c.frames[1]
      BY <2>2, <1>2
    <3>2. QED
      BY <3>1, <2>2, <1>4, <1>5, OneEmulOp
  <2>3. QED
    BY <2>1, <2>2, <1>1
<1>7. QED
  BY <1>6 DEF d, m, fs, n

\* The innermost frame is marked.
LEMMA FrameMarked ==
  ASSUME NEW c, CpuInv(c), Len(c.frames) > 0, NEW p \in Plainly,
         NEW r \in BOOLEAN, NEW q \in BOOLEAN
  PROVE  /\ CpuInv([c EXCEPT !.pc = p, !.quit = q,
                             !.frames = [c.frames EXCEPT ![Len(c.frames)].returns = r]])
         /\ CpuInv([c EXCEPT !.pc = p, !.intr = 0,
                             !.frames = [c.frames EXCEPT ![Len(c.frames)].returns = r]])
<1> DEFINE n == Len(c.frames)
           f == [c.frames[n] EXCEPT !.returns = r]
           fs == [c.frames EXCEPT ![n] = f]
           d == [c EXCEPT !.pc = p, !.quit = q, !.frames = fs]
           e == [c EXCEPT !.pc = p, !.intr = 0, !.frames = fs]
<1>1. n \in {1, 2} /\ c \in CPU /\ n \in 1 .. Len(c.frames) /\ c.frames \in Seq(Frame)
      /\ c.frames[n] \in Frame
  BY FramesTyped DEF CpuInv
<1>2. f \in Frame /\ f.kind = c.frames[n].kind /\ f.mask = c.frames[n].mask
  BY <1>1 DEF Frame
<1>3. fs = [c.frames EXCEPT ![Len(c.frames)].returns = r]
  OBVIOUS
<1> HIDE DEF f, n
<1>4. /\ fs \in Seq(Frame) /\ Len(fs) = Len(c.frames)
      /\ \A j \in 1 .. Len(c.frames) : fs[j] = IF j = n THEN f ELSE c.frames[j]
  BY <1>1, <1>2, ExceptSeq
<1>5. \A j \in 1 .. Len(c.frames) :
        fs[j].kind = c.frames[j].kind /\ fs[j].mask = c.frames[j].mask
  BY <1>2, <1>4
<1> HIDE DEF fs
<1>6. /\ d \in CPU /\ d.frames = fs /\ d.intmask = c.intmask /\ d.progmask = c.progmask
      /\ d.pc = p
  BY <1>1, <1>4 DEF CPU, Plainly
<1>7. 0 \in 0 .. Len(Sources) + 1
  BY InterruptsAssumption, LenProperties
<1>8. /\ e \in CPU /\ e.frames = fs /\ e.intmask = c.intmask /\ e.progmask = c.progmask
      /\ e.pc = p
  BY <1>1, <1>4, <1>7 DEF CPU, Plainly
<1> HIDE DEF d, e
<1>9. Len(fs) = 2 => fs[1].kind = "emul_op" /\ fs[2].kind = "irq"
  BY <1>4, <1>5 DEF CpuInv
<1>10. \A k \in 1 .. Len(fs) : fs[k].kind = "irq" => c.intmask = 1
  BY <1>4, <1>5 DEF CpuInv
<1>11. fs[1].mask = c.progmask /\ Len(fs) > 0 /\ Len(fs) <= 2
  <2>1. 1 \in 1 .. Len(c.frames) /\ Len(c.frames) # 0 /\ Len(c.frames) <= 2
    BY FramesTyped
  <2>2. QED
    BY <2>1, <1>4, <1>5 DEF CpuInv
<1>12. CpuInv(d)
  BY <1>6, <1>9, <1>10, <1>11 DEF CpuInv, Plainly
<1>13. CpuInv(e)
  BY <1>8, <1>9, <1>10, <1>11 DEF CpuInv, Plainly
<1>14. QED
  BY <1>3, <1>12, <1>13 DEF d, e

\* Leaving m68k_go() drops the frames above the innermost EMUL_OP.
LEMMA RunLeft ==
  ASSUME NEW c, CpuInv(c), NEW k \in 1 .. Len(c.frames), c.frames[k].kind = "emul_op"
  PROVE  CpuInv([c EXCEPT !.pc = "emul_op", !.quit = FALSE,
                          !.frames = SubSeq(c.frames, 1, k)])
<1> DEFINE fs == SubSeq(c.frames, 1, k)
           d == [c EXCEPT !.pc = "emul_op", !.quit = FALSE, !.frames = fs]
<1>1. c \in CPU /\ Len(c.frames) \in {1, 2} /\ k \in 0 .. Len(c.frames)
  BY FramesTyped DEF CpuInv
<1>2. k = 1
  <2>1. Len(c.frames) = 2 => c.frames[2].kind = "irq"
    BY DEF CpuInv
  <2>2. QED
    BY <2>1, <1>1
<1>3. fs \in Seq(Frame) /\ Len(fs) = 1 /\ fs[1] = c.frames[1]
  BY <1>1, <1>2, Dropped
<1>4. c.frames[1].mask = c.progmask /\ c.frames[1].kind = "emul_op"
  BY <1>1, <1>2 DEF CpuInv
<1> HIDE DEF fs
<1>5. /\ d \in CPU /\ d.frames = fs /\ d.intmask = c.intmask /\ d.progmask = c.progmask
      /\ d.pc = "emul_op"
  BY <1>1, <1>3 DEF CPU
<1> HIDE DEF d
<1>6. CpuInv(d)
  BY <1>3, <1>4, <1>5, OneEmulOp
<1>7. QED
  BY <1>6 DEF d, fs

\* EMUL_OP_IRQ starts, or goes on with the next flag.
LEMMA Dispatching ==
  ASSUME NEW c, CpuInv(c), Len(c.frames) > 0, NEW n \in 1 .. Len(Sources) + 1,
         NEW p \in {"irq", "irq_serve"}, p = "irq_serve" => n <= Len(Sources)
  PROVE  CpuInv([c EXCEPT !.pc = p, !.intr = n])
<1> DEFINE d == [c EXCEPT !.pc = p, !.intr = n]
<1>1. Len(Sources) \in Nat
  BY InterruptsAssumption, LenProperties
<1>2. /\ d \in CPU /\ d.frames = c.frames /\ d.intmask = c.intmask
      /\ d.progmask = c.progmask /\ d.pc = p /\ d.intr = n
  <2>1. c \in CPU /\ n \in 0 .. Len(Sources) + 1
    BY <1>1 DEF CpuInv
  <2>2. QED
    BY <2>1 DEF CPU
<1> HIDE DEF d
<1>3. CpuInv(d)
  BY <1>1, <1>2 DEF CpuInv
<1>4. QED
  BY <1>3 DEF d

\* The program and its EMUL_OPs.
LEMMA ProgramStep ==
  ASSUME IInv, Program
  PROVE  IInv'
<1> USE Changes
<1>1. CpuInv(cpu) /\ cpu \in CPU
  BY DEF IInv, CpuInv
<1>2. PICK c, t :
        /\ Quietly(c, t) /\ CpuInv(c) /\ t \in Seq(Change)
        /\ todo = <<>> /\ cpu.pc # "irq_serve"
  <2>p. "run" \in Plainly
    BY DEF Plainly
  <2>1. CASE Plain
    <3>1. todo = <<>> /\ cpu.pc # "irq_serve"
      BY <2>1 DEF Plain, At
    <3>2. Quietly([cpu EXCEPT !.pc = "run"], <<>>)
      BY <2>1, Zenon DEF Plain
    <3>3. CpuInv([cpu EXCEPT !.pc = "run"])
      BY <1>1, <2>p, Goes
    <3>4. QED
      BY <3>1, <3>2, <3>3, Zenon
  <2>2. ASSUME NEW m \in {0, 1}, WriteSR(m)
        PROVE  \E c, t : /\ Quietly(c, t) /\ CpuInv(c) /\ t \in Seq(Change)
                         /\ todo = <<>> /\ cpu.pc # "irq_serve"
    <3> DEFINE c == [cpu EXCEPT !.pc = "run", !.intmask = m, !.progmask = m]
    <3>1. todo = <<>> /\ cpu.pc # "irq_serve"
      BY <2>2 DEF WriteSR, Executes, At
    <3>2. Quietly(c, <<Or({"INT"}), ClearTrace>>)
      BY <2>2, Zenon DEF WriteSR
    <3>3. CpuInv(c)
      BY <2>2, <1>1, MaskSet DEF WriteSR, InProgram
    <3> HIDE DEF c
    <3>4. QED
      BY <3>1, <3>2, <3>3, Zenon
  <2>3. CASE Stop
    <3> DEFINE c == [cpu EXCEPT !.pc = "run", !.intmask = 0, !.progmask = 0]
    <3>1. todo = <<>> /\ cpu.pc # "irq_serve"
      BY <2>3 DEF Stop, Executes, At
    <3>2. Quietly(c, <<Or({"INT"}), ClearTrace, Or({"STOP"})>>)
      BY <2>3, Zenon DEF Stop
    <3>3. CpuInv(c)
      BY <2>3, <1>1, MaskSet DEF Stop, InProgram
    <3> HIDE DEF c
    <3>4. QED
      BY <3>1, <3>2, <3>3, Zenon
  <2>4. CASE EnterEmulOp
    <3> DEFINE c == [cpu EXCEPT !.pc = "emul_op",
                                !.frames = <<[kind |-> "emul_op", mask |-> cpu.intmask,
                                              returns |-> FALSE]>>]
    <3>1. todo = <<>> /\ cpu.pc # "irq_serve"
      BY <2>4 DEF EnterEmulOp, Executes, At
    <3>2. Quietly(c, <<>>)
      BY <2>4, Zenon DEF EnterEmulOp
    <3>3. CpuInv(c)
      BY <2>4, <1>1, EmulOpEntered DEF EnterEmulOp, InProgram
    <3> HIDE DEF c
    <3>4. QED
      BY <3>1, <3>2, <3>3, Zenon
  <2>5. CASE Execute68k
    <3> DEFINE c == [cpu EXCEPT !.pc = "run", !.quit = FALSE,
                                !.frames = [cpu.frames EXCEPT ![Len(cpu.frames)].returns = FALSE]]
    <3>1. todo = <<>> /\ cpu.pc # "irq_serve" /\ Len(cpu.frames) > 0
      BY <2>5, <1>1 DEF Execute68k, At, CpuInv
    <3>2. Quietly(c, <<>>)
      BY <2>5 DEF Execute68k, Depth
    <3>3. CpuInv(c)
      BY <3>1, <1>1, <2>p, FrameMarked
    <3> HIDE DEF c
    <3>4. QED
      BY <3>1, <3>2, <3>3, Zenon
  <2>6. CASE ExecReturn
    <3> DEFINE c == [cpu EXCEPT !.pc = "run", !.quit = TRUE,
                                !.frames = [cpu.frames EXCEPT ![Len(cpu.frames)].returns = TRUE]]
    <3>1. todo = <<>> /\ cpu.pc # "irq_serve" /\ Len(cpu.frames) > 0
      BY <2>6, <1>1 DEF ExecReturn, Executes, At, InEmulOp, Depth
    <3>2. Quietly(c, <<Or({"BRK"})>>)
      BY <2>6 DEF ExecReturn, Depth
    <3>3. CpuInv(c)
      BY <3>1, <1>1, <2>p, FrameMarked
    <3> HIDE DEF c
    <3>4. QED
      BY <3>1, <3>2, <3>3, Zenon
  <2>7. CASE LeaveRun
    <3>1. todo = <<>> /\ cpu.pc # "irq_serve"
      BY <2>7 DEF LeaveRun, At
    <3>2. CASE cpu.quit
      <4>1. PICK k \in 1 .. Len(cpu.frames) :
              /\ cpu.frames[k].kind = "emul_op"
              /\ Quietly([cpu EXCEPT !.pc = "emul_op", !.quit = FALSE,
                                     !.frames = SubSeq(cpu.frames, 1, k)], <<>>)
        BY <2>7, <3>2 DEF LeaveRun, Depth
      <4>2. CpuInv([cpu EXCEPT !.pc = "emul_op", !.quit = FALSE,
                               !.frames = SubSeq(cpu.frames, 1, k)])
        BY <4>1, <1>1, RunLeft
      <4>3. QED
        BY <4>1, <4>2, <3>1, Zenon
    <3>3. CASE ~ cpu.quit
      <4>1. Quietly([cpu EXCEPT !.pc = "run"], <<>>)
        BY <2>7, <3>3, Zenon DEF LeaveRun
      <4>2. CpuInv([cpu EXCEPT !.pc = "run"])
        BY <1>1, <2>p, Goes
      <4>3. QED
        BY <4>1, <4>2, <3>1, Zenon
    <3>4. QED
      BY <3>2, <3>3
  <2>8. CASE LeaveEmulOp
    <3> DEFINE c == [cpu EXCEPT !.pc = "run",
                                !.intmask = cpu.frames[Len(cpu.frames)].mask,
                                !.frames = SubSeq(cpu.frames, 1, Len(cpu.frames) - 1)]
    <3>1. todo = <<>> /\ cpu.pc = "emul_op" /\ Len(cpu.frames) > 0
      BY <2>8, <1>1 DEF LeaveEmulOp, At, CpuInv
    <3>2. Quietly(c, <<>>)
      BY <2>8, Zenon DEF LeaveEmulOp, Top, Popped, Depth
    <3>3. CpuInv(c)
      BY <3>1, <1>1, FramePopped
    <3> HIDE DEF c
    <3>4. cpu.pc # "irq_serve"
      BY <3>1
    <3>5. QED
      BY <3>1, <3>2, <3>3, <3>4, Zenon
  <2>9. QED
    BY <2>1, <2>2, <2>3, <2>4, <2>5, <2>6, <2>7, <2>8 DEF Program
<1>3. QED
  BY <1>2, CpuStepInv

\* EMUL_OP_IRQ takes the flag of a source before it serves it.
LEMMA HandlerStep ==
  ASSUME IInv, Handler
  PROVE  IInv'
<1> USE Changes
<1>1. CpuInv(cpu) /\ cpu \in CPU /\ TypeOK /\ TodoOK /\ NothingForgotten
  BY DEF IInv, CpuInv
<1>n. Len(Sources) \in Nat /\ Len(Sources) > 0 /\ \A k \in 1 .. Len(Sources) : Sources[k] \in Source
  BY InterruptsAssumption, LenProperties, EmptySeq DEF Source
<1>p. "run" \in Plainly
  BY DEF Plainly
<1>2. CASE EnterIRQ
  <2> DEFINE c == [cpu EXCEPT !.pc = "irq", !.intr = 1]
  <2>1. todo = <<>> /\ cpu.pc # "irq_serve" /\ Len(cpu.frames) > 0
    BY <1>2, <1>1 DEF EnterIRQ, Executes, At, InHandler, Depth
  <2>2. Quietly(c, <<>>)
    BY <1>2, Zenon DEF EnterIRQ
  <2>3. 1 \in 1 .. Len(Sources) + 1
    BY <1>n
  <2>4. CpuInv(c)
    BY <2>1, <2>3, <1>1, Dispatching
  <2> HIDE DEF c
  <2>5. QED
    BY <2>1, <2>2, <2>4, CpuStepInv
<1>3. CASE TestFlag
  <2>1. /\ todo = <<>> /\ cpu.pc = "irq" /\ cpu.intr \in 1 .. Len(Sources)
        /\ Len(cpu.frames) > 0 /\ step = "rmw"
    <3>1. todo = <<>> /\ cpu.pc = "irq" /\ cpu.intr <= Len(Sources)
      BY <1>3 DEF TestFlag, At
    <3>2. cpu.intr > 0 /\ Len(cpu.frames) > 0 /\ cpu.intr \in 0 .. Len(Sources) + 1
      BY <3>1, <1>1, FramesTyped DEF CpuInv
    <3>3. QED
      BY <3>1, <3>2, <1>n, <1>1 DEF TodoOK
  <2>2. CASE Sources[cpu.intr] \in InterruptFlags
    <3> DEFINE c == [cpu EXCEPT !.pc = "irq_serve"]
    <3>1. /\ InterruptFlags' = InterruptFlags \ {Sources[cpu.intr]}
          /\ CpuStep(c, <<>>) /\ owed' = owed
      BY <1>3, <2>2 DEF TestFlag
    <3>2. /\ c = [cpu EXCEPT !.pc = "irq_serve", !.intr = cpu.intr]
          /\ c.pc = "irq_serve" /\ c.intr = cpu.intr
      BY <1>1 DEF CPU
    <3>3. cpu.intr \in 1 .. Len(Sources) + 1 /\ cpu.intr <= Len(Sources)
      BY <2>1, <1>n
    <3>4. CpuInv([cpu EXCEPT !.pc = "irq_serve", !.intr = cpu.intr])
      BY <3>3, <2>1, <1>1, Dispatching
    <3>5. CpuInv(c)
      BY <3>2, <3>4, Zenon
    <3> HIDE DEF c
    <3>6. /\ cpu' = c /\ todo' = <<>>
          /\ UNCHANGED <<SMP, step, val, spcflags, cpufunctbl, thread, loaded>>
      BY <3>1 DEF CpuStep
    <3>7. TypeOK' /\ CpuInv(cpu)' /\ TodoOK'
      BY <3>1, <3>5, <3>6, <2>1, <1>1 DEF TypeOK, TodoOK, CpuInv
    <3>8. NothingForgotten'
      BY <3>1, <3>2, <3>6, <2>1, <1>1 DEF NothingForgotten
    <3>9. QED
      BY <3>7, <3>8 DEF IInv
  <2>3. CASE Sources[cpu.intr] \notin InterruptFlags
    <3> DEFINE c == [cpu EXCEPT !.intr = cpu.intr + 1]
    <3>1. Quietly(c, <<>>)
      BY <1>3, <2>3 DEF TestFlag
    <3>2. c = [cpu EXCEPT !.pc = "irq", !.intr = cpu.intr + 1]
      BY <2>1, <1>1 DEF CPU
    <3>3. cpu.intr + 1 \in 1 .. Len(Sources) + 1
      BY <2>1, <1>n
    <3>4. CpuInv([cpu EXCEPT !.pc = "irq", !.intr = cpu.intr + 1])
      BY <3>3, <2>1, <1>1, Dispatching
    <3>5. CpuInv(c)
      BY <3>2, <3>4, Zenon
    <3> HIDE DEF c
    <3>6. cpu.pc # "irq_serve"
      BY <2>1
    <3>7. QED
      BY <3>1, <3>5, <3>6, <2>1, CpuStepInv
  <2>4. QED
    BY <2>2, <2>3
<1>4. CASE Serve
  <2> DEFINE c == [cpu EXCEPT !.pc = "irq", !.intr = cpu.intr + 1]
  <2>1. /\ todo = <<>> /\ cpu.pc = "irq_serve" /\ step = "rmw"
        /\ InterruptFlags' = InterruptFlags /\ owed' = owed \ {Sources[cpu.intr]}
    BY <1>4, <1>1 DEF Serve, At, TodoOK
  <2>2. cpu.intr + 1 \in 1 .. Len(Sources) + 1 /\ Len(cpu.frames) > 0
    BY <2>1, <1>1, <1>n, FramesTyped DEF CpuInv
  <2>3. CpuStep(c, <<>>)
    BY <1>4 DEF Serve
  <2>4. CpuInv(c)
    BY <2>2, <1>1, Dispatching
  <2> HIDE DEF c
  <2>5. /\ cpu' = c /\ todo' = <<>>
        /\ UNCHANGED <<SMP, step, val, spcflags, cpufunctbl, thread, loaded>>
    BY <2>3 DEF CpuStep
  <2>6. TypeOK' /\ CpuInv(cpu)' /\ TodoOK'
    BY <2>1, <2>4, <2>5, <1>1 DEF TypeOK, TodoOK, CpuInv
  <2>7. NothingForgotten'
    BY <2>1, <2>5, <1>1 DEF NothingForgotten
  <2>8. QED
    BY <2>6, <2>7 DEF IInv
<1>5. CASE LeaveIRQ
  <2> DEFINE c == [cpu EXCEPT !.pc = "run", !.intr = 0,
                              !.frames = [cpu.frames EXCEPT ![Len(cpu.frames)].returns = TRUE]]
  <2>1. todo = <<>> /\ cpu.pc = "irq" /\ Len(cpu.frames) > 0
    BY <1>5, <1>1 DEF LeaveIRQ, At, CpuInv
  <2>2. Quietly(c, <<>>)
    BY <1>5 DEF LeaveIRQ, Depth
  <2>3. CpuInv(c)
    BY <2>1, <1>1, <1>p, FrameMarked
  <2> HIDE DEF c
  <2>4. cpu.pc # "irq_serve"
    BY <2>1
  <2>5. QED
    BY <2>1, <2>2, <2>3, <2>4, CpuStepInv
<1>6. CASE ReturnFromInterrupt
  <2> DEFINE c == [cpu EXCEPT !.pc = "run", !.intmask = cpu.frames[Len(cpu.frames)].mask,
                              !.frames = SubSeq(cpu.frames, 1, Len(cpu.frames) - 1)]
  <2>1. /\ todo = <<>> /\ cpu.pc # "irq_serve" /\ Len(cpu.frames) > 0
        /\ cpu.frames[Len(cpu.frames)].kind = "irq"
    BY <1>6 DEF ReturnFromInterrupt, Executes, At, InHandler, Top, Depth
  <2>2. Quietly(c, <<Or({"INT"}), ClearTrace>>)
    BY <1>6, Zenon DEF ReturnFromInterrupt, Top, Popped, Depth
  <2>3. CpuInv(c)
    BY <2>1, <1>1, FramePopped
  <2> HIDE DEF c
  <2>4. QED
    BY <2>1, <2>2, <2>3, CpuStepInv
<1>7. QED
  BY <1>2, <1>3, <1>4, <1>5, <1>6 DEF Handler

-----------------------------------------------------------------------------
(* The theorems.                                                           *)

LEMMA InitInv == Init => IInv
<1> SUFFICES ASSUME Init
             PROVE  IInv
  OBVIOUS
<1>1. Len(Sources) \in Nat
  BY InterruptsAssumption, LenProperties
<1>2. cpu \in CPU /\ Len(cpu.frames) = 0
  BY <1>1 DEF Init, CPU
<1>3. CpuInv(cpu)
  BY <1>2 DEF Init, CpuInv
<1>4. TypeOK
  BY <1>2 DEF Init, TypeOK
<1>5. TodoOK /\ NothingForgotten
  BY DEF Init, TodoOK, NothingForgotten
<1>6. QED
  BY <1>3, <1>4, <1>5 DEF IInv

\* The invariant holds in every state.
THEOREM Invariance == Spec => []IInv
<1>1. ASSUME IInv, UNCHANGED vars
      PROVE  IInv'
  <2>1. UNCHANGED <<SMP, InterruptFlags, owed, spcflags, cpufunctbl, thread, loaded,
                    cpu, todo, step, val>>
    BY <1>1 DEF vars
  <2>2. QED
    BY <1>1, <2>1 DEF IInv, TypeOK, CpuInv, TodoOK, NothingForgotten
<1>2. ASSUME IInv, Next
      PROVE  IInv'
  BY <1>2, ThreadStep, ChangeStep, SpecialtiesStep, ProgramStep, HandlerStep
     DEF Next, Threads, CpuThread
<1>3. QED
  BY <1>1, <1>2, InitInv, PTL DEF Spec

\* The variables keep their types.
THEOREM TypeCorrect == Spec => []TypeOK
<1>1. IInv => TypeOK
  BY DEF IInv
<1>2. QED
  BY <1>1, Invariance, PTL

\* No interrupt is forgotten: SetInterruptFlag() and EMUL_OP_IRQ use locked
\* instructions and the flag is cleared before the service routine starts, so
\* that lost updates of regs.spcflags can delay an interrupt, not drop it.
THEOREM NothingForgottenHolds == Spec => []NothingForgotten
<1>1. IInv => NothingForgotten
  BY DEF IInv
<1>2. QED
  BY <1>1, Invariance, PTL

\* The level 1 handler is never re-entered, in a STOP, in Execute68k() or after
\* either, whatever the order in which flags and mask change.
THEOREM OneHandlerHolds == Spec => []OneHandler
<1>1. IInv => OneHandler
  <2> SUFFICES ASSUME IInv, NEW j \in 1 .. Depth, NEW k \in 1 .. Depth,
                      cpu.frames[j].kind = "irq", cpu.frames[k].kind = "irq"
               PROVE  j = k
    BY DEF OneHandler
  <2>1. CpuInv(cpu) /\ Len(cpu.frames) \in {0, 1, 2}
    BY FramesTyped DEF IInv
  <2>2. Len(cpu.frames) = 2 => cpu.frames[1].kind = "emul_op"
    BY <2>1 DEF CpuInv
  <2>3. QED
    BY <2>1, <2>2 DEF Depth
<1>2. QED
  BY <1>1, Invariance, PTL

\* The program runs with the mask it has set, after any number of interrupts
\* and EMUL_OPs, interrupted ones among them.
THEOREM ProgramMaskKeptHolds == Spec => []ProgramMaskKept
<1>1. IInv => ProgramMaskKept
  <2>1. IInv /\ InProgram => CpuInv(cpu) /\ Len(cpu.frames) = 0
    BY FramesTyped DEF IInv, InProgram
  <2>2. QED
    BY <2>1 DEF ProgramMaskKept, CpuInv
<1>2. QED
  BY <1>1, Invariance, PTL

-----------------------------------------------------------------------------
(* ADB.                                                                    *)

USE ADBAssumption

\* The events that ADBInterrupt() may see: all but the one that is being stored.
Published == IF window = "key" THEN Len(typed) - 1 ELSE Len(typed)

InRing == Published - Len(received)

\* The slot d places after the one that is read next.
KeySlot(d) ==
  IF key_read_ptr + d < KEY_BUFFER_SIZE THEN key_read_ptr + d
                                        ELSE key_read_ptr + d - KEY_BUFFER_SIZE

\* The ring holds what has been typed and not yet been received, in order.
KeyRing ==
  /\ InRing \in 0 .. KEY_BUFFER_SIZE - 1
  /\ key_write_ptr = KeySlot(InRing)
  /\ \A d \in 0 .. KEY_BUFFER_SIZE - 1 : d < Len(typed) - Len(received) =>
        key_buffer[KeySlot(d)] = typed[Len(received) + d + 1]
  /\ \A i \in 1 .. Len(received) : received[i] = typed[i]
  /\ pc = "key" => InRing > 0

AdbInv ==
  /\ AdbTypeOK
  /\ window = "key" => typed # << >>
  /\ ~ overrun => KeyRing
-----------------------------------------------------------------------------
\* The slot after a slot, with the remainder written out.
LEMMA NextKeyValue ==
  ASSUME NEW k \in Slots
  PROVE  NextKey(k) \in Slots /\ NextKey(k) = IF k + 1 = KEY_BUFFER_SIZE THEN 0 ELSE k + 1
<1>1. CASE k + 1 = KEY_BUFFER_SIZE
  BY <1>1 DEF NextKey, Slots
<1>2. CASE k + 1 < KEY_BUFFER_SIZE
  BY <1>2 DEF NextKey, Slots
<1>3. QED
  BY <1>1, <1>2 DEF Slots

\* Different places of the ring are different slots.
LEMMA KeySlots ==
  ASSUME AdbTypeOK
  PROVE  /\ \A d \in 0 .. KEY_BUFFER_SIZE - 1 : KeySlot(d) \in Slots
         /\ \A d, e \in 0 .. KEY_BUFFER_SIZE - 1 : KeySlot(d) = KeySlot(e) => d = e
         /\ \A d \in 0 .. KEY_BUFFER_SIZE - 1 :
              NextKey(KeySlot(d)) = IF d + 1 = KEY_BUFFER_SIZE THEN key_read_ptr ELSE KeySlot(d + 1)
<1>1. key_read_ptr \in 0 .. KEY_BUFFER_SIZE - 1
  BY DEF AdbTypeOK, Slots
<1>2. \A d \in 0 .. KEY_BUFFER_SIZE - 1 : KeySlot(d) \in Slots
  BY <1>1 DEF KeySlot, Slots
<1>3. \A d, e \in 0 .. KEY_BUFFER_SIZE - 1 : KeySlot(d) = KeySlot(e) => d = e
  BY <1>1 DEF KeySlot
<1>4. ASSUME NEW d \in 0 .. KEY_BUFFER_SIZE - 1
      PROVE  NextKey(KeySlot(d)) = IF d + 1 = KEY_BUFFER_SIZE THEN key_read_ptr ELSE KeySlot(d + 1)
  <2>1. NextKey(KeySlot(d)) = IF KeySlot(d) + 1 = KEY_BUFFER_SIZE THEN 0 ELSE KeySlot(d) + 1
    BY <1>2, NextKeyValue
  <2>2. QED
    BY <1>1, <2>1 DEF KeySlot
<1>5. QED
  BY <1>2, <1>3, <1>4

\* Lengths are numbers, and the ring holds no more than its slots but one.
LEMMA KeyCounts ==
  ASSUME AdbInv
  PROVE  /\ Len(typed) \in Nat /\ Len(received) \in Nat
         /\ Published \in Nat
BY EmptySeq DEF AdbInv, AdbTypeOK, Published

\* A step that leaves the ring and what is told of it alone keeps it.
LEMMA RingKept ==
  ASSUME AdbInv, UNCHANGED <<window, typed, overrun, key_buffer, key_read_ptr, key_write_ptr, received>>,
         pc' = "key" => pc = "key"
  PROVE  ~ overrun' => KeyRing'
BY DEF AdbInv, KeyRing, InRing, Published, KeySlot

\* The window thread stores an event in the slot behind the last one.
LEMMA StoreKeyRing ==
  ASSUME AdbInv, NEW e \in KeyEvent, StoreKey(e)
  PROVE  ~ overrun' => KeyRing'
<1> SUFFICES ASSUME ~ overrun
             PROVE  KeyRing'
  BY DEF StoreKey
<1>1. AdbTypeOK /\ KeyRing
  BY DEF AdbInv
<1>2. /\ window = "ready" /\ window' = "key"
      /\ key_buffer' = [key_buffer EXCEPT ![key_write_ptr] = e]
      /\ typed' = Append(typed, e)
      /\ UNCHANGED <<key_read_ptr, key_write_ptr, received, pc>>
  BY DEF StoreKey, keyboard, interrupt, mac
<1>3. /\ Len(typed') = Len(typed) + 1 /\ typed'[Len(typed) + 1] = e
      /\ \A i \in 1 .. Len(typed) : typed'[i] = typed[i]
  BY <1>1, <1>2, AppendProperties DEF AdbTypeOK
<1>4. Len(typed) \in Nat /\ Len(received) \in Nat
  BY <1>1 DEF AdbTypeOK
<1>5. InRing = Len(typed) - Len(received) /\ InRing' = InRing
  BY <1>2, <1>3, <1>4 DEF InRing, Published
<1>6. \A d : KeySlot(d)' = KeySlot(d)
  BY <1>2 DEF KeySlot
<1>7. /\ InRing \in 0 .. KEY_BUFFER_SIZE - 1 /\ key_write_ptr = KeySlot(InRing)
      /\ \A d \in 0 .. KEY_BUFFER_SIZE - 1 : d < Len(typed) - Len(received) =>
           key_buffer[KeySlot(d)] = typed[Len(received) + d + 1]
      /\ \A i \in 1 .. Len(received) : received[i] = typed[i]
      /\ pc = "key" => InRing > 0
  BY <1>1 DEF KeyRing
<1>8. ASSUME NEW d \in 0 .. KEY_BUFFER_SIZE - 1, d < Len(typed') - Len(received')
      PROVE  key_buffer'[KeySlot(d)'] = typed'[Len(received') + d + 1]
  <2>1. KeySlot(d) \in Slots
    BY <1>1, KeySlots
  <2>2. CASE d = InRing
    BY <2>1, <2>2, <1>1, <1>2, <1>3, <1>4, <1>5, <1>6, <1>7 DEF AdbTypeOK
  <2>3. CASE d < InRing
    <3>1. KeySlot(d) # key_write_ptr
      BY <2>3, <1>1, <1>7, KeySlots
    <3>2. key_buffer'[KeySlot(d)] = typed[Len(received) + d + 1]
      BY <3>1, <2>1, <2>3, <1>1, <1>2, <1>5, <1>7 DEF AdbTypeOK
    <3>3. QED
      BY <3>2, <2>3, <1>2, <1>3, <1>4, <1>5, <1>6
  <2>4. QED
    BY <2>2, <2>3, <1>2, <1>3, <1>4, <1>5, <1>7, <1>8
<1>9. \A i \in 1 .. Len(received') : received'[i] = typed'[i]
  BY <1>2, <1>3, <1>4, <1>5, <1>7
<1>10. QED
  BY <1>2, <1>5, <1>6, <1>7, <1>8, <1>9 DEF KeyRing

\* It moves key_write_ptr; the ring that was full looks empty then.
LEMMA PublishKeyRing ==
  ASSUME AdbInv, PublishKey
  PROVE  ~ overrun' => KeyRing'
<1> SUFFICES ASSUME ~ overrun'
             PROVE  KeyRing'
  OBVIOUS
<1>1. /\ window = "key" /\ window' = "ready"
      /\ key_write_ptr' = NextKey(key_write_ptr) /\ key_write_ptr' # key_read_ptr /\ ~ overrun
      /\ UNCHANGED <<typed, key_buffer, key_read_ptr, received, pc>>
  BY DEF PublishKey, interrupt, mac
<1>2. AdbTypeOK /\ KeyRing /\ typed # << >>
  BY <1>1 DEF AdbInv
<1>3. Len(typed) \in Nat /\ Len(received) \in Nat
  BY <1>2 DEF AdbTypeOK
<1>4. InRing = Len(typed) - 1 - Len(received) /\ InRing' = InRing + 1
  BY <1>1, <1>3 DEF InRing, Published
<1>5. InRing \in 0 .. KEY_BUFFER_SIZE - 1 /\ key_write_ptr = KeySlot(InRing)
  BY <1>2 DEF KeyRing
<1>6. InRing + 1 # KEY_BUFFER_SIZE /\ key_write_ptr' = KeySlot(InRing + 1)
  BY <1>1, <1>2, <1>5, KeySlots
<1>7. \A d : KeySlot(d)' = KeySlot(d)
  BY <1>1 DEF KeySlot
<1>8. KeySlot(InRing)' = KeySlot(InRing + 1)
  BY <1>1, <1>4 DEF KeySlot
<1>9. QED
  BY <1>1, <1>2, <1>4, <1>5, <1>6, <1>7, <1>8 DEF KeyRing

\* ADBInterrupt() takes the oldest event.
LEMMA ReportKeyRing ==
  ASSUME AdbInv, ReportKey
  PROVE  ~ overrun' => KeyRing'
<1> SUFFICES ASSUME ~ overrun'
             PROVE  KeyRing'
  OBVIOUS
<1>1. /\ pc = "key" /\ pc' = "keys" /\ key_read_ptr' = NextKey(key_read_ptr) /\ ~ overrun
      /\ received' = Append(received, key_buffer[key_read_ptr])
      /\ UNCHANGED <<window, typed, key_buffer, key_write_ptr>>
  BY DEF ReportKey, userState
<1>2. AdbTypeOK /\ KeyRing
  BY <1>1 DEF AdbInv
<1>3. Len(typed) \in Nat /\ Len(received) \in Nat /\ Published \in Int /\ Published <= Len(typed)
  BY <1>2 DEF AdbTypeOK, Published
<1>4. /\ Len(received') = Len(received) + 1
      /\ received'[Len(received) + 1] = key_buffer[key_read_ptr]
      /\ \A i \in 1 .. Len(received) : received'[i] = received[i]
  BY <1>1, <1>2, AppendProperties DEF AdbTypeOK
<1>5. InRing' = InRing - 1 /\ InRing = Published - Len(received)
  BY <1>1, <1>3, <1>4 DEF InRing, Published
<1>6. InRing \in 1 .. KEY_BUFFER_SIZE - 1 /\ key_write_ptr = KeySlot(InRing)
  BY <1>1, <1>2 DEF KeyRing
<1>7. key_read_ptr \in Slots /\ key_read_ptr' = IF key_read_ptr + 1 = KEY_BUFFER_SIZE THEN 0 ELSE key_read_ptr + 1
  BY <1>1, <1>2, NextKeyValue DEF AdbTypeOK
<1>8. \A d \in 0 .. KEY_BUFFER_SIZE - 2 : KeySlot(d)' = KeySlot(d + 1)
  BY <1>7 DEF KeySlot, Slots
<1>9. KeySlot(InRing)' = KeySlot(InRing)
  <2>1. KeySlot(InRing)' = (IF key_read_ptr' + InRing' < KEY_BUFFER_SIZE THEN key_read_ptr' + InRing'
                                        ELSE key_read_ptr' + InRing' - KEY_BUFFER_SIZE)
    BY DEF KeySlot
  <2>2. QED
    BY <2>1, <1>5, <1>6, <1>7 DEF KeySlot, Slots
<1>10. ASSUME NEW d \in 0 .. KEY_BUFFER_SIZE - 1, d < Len(typed') - Len(received')
       PROVE  key_buffer'[KeySlot(d)'] = typed'[Len(received') + d + 1]
  <2>1. CASE d + 1 < KEY_BUFFER_SIZE
    <3>1. d + 1 < Len(typed) - Len(received) /\ d \in 0 .. KEY_BUFFER_SIZE - 2
      BY <2>1, <1>1, <1>3, <1>4, <1>10
    <3>2. key_buffer[KeySlot(d + 1)] = typed[Len(received) + (d + 1) + 1]
      BY <3>1, <2>1, <1>2 DEF KeyRing
    <3>3. QED
      BY <3>1, <3>2, <1>1, <1>3, <1>4, <1>8
  <2>2. CASE d + 1 = KEY_BUFFER_SIZE
    \* No more than one event is being stored.
    BY <2>2, <1>1, <1>3, <1>4, <1>5, <1>6, <1>10 DEF Published
  <2>3. QED
    BY <2>1, <2>2
<1>11. ASSUME NEW i \in 1 .. Len(received')
       PROVE  received'[i] = typed'[i]
  <2>1. CASE i \in 1 .. Len(received)
    BY <2>1, <1>1, <1>2, <1>4 DEF KeyRing
  <2>2. CASE i = Len(received) + 1
    <3>1. KeySlot(0) = key_read_ptr
      BY <1>7 DEF KeySlot, Slots
    <3>2. key_buffer[KeySlot(0)] = typed[Len(received) + 0 + 1]
      BY <1>2, <1>3, <1>5, <1>6 DEF KeyRing
    <3>3. QED
      BY <3>1, <3>2, <2>2, <1>1, <1>3, <1>4
  <2>3. QED
    BY <2>1, <2>2, <1>3, <1>4
<1>12. QED
  BY <1>1, <1>5, <1>6, <1>9, <1>10, <1>11 DEF KeyRing

\* It finds the ring empty, or with an event to report.
LEMMA TestKeysRing ==
  ASSUME AdbInv, TestKeys
  PROVE  ~ overrun' => KeyRing'
<1> SUFFICES ASSUME ~ overrun
             PROVE  KeyRing'
  BY DEF TestKeys, userState
<1>1. /\ pc' = (IF key_read_ptr = key_write_ptr THEN "idle" ELSE "key")
      /\ UNCHANGED <<window, typed, key_buffer, key_read_ptr, key_write_ptr, received>>
  BY DEF TestKeys, userState, keyboard, mac
<1>2. AdbTypeOK /\ KeyRing
  BY DEF AdbInv
<1>3. key_write_ptr = KeySlot(InRing) /\ InRing \in 0 .. KEY_BUFFER_SIZE - 1
  BY <1>2 DEF KeyRing
<1>4. pc' = "key" => InRing > 0
  BY <1>1, <1>2, <1>3 DEF KeySlot, AdbTypeOK, Slots
<1>5. InRing' = InRing /\ \A d : KeySlot(d)' = KeySlot(d)
  BY <1>1 DEF InRing, Published, KeySlot
<1>6. QED
  BY <1>1, <1>2, <1>3, <1>4, <1>5 DEF KeyRing

\* Every step keeps the types.
LEMMA AdbTypes ==
  ASSUME AdbInv, [AdbNext]_adbVars
  PROVE  AdbTypeOK'
<1>1. ASSUME NEW e \in KeyEvent, StoreKey(e)
      PROVE  AdbTypeOK'
  BY <1>1, NextKeyValue DEF AdbInv, AdbTypeOK, StoreKey, mouse, interrupt, old, mac
<1>2. CASE PublishKey
  <2>1. AdbTypeOK /\ typed # << >> /\ window = "key"
    BY <1>2 DEF AdbInv, PublishKey
  <2>2. typed[Len(typed)] \in KeyEvent
    BY <2>1, ElementOfSeq, EmptySeq, LenProperties DEF AdbTypeOK
  <2>3. key_states' \subseteq Codes
    BY <1>2, <2>1, <2>2 DEF AdbTypeOK, PublishKey, KeyEvent
  <2>4. overrun' \in BOOLEAN
    BY <1>2, <2>1 DEF AdbTypeOK, PublishKey
  <2>5. key_write_ptr' \in Slots
    BY <1>2, <2>1, NextKeyValue DEF AdbTypeOK, PublishKey
  <2>6. window' = "ready"
    BY <1>2 DEF PublishKey
  <2>7. UNCHANGED <<ticker, todo_y, events, typed, moved, mouse, key_buffer, key_read_ptr,
                    interrupt, old, mac>>
    BY <1>2 DEF PublishKey
  <2>8. QED
    BY <2>1, <2>3, <2>4, <2>5, <2>6, <2>7 DEF AdbTypeOK, mouse, interrupt, old, mac
<1>3. ASSUME NEW b \in Buttons, Click(b)
      PROVE  AdbTypeOK'
  BY <1>3, NextKeyValue DEF AdbInv, AdbTypeOK, Click, keyboard, interrupt, old, mac,
     ADBInterrupt, ReadX, Clamp, userState, mouse, ReadY, Movement, Position, FirstButton,
     MouseHandler, MouseDone, TestKeys, ReportKey
<1>4. ASSUME NEW x \in Points, NEW y \in Points, MoveX(x, y)
      PROVE  AdbTypeOK'
  <2>1. AdbTypeOK
    BY DEF AdbInv
  <2>2. x \in Int /\ y \in Int
    OBVIOUS
  <2>3. moved' \in Int \X Int
    <3>1. moved[1] \in Int /\ moved[2] \in Int
      BY <2>1 DEF AdbTypeOK
    <3>2. CASE relative_mouse
      BY <1>4, <2>2, <3>1, <3>2 DEF MoveX
    <3>3. CASE ~ relative_mouse
      BY <1>4, <2>2, <3>3 DEF MoveX
    <3>4. QED
      BY <3>2, <3>3
  <2>4. mouse_x' \in Int /\ mouse_x \in Int
    BY <1>4, <2>1, <2>2 DEF AdbTypeOK, MoveX
  <2>5. /\ ticker' = "move" /\ events' \in 0 .. MaxEvents /\ todo_y' \in Int
    BY <1>4, <2>1, <2>2 DEF AdbTypeOK, MoveX
  <2>6. UNCHANGED <<window, typed, overrun, relative_mouse, mouse_y, mouse_button, keyboard,
                    interrupt, old, mac>>
    BY <1>4 DEF MoveX
  <2>7. QED
    BY <2>1, <2>3, <2>4, <2>5, <2>6 DEF AdbTypeOK, keyboard, interrupt, old, mac
<1>5. CASE MoveY
  <2>1. AdbTypeOK
    BY DEF AdbInv
  <2>2. mouse_y \in Int /\ todo_y \in Int
    BY <2>1 DEF AdbTypeOK
  <2>3. mouse_y' \in Int /\ ticker' = "ready" /\ todo_y' = 0
    BY <1>5, <2>2 DEF MoveY
  <2>4. UNCHANGED <<window, events, typed, overrun, moved, relative_mouse, mouse_x,
                    mouse_button, keyboard, interrupt, old, mac>>
    BY <1>5 DEF MoveY
  <2>5. QED
    BY <2>1, <2>3, <2>4 DEF AdbTypeOK, keyboard, interrupt, old, mac
<1>6. CASE InitADB
  BY <1>6, NextKeyValue DEF AdbInv, AdbTypeOK, InitADB, userState, mouse, keyboard, old, mac
<1>7. CASE ReadX
  BY <1>7, NextKeyValue DEF AdbInv, AdbTypeOK, ReadX, Clamp, userState, mouse, keyboard, old,
     mac
<1>8. CASE ReadY
  BY <1>8, NextKeyValue DEF AdbInv, AdbTypeOK, ReadY, mouse, Clamp, userState, keyboard, old,
     mac
<1>9. CASE Movement
  BY <1>9, NextKeyValue DEF AdbInv, AdbTypeOK, Movement, mouse, userState, keyboard, old, mac
<1>10. CASE Position
  <2>1. AdbTypeOK
    BY DEF AdbInv
  <2>2. {mx, my, old_mouse_x, old_mouse_y, mac_x, mac_y} \subseteq Int
    BY <2>1 DEF AdbTypeOK
  <2>3. mac_x' \in Int /\ mac_y' \in Int /\ old_mouse_x' \in Int /\ old_mouse_y' \in Int
    BY <1>10, <2>2 DEF Position
  <2>4. pc' = "buttons"
    BY <1>10 DEF Position
  <2>5. UNCHANGED <<userState, mouse, keyboard, adb_base, mx, my, old_mouse_button, mac_button,
                    received>>
    BY <1>10 DEF Position
  <2>6. QED
    BY <2>1, <2>3, <2>4, <2>5 DEF AdbTypeOK, userState, mouse, keyboard
<1>11. CASE FirstButton
  BY <1>11, NextKeyValue DEF AdbInv, AdbTypeOK, FirstButton, userState, mouse, keyboard, old,
     mac
<1>12. CASE MouseHandler
  <2>1. AdbTypeOK
    BY DEF AdbInv
  <2>2. {mx, my, mac_x, mac_y} \subseteq Int
    BY <2>1 DEF AdbTypeOK
  <2>3. mac_x' \in Int /\ mac_y' \in Int
    BY <1>12, <2>2 DEF MouseHandler
  <2>4. pc' = "mouse_done" /\ mac_button' = mouse_button
    BY <1>12 DEF MouseHandler
  <2>5. UNCHANGED <<userState, mouse, keyboard, adb_base, mx, my, old, received>>
    BY <1>12 DEF MouseHandler
  <2>6. QED
    BY <2>1, <2>3, <2>4, <2>5 DEF AdbTypeOK, userState, mouse, keyboard, old
<1>13. CASE MouseDone
  <2>1. AdbTypeOK
    BY DEF AdbInv
  <2>2. {mouse_x', mouse_y'} \subseteq Int
    BY <1>13, <2>1 DEF AdbTypeOK, MouseDone
  <2>3. pc' = "keys" /\ old_mouse_button' = mouse_button
    BY <1>13 DEF MouseDone
  <2>4. UNCHANGED <<userState, relative_mouse, mouse_button, keyboard, adb_base, mx, my,
                    old_mouse_x, old_mouse_y, mac>>
    BY <1>13 DEF MouseDone
  <2>5. QED
    BY <2>1, <2>2, <2>3, <2>4 DEF AdbTypeOK, userState, keyboard, mac
<1>14. CASE TestKeys
  BY <1>14, NextKeyValue DEF AdbInv, AdbTypeOK, TestKeys, userState, mouse, keyboard, old, mac
<1>15. CASE ReportKey
  <2>1. AdbTypeOK
    BY DEF AdbInv
  <2>2. received' \in Seq(KeyEvent)
    BY <1>15, <2>1, AppendProperties DEF AdbTypeOK, ReportKey
  <2>3. key_read_ptr' \in Slots /\ pc' = "keys"
    BY <1>15, <2>1, NextKeyValue DEF AdbTypeOK, ReportKey
  <2>4. UNCHANGED <<userState, mouse, key_buffer, key_write_ptr, key_states, adb_base, mx, my,
                    old, mac_x, mac_y, mac_button>>
    BY <1>15 DEF ReportKey
  <2>5. QED
    BY <2>1, <2>2, <2>3, <2>4 DEF AdbTypeOK, userState, mouse, old
<1>16. CASE UNCHANGED adbVars
  BY <1>16, NextKeyValue DEF adbVars, userState, mouse, keyboard, interrupt, old, mac, AdbInv,
     AdbTypeOK
<1>17. QED
  BY <1>1, <1>2, <1>3, <1>4, <1>5, <1>6, <1>7, <1>8, <1>9, <1>10, <1>11, <1>12, <1>13,
     <1>14, <1>15, <1>16 DEF AdbNext, Window, Ticker, ADBInterrupt

\* Every step keeps the ring.
LEMMA AdbRing ==
  ASSUME AdbInv, [AdbNext]_adbVars
  PROVE  ~ overrun' => KeyRing'
<1>1. ASSUME NEW e \in KeyEvent, StoreKey(e)
      PROVE  ~ overrun' => KeyRing'
  BY <1>1, StoreKeyRing
<1>2. CASE PublishKey
  BY <1>2, PublishKeyRing
<1>3. ASSUME NEW b \in Buttons, Click(b)
      PROVE  ~ overrun' => KeyRing'
  BY <1>3, RingKept DEF AdbInv, Click, keyboard, interrupt, old, mac, ADBInterrupt, ReadX,
     Clamp, userState, mouse, ReadY, Movement, Position, FirstButton, MouseHandler,
     MouseDone, TestKeys, ReportKey
<1>4. ASSUME NEW x \in Points, NEW y \in Points, MoveX(x, y)
      PROVE  ~ overrun' => KeyRing'
  BY <1>4, RingKept DEF AdbInv, MoveX, keyboard, interrupt, old, mac
<1>5. CASE MoveY
  BY <1>5, RingKept DEF AdbInv, MoveY, keyboard, interrupt, old, mac
<1>6. CASE InitADB
  BY <1>6, RingKept DEF AdbInv, InitADB, userState, mouse, keyboard, old, mac
<1>7. CASE ReadX
  BY <1>7, RingKept DEF AdbInv, ReadX, Clamp, userState, mouse, keyboard, old, mac
<1>8. CASE ReadY
  BY <1>8, RingKept DEF AdbInv, ReadY, mouse, Clamp, userState, keyboard, old, mac
<1>9. CASE Movement
  BY <1>9, RingKept DEF AdbInv, Movement, mouse, userState, keyboard, old, mac
<1>10. CASE Position
  BY <1>10, RingKept DEF AdbInv, Position, mouse, userState, keyboard
<1>11. CASE FirstButton
  BY <1>11, RingKept DEF AdbInv, FirstButton, userState, mouse, keyboard, old, mac
<1>12. CASE MouseHandler
  BY <1>12, RingKept DEF AdbInv, MouseHandler, userState, mouse, keyboard, old
<1>13. CASE MouseDone
  BY <1>13, RingKept DEF AdbInv, MouseDone, userState, keyboard, mac
<1>14. CASE TestKeys
  BY <1>14, TestKeysRing
<1>15. CASE ReportKey
  BY <1>15, ReportKeyRing
<1>16. CASE UNCHANGED adbVars
  BY <1>16, RingKept DEF adbVars, userState, mouse, keyboard, interrupt, old, mac, AdbInv
<1>17. QED
  BY <1>1, <1>2, <1>3, <1>4, <1>5, <1>6, <1>7, <1>8, <1>9, <1>10, <1>11, <1>12, <1>13,
     <1>14, <1>15, <1>16 DEF AdbNext, Window, Ticker, ADBInterrupt

\* An event that is being stored has been typed.
LEMMA AdbTyped ==
  ASSUME AdbInv, [AdbNext]_adbVars
  PROVE  window' = "key" => typed' # << >>
<1>1. ASSUME NEW e \in KeyEvent, StoreKey(e)
      PROVE  typed' # << >>
  <2>1. typed \in Seq(KeyEvent) /\ typed' = Append(typed, e)
    BY <1>1 DEF AdbInv, AdbTypeOK, StoreKey
  <2>2. Len(typed') = Len(typed) + 1 /\ Len(typed) \in Nat
    BY <2>1, AppendProperties
  <2>3. QED
    BY <2>2, EmptySeq
<1>2. CASE PublishKey
  BY <1>2 DEF PublishKey
<1>3. CASE UNCHANGED <<window, typed>>
  BY <1>3 DEF AdbInv
<1>4. QED
  BY <1>1, <1>2, <1>3 DEF AdbNext, Window, Ticker, ADBInterrupt, Click, MoveX, MoveY, InitADB,
     ReadX, ReadY, Movement, Position, FirstButton, MouseHandler, MouseDone, TestKeys, ReportKey,
     adbVars, userState

-----------------------------------------------------------------------------
\* The invariant holds at first.
LEMMA AdbEstablished == AdbInit => AdbInv
<1> SUFFICES ASSUME AdbInit
             PROVE  AdbInv
  OBVIOUS
<1>1. AdbTypeOK
  <2>1. /\ typed \in Seq(KeyEvent) /\ received \in Seq(KeyEvent) /\ moved \in Int \X Int
    BY DEF AdbInit
  <2>2. /\ key_buffer \in [Slots -> KeyEvent] /\ key_read_ptr \in Slots /\ key_write_ptr \in Slots
    BY DEF AdbInit, KeyEvent, Slots
  <2>3. {overrun, relative_mouse} \subseteq BOOLEAN /\ adb_base \in BOOLEAN
    BY Zenon DEF AdbInit
  <2>4. QED
    BY <2>1, <2>2, <2>3 DEF AdbInit, AdbTypeOK
<1>2. window # "key" /\ pc # "key"
  BY DEF AdbInit
<1>3. KeyRing
  BY EmptySeq DEF AdbInit, KeyRing, KeySlot, InRing, Published
<1>4. QED
  BY <1>1, <1>2, <1>3 DEF AdbInv

\* The inductive invariant holds in every state: as long as the ring has never been
\* full, it holds the events between the two pointers in the order they came in.
THEOREM AdbInvariance == AdbSpec => []AdbInv
<1>1. AdbInv /\ [AdbNext]_adbVars => AdbInv'
  BY AdbTypes, AdbRing, AdbTyped DEF AdbInv
<1>2. QED
  BY AdbEstablished, <1>1, PTL DEF AdbSpec

\* The pointers of key_buffer, the buttons and the positions keep their types.
THEOREM AdbTypeCorrect == AdbSpec => []AdbTypeOK
<1>1. AdbInv => AdbTypeOK
  BY DEF AdbInv
<1>2. QED
  BY AdbInvariance, <1>1, PTL

\* ADBInterrupt() gives the Mac the key events in the order in which the window
\* thread stored them, none of them changed, lost or given twice, up to the first
\* event that finds the ring full.
THEOREM KeysInOrderHolds == AdbSpec => []KeysInOrder
<1>1. ASSUME AdbInv
      PROVE  KeysInOrder
  <2> SUFFICES ASSUME ~ overrun
               PROVE  received = SubSeq(typed, 1, Len(received))
    BY DEF KeysInOrder
  <2>1. typed \in Seq(KeyEvent) /\ received \in Seq(KeyEvent) /\ KeyRing
    BY <1>1 DEF AdbInv, AdbTypeOK
  <2>2. Len(received) <= Len(typed) /\ Len(received) \in Nat /\ Len(typed) \in Nat
    BY <2>1 DEF KeyRing, InRing, Published
  <2>3. /\ SubSeq(typed, 1, Len(received)) \in Seq(KeyEvent)
        /\ Len(SubSeq(typed, 1, Len(received))) = Len(received)
        /\ \A i \in 1 .. Len(received) : SubSeq(typed, 1, Len(received))[i] = typed[i]
    BY <2>1, <2>2, SubSeqProperties
  <2>4. \A i \in 1 .. Len(received) : received[i] = SubSeq(typed, 1, Len(received))[i]
    BY <2>1, <2>3 DEF KeyRing
  <2>5. QED
    BY <2>1, <2>3, <2>4, SeqEqual
<1>2. QED
  BY AdbInvariance, <1>1, PTL
=============================================================================
