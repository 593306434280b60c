------------------------------- MODULE Serial -------------------------------
(***************************************************************************)
(* One serial port (src/src/serial.cpp and Windows/serial_windows.cpp).    *)
(* Prime hands a request to the thread of its direction and returns "in    *)
(* progress"; the thread does the blocking I/O, marks the request done and *)
(* raises the serial interrupt; the interrupt enqueues the deferred task   *)
(* that calls IODone.  KillIO, close and a later open run on the MacOS     *)
(* thread while an I/O thread can be anywhere.                             *)
(*                                                                         *)
(* The Device Manager is outside: it calls Prime for one request of a      *)
(* direction at a time, and forgets the requests KillIO stopped.           *)
(***************************************************************************)
EXTENDS Integers, FiniteSets

CONSTANTS
  Sides,       \* the directions, "in" and "out" (one of them in small runs)
  MaxOpens,    \* bound on the number of opens
  MaxPrimes    \* bound on the number of requests

ASSUME SerialAssumption == MaxOpens \in Nat \ {0} /\ MaxPrimes \in Nat

VARIABLES
  is_serial,    \* the device is a COM port, not LPT or FILE; never changes
  mac,          \* where the MacOS thread is
  is_open, io_killed, quitting,
  pending, done,  \* read_pending and write_pending, read_done and write_done
  pb,           \* input_pb and output_pb: the request a thread is to execute
  session,      \* number of opens so far: input_signal and output_signal are
                \* the semaphores of the last one
  signalled,    \* the counts of all semaphores
  closed,       \* the handles input_signal and output_signal are closed
  threads,      \* the I/O threads of every open
  SERIAL,       \* INTFLAG_SERIAL
  outstanding,  \* the request the Device Manager waits for, or 0
  transferred,  \* history: the last request whose I/O has ended
  crossed       \* history: the last request was handed over while a thread was
                \* at an earlier one, or a thread of an earlier open was left

port == <<is_serial, mac, is_open, io_killed, quitting, session, closed>>
requests == <<pending, done, pb, SERIAL>>
history == <<outstanding, transferred, crossed>>
serialVars == <<port, requests, history, signalled, threads>>

Sessions == 1 .. MaxOpens
Requests == 1 .. MaxPrimes
Zero == [s \in Sides |-> 0]
No == [s \in Sides |-> FALSE]

ThreadPCs == {"none", "loop", "wait", "woken", "io", "check", "abort", "complete", "ended"}

SerialInit ==
  /\ is_serial \in BOOLEAN
  /\ mac = "run" /\ is_open = FALSE /\ io_killed = FALSE /\ quitting = FALSE
  /\ pending = No /\ done = No /\ pb = Zero /\ SERIAL = FALSE
  /\ session = 0 /\ closed = TRUE
  /\ signalled = [s \in Sides |-> [n \in Sessions |-> 0]]
  /\ threads = [s \in Sides |-> [n \in Sessions |-> [pc |-> "none", on |-> 0, req |-> 0]]]
  /\ outstanding = Zero /\ transferred = Zero /\ crossed = No

\* ReleaseSemaphore() on a semaphore whose maximum is 1.
Released(count) == 1

\* The requests so far are numbered from 1, by direction.
LastRequest(s) == pb[s]

-----------------------------------------------------------------------------
(* SerialOpen(): clears the flags, opens the device, starts the threads,   *)
(* and allocates the deferred tasks in Mac memory, which runs 68k code.    *)

\* What the first open has left is taken for a request of the second.
MutOpenStartKeepsFlags ==
  /\ mac = "run" /\ ~ is_open /\ session < MaxOpens
  /\ mac' = "open"
  /\ io_killed' = FALSE /\ quitting' = FALSE
  /\ UNCHANGED <<is_serial, is_open, session, closed, requests, history, signalled, threads>>

\* The threads of the second open end at once.
MutOpenStartKeepsQuitting ==
  /\ mac = "run" /\ ~ is_open /\ session < MaxOpens
  /\ mac' = "open"
  /\ pending' = No /\ done' = No
  /\ io_killed' = FALSE
  /\ UNCHANGED <<is_serial, is_open, quitting, session, closed, pb, SERIAL, history, signalled,
                 threads>>

OpenStart ==
  /\ mac = "run" /\ ~ is_open /\ session < MaxOpens
  /\ mac' = "open"
  /\ pending' = No /\ done' = No
  /\ io_killed' = FALSE /\ quitting' = FALSE
  /\ UNCHANGED <<is_serial, is_open, session, closed, pb, SERIAL, history, signalled, threads>>

OpenFails ==
  /\ mac = "open"
  /\ mac' = "run"
  /\ UNCHANGED <<is_serial, is_open, io_killed, quitting, session, closed, requests,
                 history, signalled, threads>>

OpenThreads ==
  /\ mac = "open"
  /\ mac' = "alloc"
  /\ session' = session + 1
  /\ closed' = FALSE
  /\ threads' = [s \in Sides |-> [threads[s] EXCEPT ![session + 1].pc = "loop"]]
  /\ UNCHANGED <<is_serial, is_open, io_killed, quitting, requests, history, signalled>>

OpenDone ==
  /\ mac = "alloc"
  /\ mac' = "run" /\ is_open' = TRUE
  /\ UNCHANGED <<is_serial, io_killed, quitting, session, closed, requests, history,
                 signalled, threads>>

\* XSERDPort::close(): releases the semaphores and closes their handles, and
\* does not wait for the threads.
ClosePort ==
  /\ quitting' = TRUE
  /\ closed' = TRUE
  /\ signalled' = [s \in Sides |-> [signalled[s] EXCEPT ![session] = Released(@)]]
  /\ UNCHANGED <<is_serial, io_killed, session, requests, history, threads>>

AllocFails ==
  /\ mac = "alloc"
  /\ ClosePort
  /\ mac' = "run" /\ UNCHANGED is_open

\* SerialClose(): the port stays open while DisposePtr() runs 68k code.  The
\* Device Manager waits for the output side, whose driver closes the port.
CloseStart ==
  /\ mac = "run" /\ is_open
  /\ \A s \in Sides \intersect {"out"} : outstanding[s] = 0
  /\ ClosePort
  /\ mac' = "free" /\ UNCHANGED is_open

CloseDone ==
  /\ mac = "free"
  /\ mac' = "run" /\ is_open' = FALSE
  /\ outstanding' = Zero
  /\ UNCHANGED <<is_serial, io_killed, quitting, session, closed, requests, transferred,
                 crossed, signalled, threads>>

-----------------------------------------------------------------------------
(* SerialPrime(), and prime_in() or prime_out().                           *)

\* "FATAL: called while request is pending": the request fails at once.
PrimeRefused(s) == is_open /\ pending[s]

\* A command of s is signalled to the threads, or executed by one of them.
UnderWay(s) ==
  \/ signalled[s][session] = 1
  \/ \E n \in Sessions : threads[s][n].pc \in {"woken", "io", "check", "abort", "complete"}

\* A thread of s has outlived the open that started it.
LeftOver(s) == \E n \in 1 .. session - 1 : threads[s][n].pc # "ended"

Prime(s) ==
  /\ mac = "run" /\ is_open /\ outstanding[s] = 0
  /\ ~ PrimeRefused(s) /\ LastRequest(s) < MaxPrimes
  /\ done' = [done EXCEPT ![s] = FALSE]
  /\ pending' = [pending EXCEPT ![s] = TRUE]
  /\ pb' = [pb EXCEPT ![s] = @ + 1]
  /\ signalled' = [signalled EXCEPT ![s][session] = Released(@)]
  /\ outstanding' = [outstanding EXCEPT ![s] = LastRequest(s) + 1]
  /\ crossed' = [crossed EXCEPT ![s] = UnderWay(s) \/ LeftOver(s)]
  /\ UNCHANGED <<port, SERIAL, transferred, threads>>

-----------------------------------------------------------------------------
(* KillIO: XSERDPort::control(1).                                          *)

KillStart ==
  /\ mac = "run" /\ is_open
  /\ mac' = "kill" /\ io_killed' = TRUE
  /\ UNCHANGED <<is_serial, is_open, quitting, session, closed, requests, history,
                 signalled, threads>>

\* The wait ends when nothing is pending, or after a second: the I/O that is
\* under way then goes on, and its thread finds io_killed cleared.
KillEnd ==
  /\ mac = "kill"
  /\ mac' = "run" /\ io_killed' = FALSE
  /\ pending' = IF is_serial THEN No ELSE pending
  /\ outstanding' = Zero
  /\ UNCHANGED <<is_serial, is_open, quitting, session, closed, done, pb, SERIAL,
                 transferred, crossed, signalled, threads>>

-----------------------------------------------------------------------------
(* SerialInterrupt(), and the deferred tasks it enqueues, which run before *)
(* the program goes on and call IODone.                                    *)

Completes(s) == is_open /\ pending[s] /\ done[s]

SerialInterrupt ==
  /\ SERIAL /\ mac \in {"run", "alloc", "free"}
  /\ SERIAL' = FALSE
  /\ pending' = [s \in Sides |-> pending[s] /\ ~ Completes(s)]
  /\ done' = [s \in Sides |-> done[s] /\ ~ Completes(s)]
  /\ outstanding' = [s \in Sides |-> IF Completes(s) THEN 0 ELSE outstanding[s]]
  /\ UNCHANGED <<port, pb, transferred, crossed, signalled, threads>>

-----------------------------------------------------------------------------
(* input_func() and output_func(): thread n of direction s.                *)

Goes(s, n, from, to) ==
  threads[s][n].pc = from /\ threads' = [threads EXCEPT ![s][n].pc = to]

\* WaitForSingleObject() fails at once on a handle that is closed.
WaitForCommand(s, n) ==
  /\ \/ /\ closed
        /\ Goes(s, n, "loop", "woken")
     \/ /\ ~ closed /\ threads[s][n].pc = "loop"
        /\ threads' = [threads EXCEPT ![s][n].pc = "wait", ![s][n].on = session]
  /\ UNCHANGED <<port, requests, history, signalled>>

Wakes(s, n) ==
  /\ Goes(s, n, "wait", "woken")
  /\ signalled[s][threads[s][n].on] = 1
  /\ signalled' = [signalled EXCEPT ![s][threads[s][n].on] = 0]
  /\ UNCHANGED <<port, requests, history>>

TestQuitting(s, n) ==
  /\ threads[s][n].pc = "woken"
  /\ threads' = [threads EXCEPT ![s][n].pc = IF quitting THEN "ended" ELSE "io",
                                ![s][n].req = IF quitting THEN @ ELSE pb[s]]
  /\ UNCHANGED <<port, requests, history, signalled>>

TransferEnds(s, n) ==
  /\ Goes(s, n, "io", "check")
  /\ transferred' = [transferred EXCEPT ![s] = threads[s][n].req]
  /\ UNCHANGED <<port, requests, outstanding, crossed, signalled>>

TestKilled(s, n) ==
  /\ Goes(s, n, "check", IF io_killed THEN "abort" ELSE "complete")
  /\ UNCHANGED <<port, requests, history, signalled>>

Abort(s, n) ==
  /\ Goes(s, n, "abort", "loop")
  /\ pending' = [pending EXCEPT ![s] = FALSE]
  /\ done' = [done EXCEPT ![s] = FALSE]
  /\ UNCHANGED <<port, pb, SERIAL, history, signalled>>

\* The result goes to the deferred task and to pb[s], whatever that is now.
Complete(s, n) ==
  /\ Goes(s, n, "complete", "loop")
  /\ done' = [done EXCEPT ![s] = TRUE]
  /\ SERIAL' = TRUE
  /\ UNCHANGED <<port, pending, pb, history, signalled>>

-----------------------------------------------------------------------------
IOThread(s, n) ==
  \/ WaitForCommand(s, n) \/ Wakes(s, n) \/ TestQuitting(s, n) \/ TransferEnds(s, n)
  \/ TestKilled(s, n) \/ Abort(s, n) \/ Complete(s, n)

DriverCalls ==
  \/ OpenStart \/ CloseStart \/ KillStart
  \/ \E s \in Sides : Prime(s)

\* Steps that end a driver call.  Whether an open succeeds is up to the host.
DriverReturns == OpenFails \/ OpenThreads \/ OpenDone \/ AllocFails \/ CloseDone \/ KillEnd

SerialNext ==
  \/ DriverCalls \/ DriverReturns \/ SerialInterrupt
  \/ \E s \in Sides, n \in Sessions : IOThread(s, n)

SerialSpec == SerialInit /\ [][SerialNext]_serialVars

\* Driver calls return, I/O ends (the port has timeouts), and the interrupt
\* that was raised is taken (see Interrupts!EveryInterruptServed).
SerialFairSpec ==
  /\ SerialSpec
  /\ WF_serialVars(DriverReturns)
  /\ SF_serialVars(SerialInterrupt)
  /\ \A s \in Sides, n \in Sessions : WF_serialVars(IOThread(s, n))

-----------------------------------------------------------------------------
SerialTypeOK ==
  /\ is_serial \in BOOLEAN
  /\ mac \in {"run", "open", "alloc", "free", "kill"}
  /\ {is_open, io_killed, quitting, closed, SERIAL} \subseteq BOOLEAN
  /\ pending \in [Sides -> BOOLEAN] /\ done \in [Sides -> BOOLEAN]
  /\ pb \in [Sides -> 0 .. MaxPrimes]
  /\ session \in 0 .. MaxOpens
  /\ signalled \in [Sides -> [Sessions -> 0 .. 1]]
  /\ threads \in [Sides -> [Sessions -> [pc : ThreadPCs, on : 0 .. MaxOpens,
                                         req : 0 .. MaxPrimes]]]
  /\ outstanding \in [Sides -> 0 .. MaxPrimes]
  /\ transferred \in [Sides -> 0 .. MaxPrimes]
  /\ crossed \in [Sides -> BOOLEAN]

\* The interrupt calls IODone only for a request the Device Manager waits for,
\* whose own I/O has ended.  Not so after KillIO has given up its wait, or close
\* has left a thread behind, when the next request is handed over before that
\* thread is through; and not so for a parallel port, where the I/O of a killed
\* request still ends with IODone.
DoneMeansTransferred ==
  \A s \in Sides : is_serial /\ Completes(s) /\ ~ crossed[s] =>
    /\ outstanding[s] # 0
    /\ transferred[s] = outstanding[s]

\* Every request is completed, killed, or its port is closed, but for one that
\* crosses an earlier one, whose thread may take its flag away.
RequestsEnd == \A s \in Sides : outstanding[s] # 0 ~> outstanding[s] = 0 \/ crossed[s]
=============================================================================
