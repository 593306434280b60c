----------------------------- MODULE EtherReceive -----------------------------
(***************************************************************************)
(* Packet reception in Windows/ether_windows.cpp.  The reading threads put *)
(* packets into a ring of buffers; the feeding thread raises the Ethernet  *)
(* interrupt and waits until EtherInterrupt(), on the MacOS thread, has    *)
(* emptied the ring and acknowledges.  When the ring is empty the feeding  *)
(* thread asks, with wait_request, to be woken by the next packet.         *)
(* EtherInit() and EtherExit() run on the main thread.                     *)
(*                                                                         *)
(* The critical section queue_csection makes each access to the ring one   *)
(* step.  A packet is its protocol type; one shorter than a header has a   *)
(* type that nobody attaches.                                              *)
(***************************************************************************)
EXTENDS Integers, Sequences, FiniteSets

CONSTANTS
  Types,            \* the protocol types of packets
  NoPacket,         \* a free buffer: sz = 0
  MAX_QUEUE_ITEMS   \* size of the ring

ASSUME EtherAssumption ==
  /\ NoPacket \notin Types
  /\ Types # {}
  /\ MAX_QUEUE_ITEMS \in Nat \ {0}

VARIABLES
  queue, queue_head, queue_inx, wait_request,
  int_sig, int_ack,  \* the counts of the semaphores
  ETHER,             \* INTFLAG_ETHER
  feed,              \* where ether_thread_feed_int is
  looping,           \* its local variable
  main,              \* where EtherInit() or EtherExit() is
  thread_active, net_open,
  mac,               \* where the MacOS thread is
  packet,            \* the packet EtherInterrupt() took out last
  prot_list          \* the attached protocol types

ring == <<queue, queue_head, queue_inx>>
signals == <<wait_request, int_sig, int_ack, ETHER>>
feeder == <<feed, looping>>
host == <<main, thread_active, net_open>>
macos == <<mac, packet, prot_list>>
vars == <<ring, signals, feeder, host, macos>>

Slots == 0 .. MAX_QUEUE_ITEMS - 1

Init ==
  /\ queue = [k \in Slots |-> NoPacket] /\ queue_head = 0 /\ queue_inx = 0
  /\ wait_request = TRUE /\ int_sig = 0 /\ int_ack = 0 /\ ETHER = FALSE
  /\ feed = "none" /\ looping = FALSE
  /\ main = "init" /\ thread_active = FALSE /\ net_open = FALSE
  /\ mac = "run" /\ packet \in Types /\ prot_list = {}

-----------------------------------------------------------------------------
(* EtherInit() and EtherExit().                                            *)

\* The feeding thread is created before thread_active is set.
CreateFeed ==
  /\ main = "init" /\ feed = "none"
  /\ feed' = "start"
  /\ UNCHANGED <<ring, signals, looping, host, macos>>

InitDone ==
  /\ main = "init" /\ feed # "none"
  /\ main' = "open" /\ thread_active' = TRUE /\ net_open' = TRUE
  /\ UNCHANGED <<ring, signals, feeder, macos>>

\* The emulator quits: at any time, on another thread than the CPU's.
ExitStart ==
  /\ main = "open"
  /\ main' = "signal" /\ thread_active' = FALSE /\ net_open' = FALSE
  /\ UNCHANGED <<ring, signals, feeder, macos>>

MutExitSignal ==
  /\ main = "signal"
  /\ main' = "wait" /\ int_ack' = 1
  /\ UNCHANGED <<ring, wait_request, int_sig, ETHER, feeder, thread_active, net_open, macos>>

ExitSignal ==
  /\ main = "signal"
  /\ main' = "wait" /\ int_ack' = 1 /\ int_sig' = 1
  /\ UNCHANGED <<ring, wait_request, ETHER, feeder, thread_active, net_open, macos>>

\* TerminateThread() for a thread that did not end in time.
ExitDone ==
  /\ main = "wait"
  /\ main' = "closed" /\ feed' = "ended"
  /\ UNCHANGED <<ring, signals, looping, thread_active, net_open, macos>>

-----------------------------------------------------------------------------
(* The reading threads.                                                    *)

NextSlot(k) == IF k + 1 >= MAX_QUEUE_ITEMS THEN 0 ELSE k + 1

MutEnqueue(p) ==
  /\ thread_active
  /\ queue' = [queue EXCEPT ![queue_inx] = p]
  /\ queue_inx' = IF queue[queue_inx] = NoPacket THEN NextSlot(queue_inx) ELSE queue_inx
  /\ IF wait_request
     THEN wait_request' = FALSE /\ int_sig' = 1
     ELSE UNCHANGED <<wait_request, int_sig>>
  /\ UNCHANGED <<queue_head, int_ack, ETHER, feeder, host, macos>>

\* A packet that finds its buffer in use is dropped.
enqueue_packet(p) ==
  /\ thread_active
  /\ queue[queue_inx] = NoPacket
  /\ queue' = [queue EXCEPT ![queue_inx] = p]
  /\ queue_inx' = NextSlot(queue_inx)
  /\ IF wait_request
     THEN wait_request' = FALSE /\ int_sig' = 1
     ELSE UNCHANGED <<wait_request, int_sig>>
  /\ UNCHANGED <<queue_head, int_ack, ETHER, feeder, host, macos>>

-----------------------------------------------------------------------------
(* ether_thread_feed_int().                                                *)

FeedStart ==
  /\ feed = "start"
  /\ feed' = IF thread_active THEN "sig" ELSE "ended"
  /\ UNCHANGED <<ring, signals, looping, host, macos>>

FeedWaitSig ==
  /\ feed = "sig" /\ int_sig = 1
  /\ feed' = "loop" /\ looping' = TRUE /\ int_sig' = 0
  /\ UNCHANGED <<ring, wait_request, int_ack, ETHER, host, macos>>

FeedLoop ==
  /\ feed = "loop"
  /\ feed' = IF thread_active /\ looping THEN "trigger" ELSE "start"
  /\ UNCHANGED <<ring, signals, looping, host, macos>>

\* Sets the interrupt flag only when there is a packet.
trigger_queue ==
  /\ feed = "trigger"
  /\ feed' = "ack"
  /\ ETHER' = (ETHER \/ queue[queue_head] # NoPacket)
  /\ UNCHANGED <<ring, wait_request, int_sig, int_ack, looping, host, macos>>

FeedWaitAck ==
  /\ feed = "ack" /\ int_ack = 1
  /\ feed' = "recheck" /\ int_ack' = 0
  /\ UNCHANGED <<ring, wait_request, int_sig, ETHER, looping, host, macos>>

MutSetWaitRequest ==
  /\ feed = "recheck"
  /\ feed' = "loop"
  /\ IF thread_active
     THEN looping' = FALSE /\ wait_request' = TRUE
     ELSE UNCHANGED <<looping, wait_request>>
  /\ UNCHANGED <<ring, int_sig, int_ack, ETHER, host, macos>>

set_wait_request ==
  /\ feed = "recheck"
  /\ feed' = "loop"
  /\ IF thread_active
     THEN /\ looping' = (queue[queue_head] # NoPacket)
          /\ wait_request' = (wait_request \/ queue[queue_head] = NoPacket)
     ELSE UNCHANGED <<looping, wait_request>>
  /\ UNCHANGED <<ring, int_sig, int_ack, ETHER, host, macos>>

-----------------------------------------------------------------------------
(* The MacOS thread.                                                       *)

EtherInterrupt ==
  /\ mac = "run" /\ ETHER
  /\ mac' = "irq" /\ ETHER' = FALSE
  /\ UNCHANGED <<ring, wait_request, int_sig, int_ack, feeder, host, packet, prot_list>>

MutDequeue ==
  /\ mac = "irq"
  /\ thread_active /\ queue[queue_head] # NoPacket
  /\ packet' = queue[queue_head]
  /\ queue_head' = NextSlot(queue_head)
  /\ mac' = IF packet' \in prot_list THEN "handler" ELSE "irq"
  /\ UNCHANGED <<queue, queue_inx, signals, feeder, host, prot_list>>

\* A packet of a protocol nobody attached is thrown away.
dequeue_packet ==
  /\ mac = "irq"
  /\ thread_active /\ queue[queue_head] # NoPacket
  /\ packet' = queue[queue_head]
  /\ queue' = [queue EXCEPT ![queue_head] = NoPacket]
  /\ queue_head' = NextSlot(queue_head)
  /\ mac' = IF packet' \in prot_list THEN "handler" ELSE "irq"
  /\ UNCHANGED <<queue_inx, signals, feeder, host, prot_list>>

HandlerReturns ==
  /\ mac = "handler"
  /\ mac' = "irq"
  /\ UNCHANGED <<ring, signals, feeder, host, packet, prot_list>>

InterruptDone ==
  /\ mac = "irq"
  /\ ~ thread_active \/ queue[queue_head] = NoPacket
  /\ mac' = "run" /\ int_ack' = 1
  /\ UNCHANGED <<ring, wait_request, int_sig, ETHER, feeder, host, packet, prot_list>>

\* EtherControl() from programs and protocol handlers, and EtherReset().
Attach(type) ==
  /\ mac \in {"run", "handler"} /\ net_open
  /\ prot_list' = prot_list \union {type}
  /\ UNCHANGED <<ring, signals, feeder, host, mac, packet>>

Detach(type) ==
  /\ mac \in {"run", "handler"} /\ net_open
  /\ prot_list' = prot_list \ {type}
  /\ UNCHANGED <<ring, signals, feeder, host, mac, packet>>

EtherReset ==
  /\ mac = "run"
  /\ prot_list' = {}
  /\ UNCHANGED <<ring, signals, feeder, host, mac, packet>>

-----------------------------------------------------------------------------
Main == CreateFeed \/ InitDone \/ ExitStart \/ ExitSignal \/ ExitDone

Feed == FeedStart \/ FeedWaitSig \/ FeedLoop \/ trigger_queue \/ FeedWaitAck \/ set_wait_request

Interrupt == EtherInterrupt \/ dequeue_packet \/ HandlerReturns \/ InterruptDone

Program == EtherReset \/ \E type \in Types : Attach(type) \/ Detach(type)

Next ==
  \/ Main \/ Feed
  \/ main # "closed" /\ (Interrupt \/ Program \/ \E p \in Types : enqueue_packet(p))

Spec == Init /\ [][Next]_vars

\* The host schedules its threads, and the MacOS thread takes the interrupt
\* (Interrupts!EveryInterruptServed) and gets through the handlers.
FairSpec == Spec /\ WF_vars(Feed) /\ WF_vars(main # "closed" /\ Interrupt)

-----------------------------------------------------------------------------
TypeOK ==
  /\ queue \in [Slots -> Types \union {NoPacket}]
  /\ queue_head \in Slots /\ queue_inx \in Slots
  /\ int_sig \in {0, 1} /\ int_ack \in {0, 1}
  /\ {wait_request, ETHER, looping, thread_active, net_open} \subseteq BOOLEAN
  /\ feed \in {"none", "start", "sig", "loop", "trigger", "ack", "recheck", "ended"}
  /\ main \in {"init", "open", "signal", "wait", "closed"}
  /\ mac \in {"run", "irq", "handler"}
  /\ packet \in Types /\ prot_list \subseteq Types

\* The buffers in use are those from queue_head up to queue_inx: testing one
\* sz tells whether the ring is full, and whether it is empty.
InUse(k) ==
  \/ queue_head < queue_inx /\ queue_head <= k /\ k < queue_inx
  \/ queue_inx < queue_head /\ (queue_head <= k \/ k < queue_inx)

RingExact ==
  IF queue_head = queue_inx
  THEN \/ \A k \in Slots : queue[k] = NoPacket
       \/ \A k \in Slots : queue[k] # NoPacket
  ELSE \A k \in Slots : queue[k] # NoPacket <=> InUse(k)

\* One interrupt at a time: while the feeding thread waits for int_ack there
\* is exactly one of a raised flag, a running EtherInterrupt and a released
\* semaphore, and at other times none: it cannot wait for ever, and no
\* acknowledgement is left over for the next interrupt.
NoInterrupt == ~ ETHER /\ mac = "run" /\ int_ack = 0

OneInterrupt ==
  thread_active =>
    IF feed = "ack"
    THEN \/ ETHER /\ mac = "run" /\ int_ack = 0
         \/ ~ ETHER /\ mac # "run" /\ int_ack = 0
         \/ ~ ETHER /\ mac = "run" /\ int_ack = 1
    ELSE NoInterrupt

\* No lost wakeup: while the feeding thread sleeps on int_sig, the ring is
\* empty and the next packet wakes it, or it has been woken already.
NoLostWakeup ==
  thread_active /\ feed = "sig" /\ int_sig = 0 => wait_request /\ queue[queue_head] = NoPacket

\* The packets in the ring, oldest first.
Wrap(k) == IF k >= MAX_QUEUE_ITEMS THEN k - MAX_QUEUE_ITEMS ELSE k

Length ==
  IF queue[queue_head] = NoPacket THEN 0
  ELSE IF queue_inx > queue_head THEN queue_inx - queue_head
  ELSE MAX_QUEUE_ITEMS - queue_head + queue_inx

Waiting == [k \in 1 .. Length |-> queue[Wrap(queue_head + k - 1)]]

Fifo == INSTANCE PacketQueue
  WITH Packets <- Types, Capacity <- MAX_QUEUE_ITEMS, waiting <- Waiting, fetched <- packet

\* The ring implements the bounded first-in first-out queue.
IsFifo == Fifo!Spec

\* A packet does not stay at the head of the ring while the network is open,
\* unless the feeding thread ended before it began: EtherInit() creates it before
\* it sets thread_active.
PacketsAreFetched ==
  \A k \in Slots :
    queue_head = k /\ queue[k] # NoPacket ~>
      queue_head # k \/ ~ net_open \/ feed = "ended"

\* The feeding thread ends when the emulator quits, also when EtherExit() does
\* not get to killing it: it is not left waiting for an acknowledgement that
\* nobody gives.
FeedEnds == main = "wait" ~> feed = "ended"
=============================================================================
