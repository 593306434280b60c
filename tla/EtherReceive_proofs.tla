------------------------ MODULE EtherReceive_proofs ------------------------
(***************************************************************************)
(* Proofs about EtherReceive, for every ring size and every set of types:  *)
(* the ring and the handshake of the two threads are correct, and the ring *)
(* implements the bounded queue of PacketQueue.                            *)
(***************************************************************************)
EXTENDS EtherReceive, TLAPS

USE EtherAssumption

Empty == queue[queue_head] = NoPacket

\* Before EtherInit() ends nothing has happened; thread_active is set while
\* the network is open.
Pristine ==
  /\ thread_active = (main = "open")
  /\ main = "init" =>
       /\ feed \in {"none", "start", "ended"}
       /\ wait_request /\ int_sig = 0 /\ NoInterrupt /\ Empty

\* The feeding thread is on its way to raise an interrupt, or waits for the
\* end of one.
Feeding == feed \in {"trigger", "ack", "recheck"} \/ (feed = "loop" /\ looping)

\* Who is responsible for the packets in the ring: the feeding thread, the
\* semaphore it will wake up by, or the packet that is to come next.
Handshake ==
  thread_active =>
    /\ wait_request => int_sig = 0 /\ Empty
    /\ int_sig = 1 => ~ Empty
    /\ Feeding => ~ wait_request /\ int_sig = 0
    /\ ~ wait_request /\ int_sig = 0 => Feeding
    /\ feed = "trigger" \/ (feed = "loop" /\ looping) => ~ Empty

IInv == TypeOK /\ RingExact /\ Pristine /\ OneInterrupt /\ Handshake

-----------------------------------------------------------------------------
(* The ring.                                                               *)

\* NextSlot stays in the ring.
LEMMA NextSlotInRing ==
  ASSUME NEW k \in Slots
  PROVE  NextSlot(k) \in Slots
BY DEF Slots, NextSlot

\* Putting a packet into a free buffer at queue_inx keeps the ring exact, and
\* makes it not empty.
LEMMA EnqueueRing ==
  ASSUME TypeOK, RingExact, NEW p \in Types, enqueue_packet(p)
  PROVE  RingExact' /\ ~ Empty'
<1>1. queue_inx' = NextSlot(queue_inx) /\ queue_head' = queue_head
  BY DEF enqueue_packet
<1>2. queue' = [queue EXCEPT ![queue_inx] = p] /\ queue[queue_inx] = NoPacket
  BY DEF enqueue_packet
<1>3. queue_head \in Slots /\ queue_inx \in Slots
  BY DEF TypeOK
<1>4. \A k \in Slots : queue'[k] = IF k = queue_inx THEN p ELSE queue[k]
  BY <1>2 DEF TypeOK
<1>5. p # NoPacket
  OBVIOUS
<1>6. CASE queue_head = queue_inx
  <2>1. \A k \in Slots : queue[k] = NoPacket
    BY <1>2, <1>3, <1>6 DEF RingExact
  <2>2. \A k \in Slots : (queue'[k] # NoPacket) <=> k = queue_head
    BY <2>1, <1>4, <1>5, <1>6
  <2>3. CASE MAX_QUEUE_ITEMS = 1
    BY <2>2, <2>3, <1>1, <1>3, <1>6 DEF RingExact, Slots, NextSlot, Empty
  <2>4. CASE MAX_QUEUE_ITEMS > 1
    <3>1. queue_inx' # queue_head
      BY <2>4, <1>1, <1>3, <1>6 DEF Slots, NextSlot
    <3>2. \A k \in Slots : InUse(k)' <=> k = queue_head
      BY <2>4, <1>1, <1>3, <1>6 DEF Slots, NextSlot, InUse
    <3>3. QED
      BY <3>1, <3>2, <2>2, <1>1, <1>3 DEF RingExact, Empty
  <2>5. QED
    BY <2>3, <2>4
<1>7. CASE queue_head # queue_inx
  <2>1. \A k \in Slots : queue[k] # NoPacket <=> InUse(k)
    BY <1>7 DEF RingExact
  <2>2. \A k \in Slots : (queue'[k] # NoPacket) <=> (k = queue_inx \/ InUse(k))
    BY <2>1, <1>4, <1>5
  <2>3. InUse(queue_head) /\ ~ InUse(queue_inx)
    BY <1>3, <1>7 DEF InUse, Slots
  <2>4. CASE queue_inx' = queue_head
    <3>1. \A k \in Slots : k = queue_inx \/ InUse(k)
      BY <2>4, <1>1, <1>3, <1>7 DEF Slots, NextSlot, InUse
    <3>2. QED
      BY <3>1, <2>2, <2>4, <1>1, <1>3 DEF RingExact, Empty
  <2>5. CASE queue_inx' # queue_head
    <3>1. \A k \in Slots : InUse(k)' <=> (k = queue_inx \/ InUse(k))
      BY <2>5, <1>1, <1>3, <1>7 DEF Slots, NextSlot, InUse
    <3>2. QED
      BY <3>1, <2>2, <2>3, <2>5, <1>1, <1>3 DEF RingExact, Empty
  <2>6. QED
    BY <2>4, <2>5
<1>8. QED
  BY <1>6, <1>7

\* Taking the packet at queue_head out keeps the ring exact.
LEMMA DequeueRing ==
  ASSUME TypeOK, RingExact, dequeue_packet
  PROVE  RingExact'
<1>1. queue_head' = NextSlot(queue_head) /\ queue_inx' = queue_inx
  BY DEF dequeue_packet
<1>2. queue' = [queue EXCEPT ![queue_head] = NoPacket] /\ queue[queue_head] # NoPacket
  BY DEF dequeue_packet
<1>3. queue_head \in Slots /\ queue_inx \in Slots
  BY DEF TypeOK
<1>4. \A k \in Slots : queue'[k] = IF k = queue_head THEN NoPacket ELSE queue[k]
  BY <1>2 DEF TypeOK
<1>6. CASE queue_head = queue_inx
  <2>1. \A k \in Slots : queue[k] # NoPacket
    BY <1>2, <1>3, <1>6 DEF RingExact
  <2>2. \A k \in Slots : (queue'[k] # NoPacket) <=> k # queue_head
    BY <2>1, <1>4
  <2>3. CASE MAX_QUEUE_ITEMS = 1
    BY <2>2, <2>3, <1>1, <1>3, <1>6 DEF RingExact, Slots, NextSlot
  <2>4. CASE MAX_QUEUE_ITEMS > 1
    <3>1. queue_head' # queue_inx
      BY <2>4, <1>1, <1>3, <1>6 DEF Slots, NextSlot
    <3>2. \A k \in Slots : InUse(k)' <=> k # queue_head
      BY <2>4, <1>1, <1>3, <1>6 DEF Slots, NextSlot, InUse
    <3>3. QED
      BY <3>1, <3>2, <2>2, <1>1 DEF RingExact
  <2>5. QED
    BY <2>3, <2>4
<1>7. CASE queue_head # queue_inx
  <2>1. \A k \in Slots : queue[k] # NoPacket <=> InUse(k)
    BY <1>7 DEF RingExact
  <2>2. \A k \in Slots : (queue'[k] # NoPacket) <=> (k # queue_head /\ InUse(k))
    BY <2>1, <1>4
  <2>4. CASE queue_head' = queue_inx
    <3>1. \A k \in Slots : ~ (k # queue_head /\ InUse(k))
      BY <2>4, <1>1, <1>3, <1>7 DEF Slots, NextSlot, InUse
    <3>2. QED
      BY <3>1, <2>2, <2>4, <1>1 DEF RingExact
  <2>5. CASE queue_head' # queue_inx
    <3>1. \A k \in Slots : InUse(k)' <=> (k # queue_head /\ InUse(k))
      BY <2>5, <1>1, <1>3, <1>7 DEF Slots, NextSlot, InUse
    <3>2. QED
      BY <3>1, <2>2, <2>5, <1>1 DEF RingExact
  <2>6. QED
    BY <2>4, <2>5
<1>8. QED
  BY <1>6, <1>7

-----------------------------------------------------------------------------
(* The inductive invariant.                                                *)

\* The initial states satisfy the inductive invariant.
LEMMA InitIInv == Init => IInv
<1>1. 0 \in Slots
  BY DEF Slots
<1>2. QED
  BY <1>1 DEF Init, IInv, TypeOK, RingExact, Pristine, NoInterrupt, Empty, OneInterrupt,
       Handshake, Feeding

\* The initialization and the end of the driver.
LEMMA MainIInv ==
  ASSUME IInv, Main
  PROVE  IInv'
<1> USE DEF IInv, NoInterrupt, Empty, ring, signals, feeder, host, macos
<1>1. UNCHANGED ring /\ mac' = mac /\ packet' = packet /\ prot_list' = prot_list
  BY DEF Main, CreateFeed, InitDone, ExitStart, ExitSignal, ExitDone
<1>2. RingExact'
  BY <1>1 DEF RingExact, InUse
<1>3. TypeOK'
  BY <1>1 DEF Main, CreateFeed, InitDone, ExitStart, ExitSignal, ExitDone, TypeOK
<1>4. Pristine'
  BY <1>1 DEF Main, CreateFeed, InitDone, ExitStart, ExitSignal, ExitDone, Pristine, TypeOK
<1>5. OneInterrupt' /\ Handshake'
  BY <1>1 DEF Main, CreateFeed, InitDone, ExitStart, ExitSignal, ExitDone, Pristine,
              OneInterrupt, Handshake, Feeding, TypeOK
<1>6. QED
  BY <1>2, <1>3, <1>4, <1>5

\* The feeding thread.
LEMMA FeedIInv ==
  ASSUME IInv, Feed
  PROVE  IInv'
<1> USE DEF IInv, NoInterrupt, Empty, ring, signals, feeder, host, macos
<1>1. UNCHANGED ring /\ UNCHANGED host /\ UNCHANGED macos
  BY DEF Feed, FeedStart, FeedWaitSig, FeedLoop, trigger_queue, FeedWaitAck, set_wait_request
<1>2. RingExact'
  BY <1>1 DEF RingExact, InUse
<1>3. TypeOK'
  BY <1>1 DEF Feed, FeedStart, FeedWaitSig, FeedLoop, trigger_queue, FeedWaitAck,
              set_wait_request, TypeOK
<1>4. Pristine'
  BY <1>1 DEF Feed, FeedStart, FeedWaitSig, FeedLoop, trigger_queue, FeedWaitAck,
              set_wait_request, Pristine, TypeOK
<1>5. OneInterrupt' /\ Handshake'
  <2>1. CASE FeedStart \/ FeedWaitSig \/ FeedLoop
    BY <1>1, <2>1 DEF FeedStart, FeedWaitSig, FeedLoop, OneInterrupt, Handshake, Feeding, TypeOK
  <2>2. CASE trigger_queue
    BY <1>1, <2>2 DEF trigger_queue, OneInterrupt, Handshake, Feeding, TypeOK
  <2>3. CASE FeedWaitAck \/ set_wait_request
    BY <1>1, <2>3 DEF FeedWaitAck, set_wait_request, OneInterrupt, Handshake, Feeding, TypeOK
  <2>4. QED
    BY <2>1, <2>2, <2>3 DEF Feed
<1>6. QED
  BY <1>2, <1>3, <1>4, <1>5

\* EtherInterrupt(), except for taking packets out, and the driver calls.
LEMMA QuietMacIInv ==
  ASSUME IInv, EtherInterrupt \/ HandlerReturns \/ InterruptDone \/ Program
  PROVE  IInv'
<1> USE DEF IInv, NoInterrupt, Empty, ring, signals, feeder, host, macos
<1>1. UNCHANGED ring /\ UNCHANGED host /\ UNCHANGED feeder /\ wait_request' = wait_request
      /\ int_sig' = int_sig /\ packet' = packet
  BY DEF EtherInterrupt, HandlerReturns, InterruptDone, Program, EtherReset, Attach, Detach
<1>2. RingExact'
  BY <1>1 DEF RingExact, InUse
<1>3. TypeOK'
  <2>1. prot_list' \subseteq Types
    <3>1. CASE EtherInterrupt \/ HandlerReturns \/ InterruptDone
      BY <3>1 DEF EtherInterrupt, HandlerReturns, InterruptDone, TypeOK
    <3>2. CASE Program
      BY <3>2 DEF Program, EtherReset, Attach, Detach, TypeOK
    <3>3. QED
      BY <3>1, <3>2
  <2>2. mac' \in {"run", "irq", "handler"} /\ int_ack' \in {0, 1} /\ ETHER' \in BOOLEAN
    BY DEF EtherInterrupt, HandlerReturns, InterruptDone, Program, EtherReset, Attach,
           Detach, TypeOK
  <2>3. QED
    BY <1>1, <2>1, <2>2 DEF TypeOK
<1>4. Pristine'
  BY <1>1 DEF EtherInterrupt, HandlerReturns, InterruptDone, Program, EtherReset, Attach,
              Detach, Pristine, TypeOK
<1>5. OneInterrupt' /\ Handshake'
  BY <1>1 DEF EtherInterrupt, HandlerReturns, InterruptDone, Program, EtherReset, Attach,
              Detach, OneInterrupt, Handshake, Feeding, TypeOK
<1>6. QED
  BY <1>2, <1>3, <1>4, <1>5

\* EtherInterrupt() takes packets out only while the feeding thread waits.
LEMMA DequeueIInv ==
  ASSUME IInv, dequeue_packet
  PROVE  IInv'
<1> USE DEF IInv, NoInterrupt, Empty, ring, signals, feeder, host, macos
<1>1. RingExact'
  BY DequeueRing
<1>2. NextSlot(queue_head) \in Slots
  BY NextSlotInRing DEF TypeOK
<1>3. TypeOK'
  BY <1>2 DEF dequeue_packet, TypeOK
<1>4. feed = "ack" /\ thread_active
  BY DEF dequeue_packet, OneInterrupt
<1>5. Pristine'
  BY <1>4 DEF dequeue_packet, Pristine
<1>6. OneInterrupt' /\ Handshake'
  BY <1>4 DEF dequeue_packet, OneInterrupt, Handshake, Feeding, TypeOK
<1>7. QED
  BY <1>1, <1>3, <1>5, <1>6

\* A packet arrives.
LEMMA EnqueueIInv ==
  ASSUME IInv, NEW p \in Types, enqueue_packet(p)
  PROVE  IInv'
<1> USE DEF IInv, NoInterrupt, ring, signals, feeder, host, macos
<1>1. RingExact' /\ ~ Empty'
  BY EnqueueRing
<1>2. NextSlot(queue_inx) \in Slots
  BY NextSlotInRing DEF TypeOK
<1>3. TypeOK'
  BY <1>2 DEF enqueue_packet, TypeOK
<1>4. Pristine'
  BY DEF enqueue_packet, Pristine
<1>5. OneInterrupt' /\ Handshake'
  BY <1>1 DEF enqueue_packet, OneInterrupt, Handshake, Feeding, TypeOK
<1>6. QED
  BY <1>1, <1>3, <1>4, <1>5

\* Every step of every thread preserves the inductive invariant.
LEMMA NextIInv == IInv /\ [Next]_vars => IInv'
<1> SUFFICES ASSUME IInv, [Next]_vars PROVE IInv'
  OBVIOUS
<1>1. CASE UNCHANGED vars
  BY <1>1 DEF IInv, vars, ring, signals, feeder, host, macos, TypeOK, RingExact, InUse,
              Pristine, OneInterrupt, NoInterrupt, Handshake, Feeding, Empty
<1>2. CASE Main
  BY <1>2, MainIInv
<1>3. CASE Feed
  BY <1>3, FeedIInv
<1>4. CASE Interrupt
  BY <1>4, QuietMacIInv, DequeueIInv DEF Interrupt
<1>5. CASE Program
  BY <1>5, QuietMacIInv
<1>6. CASE \E p \in Types : enqueue_packet(p)
  BY <1>6, EnqueueIInv
<1>7. QED
  BY <1>1, <1>2, <1>3, <1>4, <1>5, <1>6 DEF Next

\* The invariant holds of every behaviour.
THEOREM Invariance == Spec => []IInv
<1>1. QED
  BY InitIInv, NextIInv, PTL DEF Spec

\* Every variable keeps its type.
THEOREM TypeCorrect == Spec => []TypeOK
<1>1. IInv => TypeOK
  BY DEF IInv
<1>2. QED
  BY <1>1, Invariance, PTL

\* Testing one sz tells whether the ring is full and whether it is empty.
THEOREM RingIsExact == Spec => []RingExact
<1>1. IInv => RingExact
  BY DEF IInv
<1>2. QED
  BY <1>1, Invariance, PTL

\* The feeding thread and EtherInterrupt() never wait for each other.
THEOREM OneAtATime == Spec => []OneInterrupt
<1>1. IInv => OneInterrupt
  BY DEF IInv
<1>2. QED
  BY <1>1, Invariance, PTL

\* The feeding thread never sleeps while there is a packet.
THEOREM WakeupNotLost == Spec => []NoLostWakeup
<1>1. IInv => NoLostWakeup
  BY DEF IInv, Handshake, Feeding, NoLostWakeup, Empty
<1>2. QED
  BY <1>1, Invariance, PTL
-----------------------------------------------------------------------------
(* The ring implements PacketQueue: Waiting and packet take its steps.     *)

USE DEF Empty

\* The length of the ring's contents, and when it is full.
LEMMA LengthFacts ==
  ASSUME TypeOK, RingExact
  PROVE  /\ Length \in 0 .. MAX_QUEUE_ITEMS
         /\ Length = 0 <=> Empty
         /\ Length < MAX_QUEUE_ITEMS <=> queue[queue_inx] = NoPacket
         /\ Length < MAX_QUEUE_ITEMS => queue_inx = Wrap(queue_head + Length)
<1>1. queue_head \in Slots /\ queue_inx \in Slots
  BY DEF TypeOK
<1>2. CASE queue_head = queue_inx
  BY <1>1, <1>2 DEF RingExact, Length, Wrap, Slots
<1>3. CASE queue_head # queue_inx
  <2>1. queue[queue_head] # NoPacket /\ queue[queue_inx] = NoPacket
    BY <1>1, <1>3 DEF RingExact, InUse, Slots
  <2>2. QED
    BY <2>1, <1>1, <1>3 DEF Length, Wrap, Slots
<1>4. QED
  BY <1>2, <1>3

\* Wrap gives slots.
LEMMA WrapInRing ==
  ASSUME NEW h \in Slots, NEW k \in 0 .. MAX_QUEUE_ITEMS - 1
  PROVE  Wrap(h + k) \in Slots
BY DEF Wrap, Slots

\* Two offsets within the ring do not meet.
LEMMA WrapInjective ==
  ASSUME NEW h \in Slots, NEW j \in 0 .. MAX_QUEUE_ITEMS - 1,
         NEW k \in 0 .. MAX_QUEUE_ITEMS - 1, Wrap(h + j) = Wrap(h + k)
  PROVE  j = k
BY DEF Wrap, Slots

WaitingFits ==
  /\ Waiting \in Seq(Types)
  /\ Len(Waiting) = Length
  /\ \A k \in 1 .. Length : Waiting[k] = queue[Wrap(queue_head + k - 1)]

\* The first Length buffers, from queue_head, are in use.
LEMMA WaitingInTypes == TypeOK /\ RingExact => WaitingFits
<1> SUFFICES ASSUME TypeOK, RingExact PROVE WaitingFits
  OBVIOUS
<1>1. Length \in Nat /\ Length <= MAX_QUEUE_ITEMS
  BY LengthFacts
<1>2. ASSUME NEW k \in 1 .. Length
      PROVE  queue[Wrap(queue_head + k - 1)] \in Types
  <2>1. queue_head \in Slots /\ queue_inx \in Slots
    BY DEF TypeOK
  <2>2. Wrap(queue_head + k - 1) \in Slots
    BY <1>1, <2>1 DEF Wrap, Slots
  <2>3. queue[Wrap(queue_head + k - 1)] # NoPacket
    <3>1. CASE queue_head = queue_inx
      BY <3>1, <2>1, <2>2 DEF RingExact, Length
    <3>2. CASE queue_head # queue_inx
      <4>1. queue[queue_head] # NoPacket
        BY <3>2, <2>1 DEF RingExact, InUse, Slots
      <4>2. InUse(Wrap(queue_head + k - 1))
        BY <4>1, <3>2, <2>1 DEF InUse, Wrap, Length, Slots
      <4>3. QED
        BY <4>2, <3>2, <2>2 DEF RingExact
    <3>3. QED
      BY <3>1, <3>2
  <2>4. QED
    BY <2>2, <2>3 DEF TypeOK
<1>3. QED
  BY <1>1, <1>2 DEF Waiting, WaitingFits

\* A packet that arrives is put at the end.
LEMMA EnqueueImplements ==
  ASSUME TypeOK, RingExact, TypeOK', RingExact', NEW p \in Types, enqueue_packet(p)
  PROVE  Fifo!Put(p)
<1>a. WaitingFits
  BY WaitingInTypes
<1>b. WaitingFits'
  BY WaitingInTypes, PTL
<1>1. queue_head \in Slots /\ queue_inx \in Slots
  BY DEF TypeOK
<1>2. /\ queue' = [queue EXCEPT ![queue_inx] = p] /\ queue[queue_inx] = NoPacket
      /\ queue_inx' = NextSlot(queue_inx) /\ queue_head' = queue_head /\ packet' = packet
  BY DEF enqueue_packet, macos
<1>3. Length \in Nat /\ Length < MAX_QUEUE_ITEMS /\ queue_inx = Wrap(queue_head + Length)
  BY <1>2, LengthFacts
<1>4. \A k \in Slots : queue'[k] = IF k = queue_inx THEN p ELSE queue[k]
  BY <1>2 DEF TypeOK
<1>5. Length' = Length + 1
  <2>1. queue'[queue_head] # NoPacket
    <3>1. CASE Length = 0
      BY <3>1, <1>1, <1>3, <1>4 DEF Wrap, Slots
    <3>2. CASE Length # 0
      BY <3>2, <1>1, <1>4, LengthFacts
    <3>3. QED
      BY <3>1, <3>2
  <2>2. QED
    BY <2>1, <1>1, <1>2, <1>3 DEF Length, NextSlot, Wrap, Slots
<1>6. \A k \in 1 .. Length + 1 : Waiting'[k] = queue'[Wrap(queue_head + k - 1)]
  BY <1>2, <1>5 DEF Waiting
<1>7. \A k \in 1 .. Length : Waiting'[k] = Waiting[k]
  <2>1. TAKE k \in 1 .. Length
  <2>2. k - 1 \in 0 .. MAX_QUEUE_ITEMS - 1 /\ Length \in 0 .. MAX_QUEUE_ITEMS - 1 /\ k - 1 # Length
    BY <1>3
  <2>3. Wrap(queue_head + (k - 1)) # queue_inx /\ Wrap(queue_head + (k - 1)) \in Slots
    BY <2>2, <1>1, <1>3, WrapInjective, WrapInRing
  <2>4. queue_head + k - 1 = queue_head + (k - 1)
    BY <1>1, <1>3 DEF Slots
  <2>5. QED
    BY <2>3, <2>4, <1>3, <1>4, <1>6, <1>a DEF WaitingFits
<1>8. Waiting'[Length + 1] = p
  <2>1. queue_head + (Length + 1) - 1 = queue_head + Length
    BY <1>1, <1>3 DEF Slots
  <2>2. QED
    BY <2>1, <1>1, <1>3, <1>4, <1>6
<1>9. Waiting' = Append(Waiting, p)
  <2>1. Waiting' \in Seq(Types) /\ Len(Waiting') = Length + 1
    BY <1>5, <1>b DEF WaitingFits
  <2>2. Waiting \in Seq(Types) /\ Len(Waiting) = Length
    BY <1>a DEF WaitingFits
  <2>3. QED
    BY <2>1, <2>2, <1>3, <1>7, <1>8
<1>10. QED
  BY <1>2, <1>3, <1>9, <1>a DEF Fifo!Put, WaitingFits

\* The packet that EtherInterrupt() takes out is the oldest.
LEMMA DequeueImplements ==
  ASSUME TypeOK, RingExact, TypeOK', RingExact', dequeue_packet
  PROVE  Fifo!Take
<1>a. WaitingFits
  BY WaitingInTypes
<1>b. WaitingFits'
  BY WaitingInTypes, PTL
<1>1. queue_head \in Slots /\ queue_inx \in Slots
  BY DEF TypeOK
<1>2. /\ queue' = [queue EXCEPT ![queue_head] = NoPacket] /\ queue[queue_head] # NoPacket
      /\ queue_head' = NextSlot(queue_head) /\ queue_inx' = queue_inx
      /\ packet' = queue[queue_head]
  BY DEF dequeue_packet
<1>3. Length \in Nat \ {0} /\ Length <= MAX_QUEUE_ITEMS
  BY <1>2, LengthFacts
<1>4. \A k \in Slots : queue'[k] = IF k = queue_head THEN NoPacket ELSE queue[k]
  BY <1>2 DEF TypeOK
<1>5. Length' = Length - 1
  <2>1. CASE queue_head' = queue_inx
    <3>1. \A k \in Slots : queue'[k] = NoPacket
      BY <2>1, <1>1, <1>2, <1>4 DEF RingExact
    <3>2. queue_head' \in Slots
      BY DEF TypeOK
    <3>3. Length' = 0
      BY <3>1, <3>2 DEF Length
    <3>4. Length = 1
      BY <2>1, <1>1, <1>2 DEF Length, NextSlot, Slots
    <3>5. QED
      BY <3>3, <3>4
  <2>2. CASE queue_head' # queue_inx
    <3>1. queue'[queue_head'] # NoPacket
      BY <2>2, <1>2 DEF RingExact, InUse, TypeOK, Slots
    <3>2. QED
      BY <3>1, <2>2, <1>1, <1>2 DEF Length, NextSlot, Slots
  <2>3. QED
    BY <2>1, <2>2
<1>6. Waiting \in Seq(Types) /\ Len(Waiting) = Length /\ Waiting[1] = queue[queue_head]
  <2>1. Wrap(queue_head + 1 - 1) = queue_head
    BY <1>1 DEF Wrap, Slots
  <2>2. QED
    BY <2>1, <1>3, <1>a DEF WaitingFits
<1>7. Waiting' \in Seq(Types) /\ Len(Waiting') = Length - 1
  BY <1>5, <1>b DEF WaitingFits
<1>8. \A k \in 1 .. Length - 1 : Waiting'[k] = Waiting[k + 1]
  <2>1. TAKE k \in 1 .. Length - 1
  <2>2. Waiting'[k] = queue'[Wrap(queue_head' + k - 1)]
    BY <1>3, <1>5, <1>b DEF WaitingFits
  <2>3. Wrap(queue_head' + k - 1) = Wrap(queue_head + (k + 1) - 1)
    BY <1>1, <1>2, <1>3 DEF Wrap, NextSlot, Slots
  <2>4. Wrap(queue_head + (k + 1) - 1) \in Slots /\ Wrap(queue_head + (k + 1) - 1) # queue_head
    BY <1>1, <1>3 DEF Wrap, Slots
  <2>5. Waiting[k + 1] = queue[Wrap(queue_head + (k + 1) - 1)]
    BY <1>3, <1>a DEF WaitingFits
  <2>6. QED
    BY <2>2, <2>3, <2>4, <2>5, <1>4
<1>9. Waiting' = Tail(Waiting)
  BY <1>3, <1>6, <1>7, <1>8
<1>10. QED
  BY <1>2, <1>3, <1>6, <1>9 DEF Fifo!Take

\* Any other step leaves the queue alone.
LEMMA QuietImplements ==
  ASSUME UNCHANGED ring, packet' = packet
  PROVE  UNCHANGED <<Waiting, packet>>
BY DEF ring, Waiting, Length, Wrap

\* The ring of buffers is a bounded first-in first-out queue.
THEOREM RingIsFifo == Spec => IsFifo
<1>1. Init => Fifo!Init
  <2> SUFFICES ASSUME Init PROVE Fifo!Init
    OBVIOUS
  <2>2. 0 \in Slots
    BY DEF Slots
  <2>3. Length = 0
    <3>1. queue[queue_head] = NoPacket
      BY <2>2 DEF Init
    <3>2. QED
      BY <3>1 DEF Length
  <2>4. Waiting = <<>>
    BY <2>3 DEF Waiting
  <2>5. QED
    BY <2>4 DEF Init, Fifo!Init
<1>2. IInv /\ IInv' /\ [Next]_vars => [Fifo!Next]_<<Waiting, packet>>
  <2> SUFFICES ASSUME IInv, IInv', [Next]_vars
               PROVE  Fifo!Next \/ UNCHANGED <<Waiting, packet>>
    OBVIOUS
  <2>2. CASE UNCHANGED vars
    BY <2>2, QuietImplements DEF vars, macos
  <2>3. CASE Main \/ Feed \/ EtherInterrupt \/ HandlerReturns \/ InterruptDone \/ Program
    <3>1. UNCHANGED ring /\ packet' = packet
      BY <2>3 DEF Main, CreateFeed, InitDone, ExitStart, ExitSignal, ExitDone, Feed, FeedStart,
                  FeedWaitSig, FeedLoop, trigger_queue, FeedWaitAck, set_wait_request,
                  EtherInterrupt, HandlerReturns, InterruptDone, Program, EtherReset, Attach,
                  Detach, macos
    <3>2. QED
      BY <3>1, QuietImplements
  <2>4. CASE dequeue_packet
    BY <2>4, DequeueImplements DEF IInv, Fifo!Next
  <2>5. CASE \E p \in Types : enqueue_packet(p)
    BY <2>5, EnqueueImplements DEF IInv, Fifo!Next
  <2>6. QED
    BY <2>2, <2>3, <2>4, <2>5 DEF Next, Interrupt
<1>3. QED
  BY <1>1, <1>2, Invariance, PTL DEF Spec, IsFifo, Fifo!Spec
=============================================================================
