-------------------- MODULE EtherSend_AudioStream_proofs --------------------
(***************************************************************************)
(* Proofs about EtherSend and AudioStream, the two ways out of the         *)
(* emulator that have a thread and a queue of their own.                   *)
(*                                                                         *)
(* EtherSend, for every number of packets, every choice of the routed ones *)
(* and every size of pending_packet: no PACKET has two owners, and packets *)
(* leave in the order in which the Mac sent them.  AudioStream, for every  *)
(* number of buffers, blocks, opens and sources: the block that is played  *)
(* is the one that was produced last.                                      *)
(***************************************************************************)
EXTENDS EtherSend, AudioStream, SequenceTheorems, FiniteSetTheorems, TLAPS

-----------------------------------------------------------------------------
(* EtherSend.                                                              *)

USE EtherSendAssumption

\* A thread has a PACKET in its hand exactly where its program says so.
InHand ==
  /\ held # 0 <=> mac \in {"fill", "insert"}
  /\ hand # 0 <=> writer = "send"

\* A PACKET is allocated for a packet only.
FewPackets == Cardinality(Allocated) <= sent

\* The last packet write_packet() has filled a PACKET with.
Newest == IF mac \in {"fill", "insert"} THEN sent - 1 ELSE sent

\* The packets that have left, the one in the writer's hand and those in the
\* queue are in this order the ones that the Mac sent.
QueueInOrder ==
  /\ \A j, k \in DOMAIN send_queue :
       j < k => content[send_queue[j]] < content[send_queue[k]]
  /\ \A j \in DOMAIN send_queue : content[send_queue[j]] \in 1 .. Newest
WireBeforeQueue ==
  /\ \A j \in DOMAIN wire : wire[j] <= Newest
  /\ \A j \in DOMAIN wire, k \in DOMAIN send_queue : wire[j] < content[send_queue[k]]
HandBetween ==
  writer = "send" =>
    /\ content[hand] \in 1 .. Newest
    /\ \A j \in DOMAIN wire : wire[j] < content[hand]
    /\ \A k \in DOMAIN send_queue : content[hand] < content[send_queue[k]]
HeldIsNew == mac = "insert" => content[held] = sent

Order == SentInOrder /\ QueueInOrder /\ WireBeforeQueue /\ HandBetween /\ HeldIsNew

\* The slot for the echo never moves.
OneEcho == echo_count = 0

IInv == TypeOK /\ InHand /\ OneOwner /\ FewPackets /\ Order /\ OneEcho

-----------------------------------------------------------------------------
(* Sequences as places.                                                    *)

\* Taking the head of a sequence without repetition removes one element.
LEMMA TakeHead ==
  ASSUME NEW S, NEW s \in Seq(S), s # <<>>, IsInjective(s)
  PROVE  /\ Head(s) \in Range(s) /\ Head(s) \in S
         /\ Tail(s) \in Seq(S) /\ IsInjective(Tail(s))
         /\ Range(Tail(s)) = Range(s) \ {Head(s)}
<1>1. Len(s) \in Nat \ {0} /\ DOMAIN s = 1 .. Len(s) /\ Head(s) = s[1]
  BY LenProperties, EmptySeq
<1>2. /\ Head(s) \in S /\ Tail(s) \in Seq(S) /\ Len(Tail(s)) = Len(s) - 1
      /\ DOMAIN Tail(s) = 1 .. Len(s) - 1
      /\ \A i \in 1 .. Len(s) - 1 : Tail(s)[i] = s[i + 1]
  BY HeadTailProperties, LenProperties
<1>3. Head(s) \in Range(s)
  BY <1>1 DEF Range
<1>4. IsInjective(Tail(s))
  BY <1>1, <1>2 DEF IsInjective
<1>5. \A x \in Range(Tail(s)) : x \in Range(s) \ {Head(s)}
  BY <1>1, <1>2 DEF IsInjective, Range
<1>6. ASSUME NEW x \in Range(s), x # Head(s)
      PROVE  x \in Range(Tail(s))
  <2>1. PICK i \in 1 .. Len(s) : s[i] = x
    BY <1>1 DEF Range
  <2>2. i - 1 \in 1 .. Len(s) - 1 /\ Tail(s)[i - 1] = x
    BY <2>1, <1>1, <1>2, <1>6
  <2>3. QED
    BY <2>2, <1>2 DEF Range
<1>7. QED
  BY <1>2, <1>3, <1>4, <1>5, <1>6

\* Putting a new element in front.
LEMMA PutFirst ==
  ASSUME NEW S, NEW s \in Seq(S), NEW e \in S
  PROVE  /\ <<e>> \o s \in Seq(S)
         /\ Range(<<e>> \o s) = {e} \union Range(s)
         /\ IsInjective(s) /\ e \notin Range(s) => IsInjective(<<e>> \o s)
<1>1. <<e>> \in Seq(S) /\ Len(<<e>>) = 1 /\ <<e>>[1] = e
  OBVIOUS
<1>2. /\ <<e>> \o s \in Seq(S) /\ Len(<<e>> \o s) = 1 + Len(s)
      /\ \A i \in 1 .. 1 + Len(s) :
           (<<e>> \o s)[i] = IF i <= 1 THEN e ELSE s[i - 1]
  BY <1>1, ConcatProperties
<1>3. Range(<<e>> \o s) = {e} \union Range(s)
  <2>1. DOMAIN (<<e>> \o s) = 1 .. 1 + Len(s) /\ DOMAIN s = 1 .. Len(s) /\ Len(s) \in Nat
    BY <1>2, LenProperties
  <2>2. \A x \in Range(<<e>> \o s) : x = e \/ x \in Range(s)
    BY <2>1, <1>2 DEF Range
  <2>3. e \in Range(<<e>> \o s)
    BY <2>1, <1>2 DEF Range
  <2>4. ASSUME NEW x \in Range(s)
        PROVE  x \in Range(<<e>> \o s)
    <3>1. PICK i \in 1 .. Len(s) : s[i] = x
      BY <2>1 DEF Range
    <3>2. i + 1 \in 1 .. 1 + Len(s) /\ (<<e>> \o s)[i + 1] = x
      BY <3>1, <2>1, <1>2
    <3>3. QED
      BY <3>2, <2>1 DEF Range
  <2>5. QED
    BY <2>2, <2>3, <2>4
<1>4. ASSUME IsInjective(s), e \notin Range(s)
      PROVE  IsInjective(<<e>> \o s)
  <2>1. DOMAIN s = 1 .. Len(s) /\ Len(s) \in Nat
    BY LenProperties
  <2>2. DOMAIN (<<e>> \o s) = 1 .. 1 + Len(s)
    BY <1>2, LenProperties
  <2>3. \A i \in 1 .. Len(s) : s[i] # e
    BY <1>4, <2>1 DEF Range
  <2>4. QED
    BY <1>2, <1>4, <2>1, <2>2, <2>3 DEF IsInjective
<1>5. QED
  BY <1>2, <1>3, <1>4

\* Putting a new element at the end.
LEMMA PutLast ==
  ASSUME NEW S, NEW s \in Seq(S), NEW e \in S
  PROVE  /\ Append(s, e) \in Seq(S)
         /\ Range(Append(s, e)) = {e} \union Range(s)
         /\ IsInjective(s) /\ e \notin Range(s) => IsInjective(Append(s, e))
<1>1. DOMAIN s = 1 .. Len(s) /\ Len(s) \in Nat
  BY LenProperties
<1>2. /\ Append(s, e) \in Seq(S) /\ DOMAIN Append(s, e) = 1 .. Len(s) + 1
      /\ \A i \in 1 .. Len(s) : Append(s, e)[i] = s[i]
      /\ Append(s, e)[Len(s) + 1] = e
  BY AppendProperties, LenProperties
<1>3. Range(Append(s, e)) = {e} \union Range(s)
  BY <1>1, <1>2 DEF Range
<1>4. ASSUME IsInjective(s), e \notin Range(s)
      PROVE  IsInjective(Append(s, e))
  <2>1. \A i \in 1 .. Len(s) : s[i] # e
    BY <1>4, <1>1 DEF Range
  <2>2. QED
    BY <1>1, <1>2, <1>4, <2>1 DEF IsInjective
<1>5. QED
  BY <1>2, <1>3, <1>4

-----------------------------------------------------------------------------
(* The places of the PACKETs.                                              *)

Pool == Range(write_packet_pool)
Queue == Range(send_queue)
Hand == {hand} \ {0}
Held == {held} \ {0}

Apart ==
  /\ Pool \intersect Queue = {} /\ Pool \intersect driver = {}
  /\ Pool \intersect Hand = {} /\ Pool \intersect Held = {}
  /\ Queue \intersect driver = {} /\ Queue \intersect Hand = {}
  /\ Queue \intersect Held = {} /\ driver \intersect Hand = {}
  /\ driver \intersect Held = {} /\ Hand \intersect Held = {}

\* The places one by one.
OneByOne ==
  /\ Allocated = Pool \union Queue \union driver \union Hand \union Held
  /\ (\A j, k \in DOMAIN Places : j # k => Places[j] \intersect Places[k] = {}) <=> Apart

LEMMA PlacesOneByOne == OneByOne
<1> DEFINE T == <<Pool, Queue, driver, Hand, Held>>
<1>1. Places = T
  BY DEF Places, Pool, Queue, Hand, Held
<1>2. DOMAIN T = 1 .. 5 /\ T[1] = Pool /\ T[2] = Queue /\ T[3] = driver /\ T[4] = Hand
      /\ T[5] = Held
  OBVIOUS
<1> HIDE DEF T
<1>3. Range(T) = {Pool, Queue, driver, Hand, Held}
  <2>1. \A x : x \in 1 .. 5 <=> x = 1 \/ x = 2 \/ x = 3 \/ x = 4 \/ x = 5
    OBVIOUS
  <2>2. QED
    BY <1>2, <2>1 DEF Range
<1>4. Allocated = Pool \union Queue \union driver \union Hand \union Held
  BY <1>1, <1>3 DEF Allocated
<1>5. ASSUME \A j, k \in 1 .. 5 : j # k => T[j] \intersect T[k] = {}
      PROVE  Apart
  <2>1. /\ T[1] \intersect T[2] = {} /\ T[1] \intersect T[3] = {}
        /\ T[1] \intersect T[4] = {} /\ T[1] \intersect T[5] = {}
        /\ T[2] \intersect T[3] = {} /\ T[2] \intersect T[4] = {}
        /\ T[2] \intersect T[5] = {} /\ T[3] \intersect T[4] = {}
        /\ T[3] \intersect T[5] = {} /\ T[4] \intersect T[5] = {}
    BY <1>5
  <2>2. QED
    BY <2>1, <1>2, Zenon DEF Apart
<1>6. ASSUME Apart, NEW j \in 1 .. 5, NEW k \in 1 .. 5, j # k
      PROVE  T[j] \intersect T[k] = {}
  <2>1. \A x \in 1 .. 5 : x = 1 \/ x = 2 \/ x = 3 \/ x = 4 \/ x = 5
    OBVIOUS
  <2>2. QED
    BY <2>1, <1>2, <1>6 DEF Apart
<1>7. QED
  BY <1>1, <1>2, <1>4, <1>5, <1>6 DEF OneByOne

\* The elements of a place are PACKETs.
LEMMA PlacesAreTyped ==
  ASSUME TypeOK
  PROVE  Pool \subseteq PACKETs /\ Queue \subseteq PACKETs
BY RangeOfSeq DEF TypeOK, Pool, Queue

\* What a step that moves PACKETs between places has to keep.
LEMMA Moved ==
  ASSUME OneOwner, Apart', Allocated' = Allocated,
         IsInjective(write_packet_pool)', IsInjective(send_queue)'
  PROVE  OneOwner' /\ (FewPackets /\ sent' = sent => FewPackets')
<1>1. OneByOne'
  BY PlacesOneByOne, PTL
<1>2. QED
  BY <1>1 DEF OneByOne, OneOwner, FewPackets

-----------------------------------------------------------------------------
(* The invariant.                                                          *)

\* At the start no PACKET is allocated.
LEMMA InitInv == Init => IInv
<1> SUFFICES ASSUME Init
             PROVE  IInv
  OBVIOUS
<1>1. TypeOK
  BY DEF Init, TypeOK, PACKETs, Sends
<1>2. InHand /\ Order
  BY DEF Init, InHand, Order, SentInOrder, QueueInOrder, WireBeforeQueue, HandBetween,
         HeldIsNew
<1>e. OneEcho
  BY DEF Init, OneEcho
<1>3. Pool = {} /\ Queue = {} /\ driver = {} /\ Hand = {} /\ Held = {}
  BY DEF Init, Pool, Queue, Hand, Held, Range
<1>4. Allocated = {} /\ Apart
  BY <1>3, PlacesOneByOne DEF OneByOne, Apart
<1>5. Cardinality(Allocated) = 0
  BY <1>4, FS_EmptySet
<1>6. IsInjective(write_packet_pool) /\ IsInjective(send_queue)
  BY DEF Init, IsInjective
<1>7. OneOwner
  BY <1>4, <1>5, <1>6, PlacesOneByOne DEF OneByOne, OneOwner
<1>8. FewPackets
  BY <1>5 DEF FewPackets, Init
<1>9. QED
  BY <1>1, <1>2, <1>e, <1>7, <1>8 DEF IInv

\* What OneOwner says of the places one by one.
LEMMA Owners ==
  ASSUME IInv
  PROVE  /\ Apart /\ IsInjective(write_packet_pool) /\ IsInjective(send_queue)
         /\ Allocated = Pool \union Queue \union driver \union Hand \union Held
         /\ Allocated = 1 .. Cardinality(Allocated)
         /\ Cardinality(Allocated) <= sent
         /\ Pool \subseteq PACKETs /\ Queue \subseteq PACKETs
         /\ Cardinality(Allocated) \in Nat
<1>1. /\ Apart /\ IsInjective(write_packet_pool) /\ IsInjective(send_queue)
      /\ Allocated = Pool \union Queue \union driver \union Hand \union Held
      /\ Allocated = 1 .. Cardinality(Allocated)
      /\ Cardinality(Allocated) <= sent
      /\ Pool \subseteq PACKETs /\ Queue \subseteq PACKETs
  BY PlacesOneByOne, PlacesAreTyped DEF IInv, OneByOne, OneOwner, FewPackets
<1>2. Allocated \in SUBSET (0 .. MaxSends)
  BY <1>1 DEF IInv, TypeOK, Hand, Held, PACKETs
<1>3. IsFiniteSet(Allocated)
  <2>1. IsFiniteSet(0 .. MaxSends)
    BY FS_Interval
  <2>2. QED
    BY <2>1, <1>2, FS_Subset
<1>4. QED
  BY <1>1, <1>3, FS_CardinalityType

\* A step that moves no PACKET.
LEMMA Unmoved ==
  ASSUME OneOwner, FewPackets,
         UNCHANGED <<sent, write_packet_pool, send_queue, driver, hand, held>>
  PROVE  OneOwner' /\ FewPackets'
<1>1. Places' = Places
  BY DEF Places
<1>2. Allocated' = Allocated
  BY <1>1 DEF Allocated
<1>3. QED
  BY <1>1, <1>2 DEF OneOwner, FewPackets

\* (echo_count+1) & (~(MAX_ECHO-1)) leads from the first slot to the first slot.
LEMMA FirstEcho == NextEcho(0) = 0
<1>1. MAX_ECHO = 2 \/ MAX_ECHO = 4 \/ MAX_ECHO = 8
  OBVIOUS
<1>2. 1 \div MAX_ECHO = 0
  BY <1>1
<1>3. QED
  BY <1>1, <1>2 DEF NextEcho

\* write_packet() takes a PACKET from the pool, or allocates the next one.
LEMMA GetStep ==
  ASSUME IInv, get_write_packet
  PROVE  IInv'
<1>1. /\ TypeOK /\ InHand /\ mac = "run" /\ sent < MaxSends /\ mac' = "fill"
      /\ sent' = sent + 1 /\ held = 0 /\ Held = {}
      /\ UNCHANGED <<send_queue, content, echo_count, pending_packet, int_send_now, writer,
                     hand, driver, thread_active, wire, delivered>>
      /\ Queue' = Queue /\ Hand' = Hand
  BY DEF IInv, InHand, get_write_packet, Held, Hand, Queue
<1>2. /\ Apart /\ IsInjective(write_packet_pool) /\ IsInjective(send_queue)
      /\ Allocated = Pool \union Queue \union driver \union Hand
      /\ Allocated = 1 .. Cardinality(Allocated) /\ Cardinality(Allocated) <= sent
      /\ Pool \subseteq PACKETs /\ Queue \subseteq PACKETs
  BY Owners, <1>1
<1>3. Cardinality(Allocated) \in Nat
  BY Owners
<1>4. OneByOne'
  BY PlacesOneByOne, PTL
<1>5. CASE write_packet_pool # <<>>
  <2>1. held' = Head(write_packet_pool) /\ write_packet_pool' = Tail(write_packet_pool)
    BY <1>5 DEF get_write_packet
  <2>2. /\ held' \in Pool /\ held' \in PACKETs /\ write_packet_pool' \in Seq(PACKETs)
        /\ IsInjective(write_packet_pool') /\ Pool' = Pool \ {held'}
    BY <2>1, <1>1, <1>2, <1>5, TakeHead DEF TypeOK, Pool
  <2>3. Held' = {held'} /\ held' # 0
    BY <2>2 DEF Held, PACKETs
  <2>4. Apart'
    BY <2>2, <2>3, <1>1, <1>2 DEF Apart
  <2>5. Allocated' = Allocated
    BY <2>2, <2>3, <1>1, <1>2, <1>4 DEF OneByOne
  <2>6. OneOwner' /\ FewPackets'
    <3>1. IsInjective(write_packet_pool)' /\ IsInjective(send_queue)'
      BY <2>2, <1>1, <1>2
    <3>2. OneOwner'
      BY <3>1, <2>4, <2>5, Moved DEF IInv
    <3>3. Cardinality(Allocated') <= sent'
      BY <2>5, <1>1, <1>2, <1>3 DEF TypeOK
    <3>4. QED
      BY <3>2, <3>3 DEF FewPackets
  <2>7. TypeOK' /\ InHand'
    BY <2>2, <2>3, <1>1 DEF TypeOK, InHand, PACKETs
  <2>8. QED
    BY <2>6, <2>7, <1>1 DEF IInv, Order, SentInOrder, QueueInOrder, WireBeforeQueue,
                            HandBetween, HeldIsNew, Newest, TypeOK, OneEcho
<1>6. CASE write_packet_pool = <<>>
  <2> DEFINE n == Cardinality(Allocated)
  <2>1. held' = n + 1 /\ write_packet_pool' = write_packet_pool
    BY <1>6 DEF get_write_packet
  <2>n. n \in Nat /\ n <= sent /\ Allocated = 1 .. n
    BY <1>2, <1>3
  <2> HIDE DEF n
  <2>2. held' \in PACKETs /\ Held' = {n + 1} /\ Pool' = Pool
    <3>1. n + 1 \in PACKETs /\ n + 1 # 0
      BY <2>n, <1>1 DEF PACKETs, TypeOK
    <3>2. QED
      BY <3>1, <2>1 DEF Held, Pool
  <2>3. Allocated' = 1 .. n + 1
    <3>1. Allocated' = Allocated \union {n + 1}
      BY <2>2, <1>1, <1>2, <1>4 DEF OneByOne
    <3>2. QED
      BY <3>1, <2>n
  <2>4. Cardinality(Allocated') = n + 1
    BY <2>3, <2>n, FS_Interval
  <2>5. Apart'
    <3>1. n + 1 \notin Allocated
      BY <2>n
    <3>2. QED
      BY <3>1, <2>2, <1>1, <1>2 DEF Apart
  <2>6. OneOwner' /\ FewPackets'
    BY <2>1, <2>3, <2>4, <2>5, <2>n, <1>1, <1>2, <1>4
       DEF OneByOne, OneOwner, FewPackets, TypeOK
  <2>7. TypeOK' /\ InHand'
    <3>1. sent' \in 0 .. MaxSends /\ held' \in 0 .. MaxSends /\ held' # 0
      BY <2>2, <1>1 DEF TypeOK, PACKETs
    <3>2. TypeOK'
      BY <3>1, <2>1, <1>1 DEF TypeOK
    <3>3. InHand'
      BY <3>1, <1>1 DEF InHand
    <3>4. QED
      BY <3>2, <3>3
  <2>8. QED
    BY <2>6, <2>7, <1>1 DEF IInv, Order, SentInOrder, QueueInOrder, WireBeforeQueue,
                            HandBetween, HeldIsNew, Newest, TypeOK, OneEcho
<1>7. QED
  BY <1>5, <1>6

\* write_packet() fills the PACKET: the packet it gets is newer than all that
\* went before, and the PACKET is in no queue.
LEMMA FillStep ==
  ASSUME IInv, RememberEcho
  PROVE  IInv'
<1>1. /\ TypeOK /\ InHand /\ mac = "fill" /\ mac' = "insert" /\ held \in PACKETs
      /\ content' = [content EXCEPT ![held] = sent]
      /\ UNCHANGED <<sent, held, write_packet_pool, send_queue, int_send_now, writer, hand,
                     driver, thread_active, wire, delivered>>
  BY DEF IInv, InHand, TypeOK, RememberEcho, PACKETs
<1>2. OneOwner' /\ FewPackets' /\ InHand'
  BY <1>1, Unmoved DEF IInv, InHand
<1>3. /\ pending_packet' \in [0 .. MAX_ECHO - 1 -> 0 .. MaxSends]
      /\ echo_count' = 0
  <2>1. pending_packet' = [pending_packet EXCEPT ![echo_count] = sent]
        /\ echo_count' = NextEcho(echo_count)
    BY DEF RememberEcho
  <2>2. QED
    BY <2>1, <1>1, FirstEcho DEF IInv, OneEcho, TypeOK
<1>4. content' \in [PACKETs -> 0 .. MaxSends] /\ content'[held] = sent
  BY <1>1 DEF TypeOK
<1>5. TypeOK'
  BY <1>1, <1>3, <1>4 DEF TypeOK
<1>6. \A b \in PACKETs : b # held => content'[b] = content[b]
  BY <1>1 DEF TypeOK
<1>7. \A k \in DOMAIN send_queue : send_queue[k] \in PACKETs /\ send_queue[k] # held
  <2>1. held \notin Queue
    BY <1>1, Owners DEF Apart, Held, PACKETs
  <2>2. \A k \in DOMAIN send_queue : send_queue[k] \in Queue
    BY DEF Queue, Range
  <2>3. QED
    BY <2>1, <2>2, <1>1, PlacesAreTyped
<1>8. writer = "send" => hand \in PACKETs /\ hand # held
  BY <1>1, Owners DEF Apart, Held, Hand, InHand, TypeOK, PACKETs
<1>9. Newest' = Newest
  BY <1>1 DEF Newest
<1>10. Order'
  BY <1>1, <1>4, <1>6, <1>7, <1>8, <1>9
     DEF IInv, Order, SentInOrder, QueueInOrder, WireBeforeQueue, HandBetween, HeldIsNew
<1>11. QED
  BY <1>2, <1>3, <1>5, <1>10 DEF IInv, OneEcho

\* insert_send_queue(): the newest packet goes to the end of the queue.
LEMMA InsertStep ==
  ASSUME IInv, insert_send_queue
  PROVE  IInv'
<1>1. /\ TypeOK /\ InHand /\ mac = "insert" /\ mac' = "signal" /\ held \in PACKETs
      /\ send_queue' = Append(send_queue, held) /\ held' = 0
      /\ UNCHANGED <<sent, write_packet_pool, content, echo_count, pending_packet,
                     int_send_now, writer, hand, driver, thread_active, wire, delivered>>
      /\ send_queue \in Seq(PACKETs)
  BY DEF IInv, InHand, TypeOK, insert_send_queue, PACKETs
<1>2. /\ send_queue' \in Seq(PACKETs) /\ Queue' = {held} \union Queue
      /\ held \notin Queue /\ IsInjective(send_queue')
  BY <1>1, PutLast, Owners DEF Queue, Apart, Held, PACKETs
<1>3. TypeOK' /\ InHand'
  BY <1>1, <1>2 DEF TypeOK, InHand
<1>4. OneOwner' /\ FewPackets'
  <2>1. Held = {held} /\ Held' = {} /\ Pool' = Pool /\ Hand' = Hand /\ driver' = driver
    BY <1>1 DEF Held, Pool, Hand, PACKETs
  <2>2. Apart'
    BY <2>1, <1>2, Owners DEF Apart
  <2>3. OneByOne'
    BY PlacesOneByOne, PTL
  <2>4. Allocated' = Allocated
    BY <2>1, <2>3, <1>2, Owners DEF OneByOne
  <2>5. IsInjective(write_packet_pool)'
    BY <1>1, Owners
  <2>6. QED
    BY <2>2, <2>4, <2>5, <1>1, <1>2, Moved DEF IInv
<1>5. Order'
  <2>1. /\ DOMAIN send_queue = 1 .. Len(send_queue) /\ Len(send_queue) \in Nat
        /\ DOMAIN send_queue' = 1 .. Len(send_queue) + 1
        /\ \A i \in 1 .. Len(send_queue) : send_queue'[i] = send_queue[i]
        /\ send_queue'[Len(send_queue) + 1] = held
    BY <1>1, <1>2, AppendProperties, LenProperties
  <2>2. content[held] = sent /\ Newest = sent - 1 /\ Newest' = sent /\ content' = content
    BY <1>1 DEF IInv, Order, HeldIsNew, Newest
  <2>3. sent \in Nat
    BY <1>1 DEF TypeOK
  <2>4. sent > 0
    <3>1. held \in Allocated
      BY <1>1, Owners DEF Held, PACKETs
    <3>2. /\ held \in 1 .. Cardinality(Allocated) /\ Cardinality(Allocated) <= sent
          /\ Cardinality(Allocated) \in Nat
      BY <3>1, Owners
    <3>3. CASE sent = 0
      BY <3>2, <3>3
    <3>4. QED
      BY <3>3, <2>3
  <2>5. SentInOrder' /\ HeldIsNew'
    BY <1>1 DEF IInv, Order, SentInOrder, HeldIsNew
  <2>6. \A k \in DOMAIN send_queue : send_queue[k] \in PACKETs
    BY <1>1
  <2>7. \A b \in PACKETs : content[b] \in Nat
    BY <1>1 DEF TypeOK
  <2>8. QueueInOrder'
    BY <2>1, <2>2, <2>3, <2>4, <2>6, <2>7 DEF IInv, Order, QueueInOrder
  <2>9. \A j \in DOMAIN wire : wire[j] \in Nat
    BY <1>1 DEF TypeOK, Sends
  <2>10. WireBeforeQueue'
    BY <2>1, <2>2, <2>3, <2>9, <1>1 DEF IInv, Order, WireBeforeQueue
  <2>11. HandBetween'
    BY <2>1, <2>2, <2>3, <1>1 DEF IInv, Order, HandBetween
  <2>12. QED
    BY <2>5, <2>8, <2>10, <2>11 DEF Order
<1>6. QED
  BY <1>1, <1>3, <1>4, <1>5 DEF IInv, OneEcho

\* Completion(): back from the driver into the pool.
LEMMA CompletionStep ==
  ASSUME IInv, NEW b \in PACKETs, Completion(b)
  PROVE  IInv'
<1>1. /\ TypeOK /\ InHand /\ writer = "wait" /\ writer' = "take" /\ b \in driver
      /\ driver' = driver \ {b} /\ write_packet_pool' = <<b>> \o write_packet_pool
      /\ UNCHANGED <<mac, sent, held, send_queue, content, echo_count, pending_packet,
                     int_send_now, hand, thread_active, wire, delivered>>
      /\ write_packet_pool \in Seq(PACKETs)
  BY DEF IInv, TypeOK, Completion
<1>2. /\ write_packet_pool' \in Seq(PACKETs) /\ Pool' = {b} \union Pool
      /\ IsInjective(write_packet_pool')
  BY <1>1, PutFirst, Owners DEF Pool, Apart
<1>3. TypeOK' /\ InHand'
  BY <1>1, <1>2 DEF TypeOK, InHand
<1>4. OneOwner' /\ FewPackets'
  <2>1. Queue' = Queue /\ Hand' = Hand /\ Held' = Held
    BY <1>1 DEF Queue, Hand, Held
  <2>2. Apart'
    BY <2>1, <1>1, <1>2, Owners DEF Apart
  <2>3. OneByOne'
    BY PlacesOneByOne, PTL
  <2>4. Allocated' = Allocated
    BY <2>1, <2>3, <1>1, <1>2, Owners DEF OneByOne
  <2>5. IsInjective(send_queue)'
    BY <1>1, Owners
  <2>6. QED
    BY <2>2, <2>4, <2>5, <1>1, <1>2, Moved DEF IInv
<1>5. Order' /\ OneEcho'
  BY <1>1 DEF IInv, OneEcho, Order, SentInOrder, QueueInOrder, WireBeforeQueue, HandBetween,
              HeldIsNew, Newest
<1>6. QED
  BY <1>3, <1>4, <1>5 DEF IInv

\* get_send_head(): the oldest packet of the queue goes into the writer's hand.
LEMMA TakeStep ==
  ASSUME IInv, get_send_head
  PROVE  IInv'
<1>1. /\ TypeOK /\ InHand /\ writer = "take" /\ hand = 0
      /\ UNCHANGED <<mac, sent, held, write_packet_pool, content, echo_count, pending_packet,
                     int_send_now, driver, thread_active, wire, delivered>>
      /\ send_queue \in Seq(PACKETs)
  BY DEF IInv, InHand, TypeOK, get_send_head
<1>2. CASE ~ (thread_active /\ send_queue # <<>>)
  <2>1. writer' \in {"wait", "ended"} /\ UNCHANGED <<hand, send_queue>>
    BY <1>2 DEF get_send_head
  <2>2. TypeOK' /\ InHand'
    BY <2>1, <1>1 DEF TypeOK, InHand
  <2>3. OneOwner' /\ FewPackets'
    BY <2>1, <1>1, Unmoved DEF IInv
  <2>4. Order' /\ OneEcho'
    BY <2>1, <1>1 DEF IInv, OneEcho, Order, SentInOrder, QueueInOrder, WireBeforeQueue,
                      HandBetween, HeldIsNew, Newest
  <2>5. QED
    BY <2>2, <2>3, <2>4 DEF IInv
<1>3. CASE thread_active /\ send_queue # <<>>
  <2>1. /\ hand' = Head(send_queue) /\ writer' = "send" /\ send_queue' = Tail(send_queue)
        /\ IsInjective(send_queue)
    BY <1>3, Owners DEF get_send_head
  <2>2. /\ hand' \in Queue /\ hand' \in PACKETs /\ send_queue' \in Seq(PACKETs)
        /\ IsInjective(send_queue') /\ Queue' = Queue \ {hand'}
    BY <2>1, <1>1, <1>3, TakeHead DEF Queue
  <2>3. Hand = {} /\ Hand' = {hand'} /\ Held' = Held /\ Pool' = Pool
    BY <2>2, <1>1 DEF Hand, Held, Pool, PACKETs
  <2>n. hand' \in 0 .. MaxSends /\ hand' # 0
    BY <2>2 DEF PACKETs
  <2>4. TypeOK' /\ InHand'
    BY <2>1, <2>2, <2>n, <1>1 DEF TypeOK, InHand
  <2>5. OneOwner' /\ FewPackets'
    <3>1. Apart'
      BY <2>2, <2>3, <1>1, Owners DEF Apart
    <3>2. OneByOne'
      BY PlacesOneByOne, PTL
    <3>3. Allocated' = Allocated
      BY <3>2, <2>2, <2>3, <1>1, Owners DEF OneByOne
    <3>4. IsInjective(write_packet_pool)'
      BY <1>1, Owners
    <3>5. QED
      BY <3>1, <3>3, <3>4, <2>2, <1>1, Moved DEF IInv
  <2>6. Order'
    <3>1. /\ DOMAIN send_queue = 1 .. Len(send_queue) /\ Len(send_queue) \in Nat \ {0}
          /\ DOMAIN send_queue' = 1 .. Len(send_queue) - 1
          /\ \A i \in 1 .. Len(send_queue) - 1 : send_queue'[i] = send_queue[i + 1]
          /\ hand' = send_queue[1]
      BY <2>1, <1>1, <1>3, HeadTailProperties, LenProperties, EmptySeq
    <3>2. Newest' = Newest /\ content' = content /\ wire' = wire
      BY <1>1 DEF Newest
    <3>3. SentInOrder' /\ HeldIsNew'
      BY <1>1 DEF IInv, Order, SentInOrder, HeldIsNew
    <3>n. \A i \in 1 .. Len(send_queue) - 1 :
            i \in 1 .. Len(send_queue) /\ i + 1 \in 1 .. Len(send_queue) /\ 1 < i + 1
      BY <3>1
    <3>4. QueueInOrder'
      <4>1. \A j, k \in 1 .. Len(send_queue) - 1 : j < k => j + 1 < k + 1
        OBVIOUS
      <4>2. /\ \A j, k \in 1 .. Len(send_queue) :
                 j < k => content[send_queue[j]] < content[send_queue[k]]
            /\ \A j \in 1 .. Len(send_queue) : content[send_queue[j]] \in 1 .. Newest
        BY <3>1 DEF IInv, Order, QueueInOrder
      <4>3. \A j, k \in 1 .. Len(send_queue) - 1 :
              j < k => content'[send_queue'[j]] < content'[send_queue'[k]]
        BY <3>1, <3>2, <3>n, <4>1, <4>2
      <4>4. \A j \in 1 .. Len(send_queue) - 1 : content'[send_queue'[j]] \in 1 .. Newest'
        BY <3>1, <3>2, <3>n, <4>2
      <4>5. QED
        BY <4>3, <4>4, <3>1 DEF QueueInOrder
    <3>5. WireBeforeQueue'
      BY <3>1, <3>2 DEF IInv, Order, WireBeforeQueue
    <3>6. HandBetween'
      <4>1. 1 \in DOMAIN send_queue
        BY <3>1
      <4>2. content'[hand'] \in 1 .. Newest'
        BY <4>1, <3>1, <3>2 DEF IInv, Order, QueueInOrder
      <4>3. \A j \in DOMAIN wire' : wire'[j] < content'[hand']
        BY <4>1, <3>1, <3>2 DEF IInv, Order, WireBeforeQueue
      <4>4. \A k \in DOMAIN send_queue' : content'[hand'] < content'[send_queue'[k]]
        BY <4>1, <3>1, <3>2, <3>n DEF IInv, Order, QueueInOrder
      <4>5. QED
        BY <4>2, <4>3, <4>4 DEF HandBetween
    <3>7. QED
      BY <3>3, <3>4, <3>5, <3>6 DEF Order
  <2>7. QED
    BY <2>4, <2>5, <2>6, <1>1 DEF IInv, OneEcho
<1>4. QED
  BY <1>2, <1>3

\* The packet in hand leaves the order: to the network, or it is lost.
LEMMA SendOrder ==
  ASSUME IInv, writer = "send", writer' = "take",
         \/ wire' = Append(wire, content[hand])
         \/ wire' = wire,
         UNCHANGED <<mac, sent, held, send_queue, content>>
  PROVE  Order' /\ wire' \in Seq(Sends)
<1>1. /\ TypeOK /\ hand \in PACKETs /\ content[hand] \in 1 .. Newest /\ wire \in Seq(Sends)
      /\ Newest' = Newest /\ sent \in 0 .. MaxSends
  BY DEF IInv, TypeOK, InHand, Order, HandBetween, PACKETs, Newest
<1>2. content[hand] \in Sends
  BY <1>1 DEF Newest, Sends
<1>3. QueueInOrder' /\ HandBetween' /\ HeldIsNew'
  BY <1>1 DEF IInv, Order, QueueInOrder, HandBetween, HeldIsNew
<1>4. CASE wire' = wire
  BY <1>1, <1>3, <1>4 DEF IInv, Order, SentInOrder, WireBeforeQueue
<1>5. CASE wire' = Append(wire, content[hand])
  <2>1. /\ DOMAIN wire = 1 .. Len(wire) /\ Len(wire) \in Nat
        /\ wire' \in Seq(Sends) /\ DOMAIN wire' = 1 .. Len(wire) + 1
        /\ \A i \in 1 .. Len(wire) : wire'[i] = wire[i]
        /\ wire'[Len(wire) + 1] = content[hand]
    BY <1>1, <1>2, <1>5, AppendProperties, LenProperties
  <2>2. SentInOrder'
    BY <2>1 DEF IInv, Order, SentInOrder, HandBetween
  <2>3. WireBeforeQueue'
    BY <2>1, <1>1 DEF IInv, Order, WireBeforeQueue, HandBetween
  <2>4. QED
    BY <2>1, <2>2, <2>3, <1>3 DEF Order
<1>6. QED
  BY <1>4, <1>5

\* SendPacket(): to the driver, or back to the pool.
LEMMA SendStep ==
  ASSUME IInv, SendPacket
  PROVE  IInv'
<1>1. /\ TypeOK /\ InHand /\ writer = "send" /\ writer' = "take" /\ hand \in PACKETs
      /\ hand' = 0 /\ write_packet_pool \in Seq(PACKETs)
      /\ UNCHANGED <<mac, sent, held, send_queue, content, echo_count, pending_packet,
                     int_send_now, thread_active, delivered>>
      /\ \/ wire' = Append(wire, content[hand])
         \/ wire' = wire
      /\ \/ write_packet_pool' = <<hand>> \o write_packet_pool /\ driver' = driver
         \/ write_packet_pool' = write_packet_pool /\ driver' = driver \union {hand}
  <2>1. TypeOK /\ InHand /\ writer = "send"
    BY DEF IInv, SendPacket
  <2>2. hand \in PACKETs /\ write_packet_pool \in Seq(PACKETs)
    BY <2>1 DEF TypeOK, InHand, PACKETs
  <2>3. QED
    BY <2>1, <2>2 DEF SendPacket
<1>2. Order' /\ wire' \in Seq(Sends)
  BY <1>1, SendOrder
<1>3. Hand = {hand} /\ Hand' = {} /\ Held' = Held /\ Queue' = Queue
  BY <1>1 DEF Hand, Held, Queue, PACKETs
<1>4. OneByOne'
  BY PlacesOneByOne, PTL
<1>5. CASE write_packet_pool' = <<hand>> \o write_packet_pool /\ driver' = driver
  <2>1. /\ write_packet_pool' \in Seq(PACKETs) /\ Pool' = {hand} \union Pool
        /\ IsInjective(write_packet_pool')
    BY <1>1, <1>3, <1>5, PutFirst, Owners DEF Pool, Apart
  <2>2. Apart'
    BY <2>1, <1>3, <1>5, Owners DEF Apart
  <2>3. Allocated' = Allocated
    BY <2>1, <1>3, <1>4, <1>5, Owners DEF OneByOne
  <2>4. IsInjective(send_queue)'
    BY <1>1, Owners
  <2>5. OneOwner' /\ FewPackets'
    BY <2>1, <2>2, <2>3, <2>4, <1>1, Moved DEF IInv
  <2>6. TypeOK' /\ InHand' /\ OneEcho'
    BY <2>1, <1>1, <1>2, <1>5 DEF IInv, TypeOK, InHand, OneEcho
  <2>7. QED
    BY <2>5, <2>6, <1>2 DEF IInv
<1>6. CASE write_packet_pool' = write_packet_pool /\ driver' = driver \union {hand}
  <2>1. Pool' = Pool
    BY <1>6 DEF Pool
  <2>2. Apart'
    BY <2>1, <1>3, <1>6, Owners DEF Apart
  <2>3. Allocated' = Allocated
    BY <2>1, <1>3, <1>4, <1>6, Owners DEF OneByOne
  <2>4. IsInjective(send_queue)' /\ IsInjective(write_packet_pool)'
    BY <1>1, <1>6, Owners
  <2>5. OneOwner' /\ FewPackets'
    BY <2>2, <2>3, <2>4, <1>1, Moved DEF IInv
  <2>6. TypeOK' /\ InHand' /\ OneEcho'
    BY <1>1, <1>2, <1>6 DEF IInv, TypeOK, InHand, OneEcho
  <2>7. QED
    BY <2>5, <2>6, <1>2 DEF IInv
<1>7. QED
  BY <1>1, <1>5, <1>6

\* The steps that move neither a PACKET nor a packet.
LEMMA QuietStep ==
  ASSUME IInv,
         \/ SignalSend
         \/ WaitSendNow
         \/ EtherExit
         \/ \E p \in Sends : EchoArrives(p)
         \/ UNCHANGED vars
  PROVE  IInv'
<1>1. /\ UNCHANGED <<sent, write_packet_pool, send_queue, driver, hand, held, content, wire,
                     echo_count, pending_packet>>
      /\ mac' = mac \/ (mac = "signal" /\ mac' = "run")
      /\ writer' = writer \/ (writer = "wait" /\ writer' = "take")
      /\ TypeOK /\ InHand
  BY DEF SignalSend, WaitSendNow, EtherExit, EchoArrives, vars, IInv
<1>2. OneOwner' /\ FewPackets'
  BY <1>1, Unmoved DEF IInv
<1>3. InHand' /\ Order' /\ OneEcho'
  BY <1>1 DEF IInv, InHand, OneEcho, Order, SentInOrder, QueueInOrder, WireBeforeQueue,
              HandBetween, HeldIsNew, Newest
<1>4. /\ int_send_now' \in {0, 1} /\ thread_active' \in BOOLEAN /\ delivered' \subseteq Sends
  BY DEF SignalSend, WaitSendNow, EtherExit, EchoArrives, vars, IInv, TypeOK
<1>5. TypeOK'
  BY <1>1, <1>4 DEF TypeOK
<1>6. QED
  BY <1>2, <1>3, <1>5 DEF IInv

\* The invariant holds in every state.
THEOREM Invariance == Spec => []IInv
<1>1. ASSUME IInv, [Next]_vars
      PROVE  IInv'
  BY <1>1, GetStep, FillStep, InsertStep, CompletionStep, TakeStep, SendStep, QuietStep
     DEF Next, WritePacket, Writer
<1>2. QED
  BY <1>1, InitInv, PTL DEF Spec

\* The variables keep their types: get_write_packet() allocates at most one
\* PACKET for each packet of the Mac.
THEOREM TypeCorrect == Spec => []TypeOK
<1>1. IInv => TypeOK
  BY DEF IInv
<1>2. QED
  BY <1>1, Invariance, PTL

\* Every PACKET that was ever allocated is in exactly one place, however the
\* Mac, the writing thread, its completion routine and EtherExit() interleave.
THEOREM OneOwnerHolds == Spec => []OneOwner
<1>1. IInv => OneOwner
  BY DEF IInv
<1>2. QED
  BY <1>1, Invariance, PTL

\* Packets reach the network or the router in the order of write_packet(),
\* each at most once, though PACKETs are recycled.
THEOREM SentInOrderHolds == Spec => []SentInOrder
<1>1. IInv => SentInOrder
  BY DEF IInv, Order
<1>2. QED
  BY <1>1, Invariance, PTL

\* echo_count never leaves 0: write_packet() remembers the last packet only,
\* not the last MAX_ECHO.
THEOREM OneEchoHolds == Spec => []OneEcho
<1>1. IInv => OneEcho
  BY DEF IInv
<1>2. QED
  BY <1>1, Invariance, PTL

HIDE EtherSendAssumption

-----------------------------------------------------------------------------
(* AudioStream.                                                            *)

USE AudioAssumption

Leaving == pc["stream"] \in {"close", "drain", "shut", "forget"}

\* The stream thread has a block that is to be written.
HasBlock ==
  \/ pc["stream"] \in {"fill", "open", "opening", "opened", "write"}
  \/ Leaving /\ back = "open"

\* It is on its way out.
Ending == pc["stream"] = "ended" \/ (Leaving /\ back = "ended")

\* One block at a time is asked for, produced and written.
Exchange ==
  /\ Leaving => back # "top"
  /\ info \in {0, fetched}
  /\ HasBlock => block = fetched /\ ~ INTFLAG_AUDIO
  /\ INTFLAG_AUDIO => pc["stream"] = "wait" \/ (Ending /\ ~ sound_running)
  /\ sound_running /\ audio_irq_done_sem = 1 => pc["stream"] = "wait" /\ ~ INTFLAG_AUDIO

\* There is room for the block.
Room ==
  /\ HasBlock \/ pc["stream"] = "wait" => playing_sound_count < Buffers
  /\ pc["stream"] \in {"wait", "fill"} /\ hWaveOut # "none" => Cardinality(Queued) < Buffers
  /\ HasBlock /\ pc["stream"] # "fill" => abufs[Written] # "queued"

\* A device is open only with its handle: close_sound() finds it without blocks,
\* but for blocks and devices that come while the CPU thread is in it.
Kept ==
  /\ ~ lost
  /\ hWaveOut # "open" => playing = {}
  /\ pc["stream"] \in {"drain", "shut"} => playing = {}
  /\ pc["stream"] = "forget" => hWaveOut # "open"
  /\ pc["stream"] \in {"open", "opening"} => hWaveOut = "none"
  /\ pc["cpu"] \in {"drain", "shut"} => playing = {} \/ raced
  /\ pc["cpu"] = "forget" => hWaveOut # "open" \/ raced

AudioInv == SoundTypeOK /\ Exchange /\ Room /\ Kept

-----------------------------------------------------------------------------
\* There are as many slots as buffers.
LEMMA SlotsFinite == IsFiniteSet(Slots) /\ Cardinality(Slots) = Buffers
BY FS_Interval DEF Slots

\* Fewer buffers play than there are when one does not.
LEMMA QueuedBounded ==
  ASSUME SoundTypeOK
  PROVE  /\ IsFiniteSet(Queued) /\ Cardinality(Queued) \in 0 .. Buffers
         /\ \A b \in Slots : abufs[b] # "queued" => Cardinality(Queued) < Buffers
<1>1. Queued \subseteq Slots
  BY DEF Queued
<1>2. IsFiniteSet(Queued) /\ Cardinality(Queued) \in 0 .. Buffers
  BY <1>1, SlotsFinite, FS_Subset, FS_CardinalityType
<1>3. ASSUME NEW b \in Slots, abufs[b] # "queued"
      PROVE  Cardinality(Queued) < Buffers
  <2>1. b \notin Queued
    BY <1>3 DEF Queued
  <2>2. Queued # Slots
    BY <2>1
  <2>3. Cardinality(Queued) # Cardinality(Slots)
    BY <1>1, <2>2, SlotsFinite, FS_Subset
  <2>4. QED
    BY <2>3, <1>2, SlotsFinite
<1>4. QED
  BY <1>2, <1>3

\* A set of playing buffers that shrinks stays finite.
LEMMA QueuedShrinks ==
  ASSUME SoundTypeOK, Queued' \subseteq Queued
  PROVE  IsFiniteSet(Queued') /\ Cardinality(Queued') \in 0 .. Cardinality(Queued)
BY QueuedBounded, FS_Subset, FS_CardinalityType

-----------------------------------------------------------------------------
\* The slot after the one that is filled next, and back.
LEMMA NextFree ==
  ASSUME SoundTypeOK
  PROVE  /\ (next_free_sound + 1) % Buffers \in Slots
         /\ (((next_free_sound + 1) % Buffers) + Buffers - 1) % Buffers = next_free_sound
         /\ Written \in Slots
<1>1. next_free_sound \in 0 .. Buffers - 1
  BY DEF SoundTypeOK, Slots
<1>2. CASE next_free_sound + 1 = Buffers
  BY <1>1, <1>2 DEF Slots, Written
<1>3. CASE next_free_sound + 1 < Buffers
  <2>1. (next_free_sound + 1) % Buffers = next_free_sound + 1
    BY <1>1, <1>3
  <2>2. ((next_free_sound + 1) + Buffers - 1) % Buffers = next_free_sound
    BY <1>1, <1>3
  <2>3. QED
    BY <1>1, <2>1, <2>2, <1>3 DEF Slots, Written
<1>4. QED
  BY <1>1, <1>2, <1>3

\* What the CPU thread does elsewhere leaves the room there is.
LEMMA RoomKept ==
  ASSUME AudioInv, UNCHANGED <<abufs, playing_sound_count, next_free_sound, back>>,
         hWaveOut = "none" => hWaveOut' = "none", pc'["stream"] = pc["stream"]
  PROVE  Room'
<1>1. Queued' = Queued
  BY DEF Queued
<1>2. QED
  BY <1>1 DEF AudioInv, Room, HasBlock, Leaving, Written

\* Counting changes no queue.
LEMMA CountValues ==
  ASSUME SoundTypeOK, CountPlaying
  PROVE  /\ abufs' \in [Slots -> {"free", "queued", "done"}]
         /\ \A b \in Slots : abufs'[b] = "queued" <=> abufs[b] = "queued"
         /\ Queued' = Queued
         /\ playing_sound_count' = IF hWaveOut # "none" THEN Cardinality(Queued) ELSE 0
         /\ playing_sound_count' \in 0 .. Buffers
<1>1. abufs' \in [Slots -> {"free", "queued", "done"}]
  BY DEF SoundTypeOK, CountPlaying
<1>2. \A b \in Slots : abufs'[b] = "queued" <=> abufs[b] = "queued"
  BY DEF SoundTypeOK, CountPlaying
<1>3. Queued' = Queued
  BY <1>2 DEF Queued
<1>4. playing_sound_count' = IF hWaveOut # "none" THEN Cardinality(Queued) ELSE 0
  BY DEF CountPlaying
<1>5. QED
  BY <1>1, <1>2, <1>3, <1>4, QueuedBounded

\* The thread gets a block, or none, or is to end.
LEMMA AckValues ==
  ASSUME SoundTypeOK, StreamAck
  PROVE  /\ pc["stream"] = "wait" /\ pc'["cpu"] = pc["cpu"]
         /\ audio_irq_done_sem = 1 /\ audio_irq_done_sem' = 0
         /\ UNCHANGED <<macVars, INTFLAG_AUDIO, sound_running>>
         /\ UNCHANGED <<abufs, hWaveOut, playing_sound_count, next_free_sound>>
         /\ \/ pc'["stream"] = "close" /\ back' = "ended" /\ block' = block
            \/ sound_running /\ pc'["stream"] \in {"top", "empty"} /\ back' = back /\ block' = block
            \/ sound_running /\ pc'["stream"] = "fill" /\ back' = back /\ block' = info /\ info # 0
<1>1. /\ pc["stream"] = "wait" /\ audio_irq_done_sem = 1 /\ audio_irq_done_sem' = 0
      /\ UNCHANGED <<macVars, INTFLAG_AUDIO, sound_running>>
  BY DEF StreamAck
<1>2. UNCHANGED <<abufs, hWaveOut, playing_sound_count, next_free_sound>>
  BY DEF StreamAck, devVars, deviceVars
<1>3. CASE ~ sound_running \/ ~ audio_data
  <2>1. Goto("stream", "close") /\ back' = "ended" /\ block' = block
    BY <1>3 DEF StreamAck
  <2>2. QED
    BY <1>1, <1>2, <2>1 DEF Goto, SoundTypeOK, Threads
<1>4. CASE sound_running /\ audio_data
  <2>1. \/ (Goto("stream", "top") \/ Goto("stream", "empty")) /\ back' = back /\ block' = block
        \/ Goto("stream", "fill") /\ back' = back /\ block' = info /\ info # 0
    BY <1>4 DEF StreamAck
  <2>2. QED
    BY <1>1, <1>2, <1>4, <2>1 DEF Goto, SoundTypeOK, Threads
<1>6. QED
  BY <1>1, <1>3, <1>4 DEF SoundTypeOK

\* Every step keeps the types.
LEMMA SoundTypes ==
  ASSUME AudioInv, [SoundNext]_soundVars
  PROVE  SoundTypeOK'
<1>1. CASE StreamTop
  BY <1>1, QueuedBounded, NextFree DEF SoundTypeOK, Threads, StreamPCs, CpuPCs, Slots, Blocks,
     AudioInv, StreamTop, Goto, macVars, devVars, deviceVars
<1>2. CASE StreamRequest
  <2>t. SoundTypeOK
    BY DEF AudioInv
  <2>1. {audio_data, mixer, INTFLAG_AUDIO, muted, needed, sound_running, lost, raced, refused}' \subseteq BOOLEAN
    BY <1>2, <2>t, Zenon DEF SoundTypeOK, StreamRequest, deviceVars, CountPlaying, Goto, streamUnchanged,
       macVars
  <2>2. pc' \in [Threads -> StreamPCs \union CpuPCs] /\ pc'["stream"] \in StreamPCs
        /\ pc'["cpu"] \in CpuPCs /\ back' \in {"top", "count", "ended", "open"}
    BY <1>2, <2>t DEF SoundTypeOK, Threads, StreamPCs, CpuPCs, StreamRequest, deviceVars, CountPlaying,
       Goto, streamUnchanged, macVars
  <2>3. /\ open_count' \in 0 .. MaxOpens /\ num_sources' \in 0 .. MaxSources
        /\ info' \in {0} \union Blocks /\ fetched' \in Blocks /\ block' \in {0} \union Blocks
        /\ audio_irq_done_sem' \in 0 .. 1
    BY <1>2, <2>t DEF SoundTypeOK, Blocks, StreamRequest, deviceVars, CountPlaying, Goto, streamUnchanged,
       macVars
  <2>4. /\ abufs' \in [Slots -> {"free", "queued", "done"}]
        /\ next_free_sound' \in Slots /\ playing_sound_count' \in 0 .. Buffers
    BY <1>2, <2>t, CountValues DEF SoundTypeOK, StreamRequest, deviceVars, Goto, streamUnchanged, macVars
  <2>6. hWaveOut' \in {"none", "open", "stale"} /\ playing' \subseteq Slots /\ stray' \subseteq Slots
    BY <1>2, <2>t, CountValues DEF SoundTypeOK, StreamRequest, deviceVars, Goto, streamUnchanged, macVars
  <2>5. QED
    BY <2>1, <2>2, <2>3, <2>4, <2>6 DEF SoundTypeOK
<1>3. CASE StreamAck
  <2>t. SoundTypeOK
    BY DEF AudioInv
  <2>1. {audio_data, mixer, INTFLAG_AUDIO, muted, needed, sound_running, lost, raced, refused}' \subseteq BOOLEAN
    BY <1>3, <2>t, Zenon DEF SoundTypeOK, StreamAck, Goto, macVars, devVars, deviceVars
  <2>2. pc' \in [Threads -> StreamPCs \union CpuPCs] /\ pc'["stream"] \in StreamPCs
        /\ pc'["cpu"] \in CpuPCs /\ back' \in {"top", "count", "ended", "open"}
    <3>1. /\ back' \in {back, "ended"}
          /\ \E label \in {"close", "top", "empty", "fill"} : Goto("stream", label)
      BY <1>3, Zenon DEF StreamAck
    <3>2. PICK label \in {"close", "top", "empty", "fill"} : pc' = [pc EXCEPT !["stream"] = label]
      BY <3>1 DEF Goto
    <3>3. QED
      BY <2>t, <3>1, <3>2 DEF SoundTypeOK, Threads, StreamPCs
  <2>3. /\ open_count' \in 0 .. MaxOpens /\ num_sources' \in 0 .. MaxSources
        /\ info' \in {0} \union Blocks /\ fetched' \in Blocks /\ block' \in {0} \union Blocks
        /\ audio_irq_done_sem' \in 0 .. 1
    BY <1>3, <2>t, AckValues DEF SoundTypeOK, macVars
  <2>4. /\ abufs' \in [Slots -> {"free", "queued", "done"}]
        /\ next_free_sound' \in Slots /\ playing_sound_count' \in 0 .. Buffers
    BY <1>3, <2>t DEF SoundTypeOK, StreamAck, Goto, macVars, devVars, deviceVars
  <2>6. hWaveOut' \in {"none", "open", "stale"} /\ playing' \subseteq Slots /\ stray' \subseteq Slots
    BY <1>3, <2>t DEF SoundTypeOK, StreamAck, Goto, macVars, devVars, deviceVars
  <2>5. QED
    BY <2>1, <2>2, <2>3, <2>4, <2>6 DEF SoundTypeOK
<1>4. CASE StreamFill
  <2>t. SoundTypeOK
    BY DEF AudioInv
  <2>1. {audio_data, mixer, INTFLAG_AUDIO, muted, needed, sound_running, lost, raced, refused}' \subseteq BOOLEAN
    BY <1>4, <2>t, Zenon DEF SoundTypeOK, StreamFill, deviceVars, Goto, macVars
  <2>2. pc' \in [Threads -> StreamPCs \union CpuPCs] /\ pc'["stream"] \in StreamPCs
        /\ pc'["cpu"] \in CpuPCs /\ back' \in {"top", "count", "ended", "open"}
    BY <1>4, <2>t DEF SoundTypeOK, Threads, StreamPCs, CpuPCs, StreamFill, deviceVars, Goto, macVars
  <2>3. /\ open_count' \in 0 .. MaxOpens /\ num_sources' \in 0 .. MaxSources
        /\ info' \in {0} \union Blocks /\ fetched' \in Blocks /\ block' \in {0} \union Blocks
        /\ audio_irq_done_sem' \in 0 .. 1
    BY <1>4, <2>t DEF SoundTypeOK, Blocks, StreamFill, deviceVars, Goto, macVars
  <2>4. /\ abufs' \in [Slots -> {"free", "queued", "done"}]
        /\ next_free_sound' \in Slots /\ playing_sound_count' \in 0 .. Buffers
    BY <1>4, <2>t, NextFree DEF SoundTypeOK, StreamFill, deviceVars, Goto, macVars
  <2>6. hWaveOut' \in {"none", "open", "stale"} /\ playing' \subseteq Slots /\ stray' \subseteq Slots
    BY <1>4, <2>t DEF SoundTypeOK, StreamFill, deviceVars, Goto, macVars
  <2>5. QED
    BY <2>1, <2>2, <2>3, <2>4, <2>6 DEF SoundTypeOK
<1>5. CASE StreamOpen
  BY <1>5, QueuedBounded, NextFree DEF SoundTypeOK, Threads, StreamPCs, CpuPCs, Slots, Blocks,
     AudioInv, StreamOpen, Goto, devVars, deviceVars, streamUnchanged, macVars
<1>6. CASE waveOutOpen
  BY <1>6, QueuedBounded, NextFree DEF SoundTypeOK, Threads, StreamPCs, CpuPCs, Slots, Blocks,
     AudioInv, waveOutOpen, Forget, closing, Goto, streamUnchanged, macVars
<1>7. CASE StreamOpened
  BY <1>7, QueuedBounded, NextFree DEF SoundTypeOK, Threads, StreamPCs, CpuPCs, Slots, Blocks,
     AudioInv, StreamOpened, Goto, devVars, deviceVars, streamUnchanged, macVars
<1>8. CASE StreamWrite
  <2>t. SoundTypeOK
    BY DEF AudioInv
  <2>1. {audio_data, mixer, INTFLAG_AUDIO, muted, needed, sound_running, lost, raced, refused}' \subseteq BOOLEAN
    <3>1. raced' \in BOOLEAN
      <4>1. closing \in BOOLEAN
        BY DEF closing
      <4>2. raced' = closing \/ raced' = raced
        BY <1>8, Zenon DEF StreamWrite
      <4>3. QED
        BY <2>t, <4>1, <4>2, Zenon DEF SoundTypeOK
    <3>2. QED
      BY <1>8, <2>t, <3>1, Zenon DEF SoundTypeOK, StreamWrite, Goto, streamUnchanged, macVars
  <2>2. pc' \in [Threads -> StreamPCs \union CpuPCs] /\ pc'["stream"] \in StreamPCs
        /\ pc'["cpu"] \in CpuPCs /\ back' \in {"top", "count", "ended", "open"}
    BY <1>8, <2>t DEF SoundTypeOK, Threads, StreamPCs, CpuPCs, StreamWrite, closing, Goto,
       streamUnchanged, macVars
  <2>3. /\ open_count' \in 0 .. MaxOpens /\ num_sources' \in 0 .. MaxSources
        /\ info' \in {0} \union Blocks /\ fetched' \in Blocks /\ block' \in {0} \union Blocks
        /\ audio_irq_done_sem' \in 0 .. 1
    BY <1>8, <2>t DEF SoundTypeOK, Blocks, StreamWrite, closing, Goto, streamUnchanged, macVars
  <2>4. /\ abufs' \in [Slots -> {"free", "queued", "done"}]
        /\ next_free_sound' \in Slots /\ playing_sound_count' \in 0 .. Buffers
    BY <1>8, <2>t, NextFree DEF AudioInv, Room, HasBlock, SoundTypeOK, StreamWrite, streamUnchanged,
       macVars
  <2>6. hWaveOut' \in {"none", "open", "stale"} /\ playing' \subseteq Slots /\ stray' \subseteq Slots
    BY <1>8, <2>t, NextFree DEF AudioInv, Room, HasBlock, SoundTypeOK, StreamWrite, streamUnchanged,
       macVars
  <2>5. QED
    BY <2>1, <2>2, <2>3, <2>4, <2>6 DEF SoundTypeOK
<1>9. CASE AudioInterrupt
  <2>t. SoundTypeOK
    BY DEF AudioInv
  <2>1. {audio_data, mixer, INTFLAG_AUDIO, muted, needed, sound_running, lost, raced, refused}' \subseteq BOOLEAN
    BY <1>9, <2>t, Zenon DEF SoundTypeOK, AudioInterrupt, cpuUnchanged, devVars, deviceVars
  <2>2. pc' \in [Threads -> StreamPCs \union CpuPCs] /\ pc'["stream"] \in StreamPCs
        /\ pc'["cpu"] \in CpuPCs /\ back' \in {"top", "count", "ended", "open"}
    BY <1>9, <2>t DEF SoundTypeOK, Threads, StreamPCs, CpuPCs, AudioInterrupt, cpuUnchanged,
       devVars, deviceVars
  <2>3. /\ open_count' \in 0 .. MaxOpens /\ num_sources' \in 0 .. MaxSources
        /\ info' \in {0} \union Blocks /\ fetched' \in Blocks /\ block' \in {0} \union Blocks
        /\ audio_irq_done_sem' \in 0 .. 1
    BY <1>9, <2>t DEF SoundTypeOK, Blocks, AudioInterrupt, cpuUnchanged, devVars, deviceVars
  <2>4. /\ abufs' \in [Slots -> {"free", "queued", "done"}]
        /\ next_free_sound' \in Slots /\ playing_sound_count' \in 0 .. Buffers
    BY <1>9, <2>t DEF SoundTypeOK, AudioInterrupt, cpuUnchanged, devVars, deviceVars
  <2>6. hWaveOut' \in {"none", "open", "stale"} /\ playing' \subseteq Slots /\ stray' \subseteq Slots
    BY <1>9, <2>t DEF SoundTypeOK, AudioInterrupt, cpuUnchanged, devVars, deviceVars
  <2>5. QED
    BY <2>1, <2>2, <2>3, <2>4, <2>6 DEF SoundTypeOK
<1>10. CASE ComponentOpen
  BY <1>10, QueuedBounded, NextFree DEF SoundTypeOK, Threads, StreamPCs, CpuPCs, Slots, Blocks,
     AudioInv, ComponentOpen, ComponentCall, cpuUnchanged, devVars, deviceVars
<1>11. CASE ComponentClose
  BY <1>11, QueuedBounded, NextFree DEF SoundTypeOK, Threads, StreamPCs, CpuPCs, Slots, Blocks,
     AudioInv, ComponentClose, ComponentCall, cpuUnchanged, devVars, deviceVars
<1>12. CASE InitOutputDevice
  BY <1>12, QueuedBounded, NextFree DEF SoundTypeOK, Threads, StreamPCs, CpuPCs, Slots, Blocks,
     AudioInv, InitOutputDevice, ComponentCall, cpuUnchanged, devVars, deviceVars
<1>13. CASE AddSource
  BY <1>13, QueuedBounded, NextFree DEF SoundTypeOK, Threads, StreamPCs, CpuPCs, Slots, Blocks,
     AudioInv, AddSource, ComponentCall, cpuUnchanged, devVars, deviceVars
<1>14. CASE RemoveSource
  BY <1>14, QueuedBounded, NextFree DEF SoundTypeOK, Threads, StreamPCs, CpuPCs, Slots, Blocks,
     AudioInv, RemoveSource, ComponentCall, cpuUnchanged, devVars, deviceVars
<1>15. CASE Mute
  BY <1>15, QueuedBounded, NextFree DEF SoundTypeOK, Threads, StreamPCs, CpuPCs, Slots, Blocks,
     AudioInv, Mute, Goto, macVars, devVars, deviceVars
<1>16. CASE Unmute
  BY <1>16, QueuedBounded, NextFree DEF SoundTypeOK, Threads, StreamPCs, CpuPCs, Slots, Blocks,
     AudioInv, Unmute, Goto, macVars, devVars, deviceVars
<1>17. CASE update_sound_parameters
  BY <1>17, QueuedBounded, NextFree DEF SoundTypeOK, Threads, StreamPCs, CpuPCs, Slots, Blocks,
     AudioInv, update_sound_parameters, InSection, Goto, macVars, devVars, deviceVars
<1>18. CASE SetParameters
  BY <1>18, QueuedBounded, NextFree DEF SoundTypeOK, Threads, StreamPCs, CpuPCs, Slots, Blocks,
     AudioInv, SetParameters, Goto, macVars, devVars, deviceVars
<1>19. CASE Reset
  BY <1>19, QueuedBounded, NextFree DEF SoundTypeOK, Threads, StreamPCs, CpuPCs, Slots, Blocks,
     AudioInv, Reset, ComponentCall, cpuUnchanged, devVars, deviceVars
<1>20. CASE AudioExit
  <2>t. SoundTypeOK
    BY DEF AudioInv
  <2>1. {audio_data, mixer, INTFLAG_AUDIO, muted, needed, sound_running, lost, raced, refused}' \subseteq BOOLEAN
    BY <1>20, <2>t, Zenon DEF SoundTypeOK, AudioExit, macVars, devVars, deviceVars
  <2>2. pc' \in [Threads -> StreamPCs \union CpuPCs] /\ pc'["stream"] \in StreamPCs
        /\ pc'["cpu"] \in CpuPCs /\ back' \in {"top", "count", "ended", "open"}
    BY <1>20, <2>t DEF SoundTypeOK, Threads, StreamPCs, CpuPCs, AudioExit, macVars, devVars, deviceVars
  <2>3. /\ open_count' \in 0 .. MaxOpens /\ num_sources' \in 0 .. MaxSources
        /\ info' \in {0} \union Blocks /\ fetched' \in Blocks /\ block' \in {0} \union Blocks
        /\ audio_irq_done_sem' \in 0 .. 1
    BY <1>20, <2>t DEF SoundTypeOK, Blocks, AudioExit, macVars, devVars, deviceVars
  <2>4. /\ abufs' \in [Slots -> {"free", "queued", "done"}]
        /\ next_free_sound' \in Slots /\ playing_sound_count' \in 0 .. Buffers
    BY <1>20, <2>t DEF SoundTypeOK, AudioExit, macVars, devVars, deviceVars
  <2>6. hWaveOut' \in {"none", "open", "stale"} /\ playing' \subseteq Slots /\ stray' \subseteq Slots
    BY <1>20, <2>t DEF SoundTypeOK, AudioExit, macVars, devVars, deviceVars
  <2>5. QED
    BY <2>1, <2>2, <2>3, <2>4, <2>6 DEF SoundTypeOK
<1>21. CASE Played
  <2>t. SoundTypeOK
    BY DEF AudioInv
  <2>1. {audio_data, mixer, INTFLAG_AUDIO, muted, needed, sound_running, lost, raced, refused}' \subseteq BOOLEAN
    BY <1>21, <2>t, Zenon DEF SoundTypeOK, Played, macVars
  <2>2. pc' \in [Threads -> StreamPCs \union CpuPCs] /\ pc'["stream"] \in StreamPCs
        /\ pc'["cpu"] \in CpuPCs /\ back' \in {"top", "count", "ended", "open"}
    BY <1>21, <2>t DEF SoundTypeOK, Threads, StreamPCs, CpuPCs, Played, macVars
  <2>3. /\ open_count' \in 0 .. MaxOpens /\ num_sources' \in 0 .. MaxSources
        /\ info' \in {0} \union Blocks /\ fetched' \in Blocks /\ block' \in {0} \union Blocks
        /\ audio_irq_done_sem' \in 0 .. 1
    BY <1>21, <2>t DEF SoundTypeOK, Blocks, Played, macVars
  <2>4. /\ abufs' \in [Slots -> {"free", "queued", "done"}]
        /\ next_free_sound' \in Slots /\ playing_sound_count' \in 0 .. Buffers
    BY <1>21, <2>t DEF SoundTypeOK, Played, macVars
  <2>6. hWaveOut' \in {"none", "open", "stale"} /\ playing' \subseteq Slots /\ stray' \subseteq Slots
    BY <1>21, <2>t DEF SoundTypeOK, Played, macVars
  <2>5. QED
    BY <2>1, <2>2, <2>3, <2>4, <2>6 DEF SoundTypeOK
<1>22. CASE CloseReset("stream")
  <2>t. SoundTypeOK
    BY DEF AudioInv
  <2>1. {audio_data, mixer, INTFLAG_AUDIO, muted, needed, sound_running, lost, raced, refused}' \subseteq BOOLEAN
    BY <1>22, <2>t, Zenon DEF SoundTypeOK, CloseReset, Goto, Return, closeUnchanged, macVars
  <2>2. pc' \in [Threads -> StreamPCs \union CpuPCs] /\ pc'["stream"] \in StreamPCs
        /\ pc'["cpu"] \in CpuPCs /\ back' \in {"top", "count", "ended", "open"}
    BY <1>22, <2>t DEF SoundTypeOK, Threads, StreamPCs, CpuPCs, CloseReset, Goto, Return, closeUnchanged, macVars
  <2>3. /\ open_count' \in 0 .. MaxOpens /\ num_sources' \in 0 .. MaxSources
        /\ info' \in {0} \union Blocks /\ fetched' \in Blocks /\ block' \in {0} \union Blocks
        /\ audio_irq_done_sem' \in 0 .. 1
    BY <1>22, <2>t DEF SoundTypeOK, Blocks, CloseReset, Goto, Return, closeUnchanged, macVars
  <2>4. /\ abufs' \in [Slots -> {"free", "queued", "done"}]
        /\ next_free_sound' \in Slots /\ playing_sound_count' \in 0 .. Buffers
    BY <1>22, <2>t DEF SoundTypeOK, CloseReset, Goto, Return, closeUnchanged, macVars
  <2>6. hWaveOut' \in {"none", "open", "stale"} /\ playing' \subseteq Slots /\ stray' \subseteq Slots
    BY <1>22, <2>t DEF SoundTypeOK, CloseReset, Goto, Return, closeUnchanged, macVars
  <2>5. QED
    BY <2>1, <2>2, <2>3, <2>4, <2>6 DEF SoundTypeOK
<1>23. CASE CloseDrain("stream")
  <2>t. SoundTypeOK
    BY DEF AudioInv
  <2>1. {audio_data, mixer, INTFLAG_AUDIO, muted, needed, sound_running, lost, raced, refused}' \subseteq BOOLEAN
    BY <1>23, <2>t, Zenon DEF SoundTypeOK, CloseDrain, CountPlaying, deviceVars, Goto, closeUnchanged, macVars
  <2>2. pc' \in [Threads -> StreamPCs \union CpuPCs] /\ pc'["stream"] \in StreamPCs
        /\ pc'["cpu"] \in CpuPCs /\ back' \in {"top", "count", "ended", "open"}
    BY <1>23, <2>t DEF SoundTypeOK, Threads, StreamPCs, CpuPCs, CloseDrain, CountPlaying, deviceVars, Goto, closeUnchanged, macVars
  <2>3. /\ open_count' \in 0 .. MaxOpens /\ num_sources' \in 0 .. MaxSources
        /\ info' \in {0} \union Blocks /\ fetched' \in Blocks /\ block' \in {0} \union Blocks
        /\ audio_irq_done_sem' \in 0 .. 1
    BY <1>23, <2>t DEF SoundTypeOK, Blocks, CloseDrain, CountPlaying, deviceVars, Goto, closeUnchanged, macVars
  <2>4. /\ abufs' \in [Slots -> {"free", "queued", "done"}]
        /\ next_free_sound' \in Slots /\ playing_sound_count' \in 0 .. Buffers
    BY <1>23, <2>t, CountValues DEF SoundTypeOK, CloseDrain, deviceVars, Goto, closeUnchanged, macVars
  <2>6. hWaveOut' \in {"none", "open", "stale"} /\ playing' \subseteq Slots /\ stray' \subseteq Slots
    BY <1>23, <2>t DEF SoundTypeOK, CloseDrain, CountPlaying, deviceVars, Goto, closeUnchanged, macVars
  <2>5. QED
    BY <2>1, <2>2, <2>3, <2>4, <2>6 DEF SoundTypeOK
<1>24. CASE CloseHandle("stream")
  <2>t. SoundTypeOK
    BY DEF AudioInv
  <2>1. {audio_data, mixer, INTFLAG_AUDIO, muted, needed, sound_running, lost, raced, refused}' \subseteq BOOLEAN
    BY <1>24, <2>t, Zenon DEF SoundTypeOK, CloseHandle, Forget, Goto, Return, closeUnchanged, macVars
  <2>2. pc' \in [Threads -> StreamPCs \union CpuPCs] /\ pc'["stream"] \in StreamPCs
        /\ pc'["cpu"] \in CpuPCs /\ back' \in {"top", "count", "ended", "open"}
    BY <1>24, <2>t DEF SoundTypeOK, Threads, StreamPCs, CpuPCs, CloseHandle, Forget, Goto, Return, closeUnchanged, macVars
  <2>3. /\ open_count' \in 0 .. MaxOpens /\ num_sources' \in 0 .. MaxSources
        /\ info' \in {0} \union Blocks /\ fetched' \in Blocks /\ block' \in {0} \union Blocks
        /\ audio_irq_done_sem' \in 0 .. 1
    BY <1>24, <2>t DEF SoundTypeOK, Blocks, CloseHandle, Forget, Goto, Return, closeUnchanged, macVars
  <2>4. /\ abufs' \in [Slots -> {"free", "queued", "done"}]
        /\ next_free_sound' \in Slots /\ playing_sound_count' \in 0 .. Buffers
    BY <1>24, <2>t DEF SoundTypeOK, CloseHandle, Forget, Goto, Return, closeUnchanged, macVars
  <2>6. hWaveOut' \in {"none", "open", "stale"} /\ playing' \subseteq Slots /\ stray' \subseteq Slots
    BY <1>24, <2>t DEF SoundTypeOK, CloseHandle, Forget, Goto, Return, closeUnchanged, macVars
  <2>5. QED
    BY <2>1, <2>2, <2>3, <2>4, <2>6 DEF SoundTypeOK
<1>25. CASE CloseReset("cpu")
  <2>t. SoundTypeOK
    BY DEF AudioInv
  <2>1. {audio_data, mixer, INTFLAG_AUDIO, muted, needed, sound_running, lost, raced, refused}' \subseteq BOOLEAN
    BY <1>25, <2>t, Zenon DEF SoundTypeOK, CloseReset, Goto, Return, closeUnchanged, macVars
  <2>2. pc' \in [Threads -> StreamPCs \union CpuPCs] /\ pc'["stream"] \in StreamPCs
        /\ pc'["cpu"] \in CpuPCs /\ back' \in {"top", "count", "ended", "open"}
    BY <1>25, <2>t DEF SoundTypeOK, Threads, StreamPCs, CpuPCs, CloseReset, Goto, Return, closeUnchanged, macVars
  <2>3. /\ open_count' \in 0 .. MaxOpens /\ num_sources' \in 0 .. MaxSources
        /\ info' \in {0} \union Blocks /\ fetched' \in Blocks /\ block' \in {0} \union Blocks
        /\ audio_irq_done_sem' \in 0 .. 1
    BY <1>25, <2>t DEF SoundTypeOK, Blocks, CloseReset, Goto, Return, closeUnchanged, macVars
  <2>4. /\ abufs' \in [Slots -> {"free", "queued", "done"}]
        /\ next_free_sound' \in Slots /\ playing_sound_count' \in 0 .. Buffers
    BY <1>25, <2>t DEF SoundTypeOK, CloseReset, Goto, Return, closeUnchanged, macVars
  <2>6. hWaveOut' \in {"none", "open", "stale"} /\ playing' \subseteq Slots /\ stray' \subseteq Slots
    BY <1>25, <2>t DEF SoundTypeOK, CloseReset, Goto, Return, closeUnchanged, macVars
  <2>5. QED
    BY <2>1, <2>2, <2>3, <2>4, <2>6 DEF SoundTypeOK
<1>26. CASE CloseDrain("cpu")
  <2>t. SoundTypeOK
    BY DEF AudioInv
  <2>1. {audio_data, mixer, INTFLAG_AUDIO, muted, needed, sound_running, lost, raced, refused}' \subseteq BOOLEAN
    BY <1>26, <2>t, Zenon DEF SoundTypeOK, CloseDrain, CountPlaying, deviceVars, Goto, closeUnchanged, macVars
  <2>2. pc' \in [Threads -> StreamPCs \union CpuPCs] /\ pc'["stream"] \in StreamPCs
        /\ pc'["cpu"] \in CpuPCs /\ back' \in {"top", "count", "ended", "open"}
    BY <1>26, <2>t DEF SoundTypeOK, Threads, StreamPCs, CpuPCs, CloseDrain, CountPlaying, deviceVars, Goto, closeUnchanged, macVars
  <2>3. /\ open_count' \in 0 .. MaxOpens /\ num_sources' \in 0 .. MaxSources
        /\ info' \in {0} \union Blocks /\ fetched' \in Blocks /\ block' \in {0} \union Blocks
        /\ audio_irq_done_sem' \in 0 .. 1
    BY <1>26, <2>t DEF SoundTypeOK, Blocks, CloseDrain, CountPlaying, deviceVars, Goto, closeUnchanged, macVars
  <2>4. /\ abufs' \in [Slots -> {"free", "queued", "done"}]
        /\ next_free_sound' \in Slots /\ playing_sound_count' \in 0 .. Buffers
    BY <1>26, <2>t, CountValues DEF SoundTypeOK, CloseDrain, deviceVars, Goto, closeUnchanged, macVars
  <2>6. hWaveOut' \in {"none", "open", "stale"} /\ playing' \subseteq Slots /\ stray' \subseteq Slots
    BY <1>26, <2>t DEF SoundTypeOK, CloseDrain, CountPlaying, deviceVars, Goto, closeUnchanged, macVars
  <2>5. QED
    BY <2>1, <2>2, <2>3, <2>4, <2>6 DEF SoundTypeOK
<1>27. CASE CloseHandle("cpu")
  <2>t. SoundTypeOK
    BY DEF AudioInv
  <2>1. {audio_data, mixer, INTFLAG_AUDIO, muted, needed, sound_running, lost, raced, refused}' \subseteq BOOLEAN
    BY <1>27, <2>t, Zenon DEF SoundTypeOK, CloseHandle, Forget, Goto, Return, closeUnchanged, macVars
  <2>2. pc' \in [Threads -> StreamPCs \union CpuPCs] /\ pc'["stream"] \in StreamPCs
        /\ pc'["cpu"] \in CpuPCs /\ back' \in {"top", "count", "ended", "open"}
    BY <1>27, <2>t DEF SoundTypeOK, Threads, StreamPCs, CpuPCs, CloseHandle, Forget, Goto, Return, closeUnchanged, macVars
  <2>3. /\ open_count' \in 0 .. MaxOpens /\ num_sources' \in 0 .. MaxSources
        /\ info' \in {0} \union Blocks /\ fetched' \in Blocks /\ block' \in {0} \union Blocks
        /\ audio_irq_done_sem' \in 0 .. 1
    BY <1>27, <2>t DEF SoundTypeOK, Blocks, CloseHandle, Forget, Goto, Return, closeUnchanged, macVars
  <2>4. /\ abufs' \in [Slots -> {"free", "queued", "done"}]
        /\ next_free_sound' \in Slots /\ playing_sound_count' \in 0 .. Buffers
    BY <1>27, <2>t DEF SoundTypeOK, CloseHandle, Forget, Goto, Return, closeUnchanged, macVars
  <2>6. hWaveOut' \in {"none", "open", "stale"} /\ playing' \subseteq Slots /\ stray' \subseteq Slots
    BY <1>27, <2>t DEF SoundTypeOK, CloseHandle, Forget, Goto, Return, closeUnchanged, macVars
  <2>5. QED
    BY <2>1, <2>2, <2>3, <2>4, <2>6 DEF SoundTypeOK
<1>28. CASE UNCHANGED soundVars
  BY <1>28, QueuedBounded, NextFree DEF soundVars, macVars, devVars, deviceVars, Queued, Written, SoundTypeOK,
     Threads, StreamPCs, CpuPCs, Slots, Blocks, AudioInv
<1>30. CASE StreamSilence
  BY <1>30, QueuedBounded, NextFree DEF SoundTypeOK, Threads, StreamPCs, CpuPCs, Slots, Blocks,
     AudioInv, StreamSilence, Goto, devVars, deviceVars,
     streamUnchanged, macVars
<1>31. CASE CloseDevice("stream")
  BY <1>31, QueuedBounded, NextFree DEF SoundTypeOK, Threads, StreamPCs, CpuPCs, Slots, Blocks,
     AudioInv, CloseDevice, Goto, closeUnchanged,
     macVars
<1>32. CASE CloseDevice("cpu")
  BY <1>32, QueuedBounded, NextFree DEF SoundTypeOK, Threads, StreamPCs, CpuPCs, Slots, Blocks,
     AudioInv, CloseDevice, Goto, closeUnchanged,
     macVars
<1>33. QED
  BY <1>1, <1>2, <1>3, <1>4, <1>5, <1>6, <1>7, <1>8, <1>9, <1>10, <1>11, <1>12, <1>13,
     <1>14, <1>15, <1>16, <1>17, <1>18, <1>19, <1>20, <1>21, <1>22, <1>23, <1>24, <1>25,
     <1>26, <1>27, <1>28, <1>30, <1>31, <1>32 DEF SoundNext, Stream, CPU, Close

\* Every step keeps one block under way.
LEMMA SoundExchange ==
  ASSUME AudioInv, [SoundNext]_soundVars
  PROVE  Exchange'
<1>1. CASE StreamTop
  BY <1>1 DEF SoundTypeOK, Threads, Exchange, Leaving, HasBlock, Ending, AudioInv, StreamTop,
     Goto, macVars, devVars, deviceVars
<1>2. CASE StreamRequest
  BY <1>2 DEF SoundTypeOK, Threads, Exchange, Leaving, HasBlock, Ending, AudioInv, StreamRequest, deviceVars,
     CountPlaying, Goto, streamUnchanged, macVars
<1>3. CASE StreamAck
  BY <1>3, AckValues DEF Exchange, Leaving, HasBlock, Ending, AudioInv, macVars
<1>4. CASE StreamFill
  BY <1>4 DEF SoundTypeOK, Threads, Exchange, Leaving, HasBlock, Ending, AudioInv, StreamFill, deviceVars,
     Goto, macVars
<1>5. CASE StreamOpen
  BY <1>5 DEF SoundTypeOK, Threads, Exchange, Leaving, HasBlock, Ending, AudioInv, StreamOpen,
     Goto, devVars, deviceVars, streamUnchanged, macVars
<1>6. CASE waveOutOpen
  BY <1>6 DEF SoundTypeOK, Threads, Exchange, Leaving, HasBlock, Ending, AudioInv, waveOutOpen, Forget, closing,
     Goto, streamUnchanged, macVars
<1>7. CASE StreamOpened
  BY <1>7 DEF SoundTypeOK, Threads, Exchange, Leaving, HasBlock, Ending, AudioInv, StreamOpened,
     Goto, devVars, deviceVars, streamUnchanged, macVars
<1>8. CASE StreamWrite
  BY <1>8 DEF SoundTypeOK, Threads, Exchange, Leaving, HasBlock, Ending, AudioInv, StreamWrite, closing,
     Goto, streamUnchanged, macVars
<1>9. CASE AudioInterrupt
  BY <1>9 DEF SoundTypeOK, Threads, Exchange, Leaving, HasBlock, Ending, AudioInv,
     AudioInterrupt, cpuUnchanged, devVars, deviceVars
<1>10. CASE ComponentOpen
  BY <1>10 DEF SoundTypeOK, Threads, Exchange, Leaving, HasBlock, Ending, AudioInv,
     ComponentOpen, ComponentCall, cpuUnchanged, devVars, deviceVars
<1>11. CASE ComponentClose
  BY <1>11 DEF SoundTypeOK, Threads, Exchange, Leaving, HasBlock, Ending, AudioInv,
     ComponentClose, ComponentCall, cpuUnchanged, devVars, deviceVars
<1>12. CASE InitOutputDevice
  BY <1>12 DEF SoundTypeOK, Threads, Exchange, Leaving, HasBlock, Ending, AudioInv,
     InitOutputDevice, ComponentCall, cpuUnchanged, devVars, deviceVars
<1>13. CASE AddSource
  BY <1>13 DEF SoundTypeOK, Threads, Exchange, Leaving, HasBlock, Ending, AudioInv, AddSource,
     ComponentCall, cpuUnchanged, devVars, deviceVars
<1>14. CASE RemoveSource
  BY <1>14 DEF SoundTypeOK, Threads, Exchange, Leaving, HasBlock, Ending, AudioInv, RemoveSource,
     ComponentCall, cpuUnchanged, devVars, deviceVars
<1>15. CASE Mute
  BY <1>15 DEF SoundTypeOK, Threads, Exchange, Leaving, HasBlock, Ending, AudioInv, Mute, Goto,
     macVars, devVars, deviceVars
<1>16. CASE Unmute
  BY <1>16 DEF SoundTypeOK, Threads, Exchange, Leaving, HasBlock, Ending, AudioInv, Unmute, Goto,
     macVars, devVars, deviceVars
<1>17. CASE update_sound_parameters
  BY <1>17 DEF SoundTypeOK, Threads, Exchange, Leaving, HasBlock, Ending, AudioInv,
     update_sound_parameters, InSection, Goto, macVars, devVars, deviceVars
<1>18. CASE SetParameters
  BY <1>18 DEF SoundTypeOK, Threads, Exchange, Leaving, HasBlock, Ending, AudioInv,
     SetParameters, Goto, macVars, devVars, deviceVars
<1>19. CASE Reset
  BY <1>19 DEF SoundTypeOK, Threads, Exchange, Leaving, HasBlock, Ending, AudioInv, Reset,
     ComponentCall, cpuUnchanged, devVars, deviceVars
<1>20. CASE AudioExit
  BY <1>20 DEF SoundTypeOK, Threads, Exchange, Leaving, HasBlock, Ending, AudioInv, AudioExit,
     macVars, devVars, deviceVars
<1>21. CASE Played
  BY <1>21 DEF SoundTypeOK, Threads, Exchange, Leaving, HasBlock, Ending, AudioInv, Played,
     macVars
<1>22. CASE CloseReset("stream")
  BY <1>22 DEF SoundTypeOK, Threads, Exchange, Leaving, HasBlock, Ending, AudioInv, CloseReset,
     Goto, Return, Forget, closeUnchanged, macVars
<1>23. CASE CloseDrain("stream")
  BY <1>23 DEF SoundTypeOK, Threads, Exchange, Leaving, HasBlock, Ending, AudioInv, CloseDrain, deviceVars,
     CountPlaying, Goto, closeUnchanged, macVars
<1>24. CASE CloseHandle("stream")
  BY <1>24 DEF SoundTypeOK, Threads, Exchange, Leaving, HasBlock, Ending, AudioInv, CloseHandle,
     Return, Goto, Forget, closeUnchanged, macVars
<1>25. CASE CloseReset("cpu")
  BY <1>25 DEF SoundTypeOK, Threads, Exchange, Leaving, HasBlock, Ending, AudioInv, CloseReset,
     Goto, Return, Forget, closeUnchanged, macVars
<1>26. CASE CloseDrain("cpu")
  BY <1>26 DEF SoundTypeOK, Threads, Exchange, Leaving, HasBlock, Ending, AudioInv, CloseDrain, deviceVars,
     CountPlaying, Goto, closeUnchanged, macVars
<1>27. CASE CloseHandle("cpu")
  BY <1>27 DEF SoundTypeOK, Threads, Exchange, Leaving, HasBlock, Ending, AudioInv, CloseHandle,
     Return, Goto, Forget, closeUnchanged, macVars
<1>28. CASE UNCHANGED soundVars
  BY <1>28 DEF soundVars, macVars, devVars, deviceVars, Queued, Written, SoundTypeOK, Threads, Exchange,
     Leaving, HasBlock, Ending, AudioInv
<1>30. CASE StreamSilence
  BY <1>30 DEF SoundTypeOK, Threads, Exchange, Leaving, HasBlock, Ending, AudioInv, StreamSilence, Goto, devVars, deviceVars,
     streamUnchanged, macVars
<1>31. CASE CloseDevice("stream")
  BY <1>31 DEF SoundTypeOK, Threads, Exchange, Leaving, HasBlock, Ending, AudioInv, CloseDevice, Goto, closeUnchanged,
     macVars
<1>32. CASE CloseDevice("cpu")
  BY <1>32 DEF SoundTypeOK, Threads, Exchange, Leaving, HasBlock, Ending, AudioInv, CloseDevice, Goto, closeUnchanged,
     macVars
<1>33. QED
  BY <1>1, <1>2, <1>3, <1>4, <1>5, <1>6, <1>7, <1>8, <1>9, <1>10, <1>11, <1>12, <1>13,
     <1>14, <1>15, <1>16, <1>17, <1>18, <1>19, <1>20, <1>21, <1>22, <1>23, <1>24, <1>25,
     <1>26, <1>27, <1>28, <1>30, <1>31, <1>32 DEF SoundNext, Stream, CPU, Close

\* Every step leaves room for the block that is under way.
LEMMA SoundRoom ==
  ASSUME AudioInv, [SoundNext]_soundVars
  PROVE  Room'
<1>1. CASE StreamTop
  BY <1>1, QueuedBounded, QueuedShrinks, NextFree DEF SoundTypeOK, Threads, Slots, Exchange,
     Room, Leaving, HasBlock, Ending, AudioInv, Written, StreamTop, Goto, macVars, devVars, deviceVars
<1>2. CASE StreamRequest
  <2>t. SoundTypeOK
    BY DEF AudioInv
  <2>1. Queued' \subseteq Queued
    BY <1>2, <2>t, CountValues DEF SoundTypeOK, Queued, StreamRequest, deviceVars, Goto, streamUnchanged,
       macVars
  <2>2. Cardinality(Queued') \in 0 .. Cardinality(Queued) /\ Cardinality(Queued) \in 0 .. Buffers
    BY <2>t, <2>1, QueuedShrinks, QueuedBounded
  <2>3. Room'
    BY <1>2, <2>2, <2>t, CountValues, QueuedBounded DEF AudioInv, SoundTypeOK, Threads, Room,
       Exchange, HasBlock, Leaving, Ending, Written, Slots, StreamRequest, deviceVars, Goto,
       streamUnchanged, macVars
  <2>4. QED
    BY <2>3
<1>3. CASE StreamAck
  <2>1. Queued' = Queued
    BY <1>3, AckValues DEF AudioInv, Queued
  <2>2. QED
    BY <1>3, <2>1, AckValues DEF SoundTypeOK, Room, Leaving, HasBlock, AudioInv
<1>4. CASE StreamFill
  BY <1>4, QueuedBounded, QueuedShrinks, NextFree DEF SoundTypeOK, Threads, Slots, Exchange,
     Room, Leaving, HasBlock, Ending, AudioInv, Written, StreamFill, deviceVars, Goto, macVars
<1>5. CASE StreamOpen
  BY <1>5, QueuedBounded, QueuedShrinks, NextFree DEF SoundTypeOK, Threads, Slots, Exchange,
     Room, Leaving, HasBlock, Ending, AudioInv, Written, StreamOpen, Goto, devVars, deviceVars,
     streamUnchanged, macVars
<1>6. CASE waveOutOpen
  BY <1>6, QueuedBounded, QueuedShrinks, NextFree DEF SoundTypeOK, Threads, Slots, Exchange,
     Room, Leaving, HasBlock, Ending, AudioInv, Written, waveOutOpen, Forget, closing, Goto, streamUnchanged,
     macVars
<1>7. CASE StreamOpened
  BY <1>7, QueuedBounded, QueuedShrinks, NextFree DEF SoundTypeOK, Threads, Slots, Exchange,
     Room, Leaving, HasBlock, Ending, AudioInv, Written, StreamOpened, Goto, devVars, deviceVars,
     streamUnchanged, macVars
<1>8. CASE StreamWrite
  BY <1>8, QueuedBounded, QueuedShrinks, NextFree DEF SoundTypeOK, Threads, Slots, Exchange,
     Room, Leaving, HasBlock, Ending, AudioInv, Written, StreamWrite, closing, Goto, streamUnchanged,
     macVars
<1>9. CASE AudioInterrupt
  BY <1>9, RoomKept DEF AudioInv, SoundTypeOK, Threads, AudioInterrupt, cpuUnchanged, devVars, deviceVars
<1>10. CASE ComponentOpen
  BY <1>10, RoomKept DEF AudioInv, SoundTypeOK, Threads, ComponentOpen, ComponentCall,
     cpuUnchanged, devVars, deviceVars
<1>11. CASE ComponentClose
  BY <1>11, RoomKept DEF AudioInv, SoundTypeOK, Threads, ComponentClose, ComponentCall,
     cpuUnchanged, devVars, deviceVars
<1>12. CASE InitOutputDevice
  BY <1>12, RoomKept DEF AudioInv, SoundTypeOK, Threads, InitOutputDevice, ComponentCall,
     cpuUnchanged, devVars, deviceVars
<1>13. CASE AddSource
  BY <1>13, RoomKept DEF AudioInv, SoundTypeOK, Threads, AddSource, ComponentCall, cpuUnchanged,
     devVars, deviceVars
<1>14. CASE RemoveSource
  BY <1>14, RoomKept DEF AudioInv, SoundTypeOK, Threads, RemoveSource, ComponentCall,
     cpuUnchanged, devVars, deviceVars
<1>15. CASE Mute
  BY <1>15, RoomKept DEF AudioInv, SoundTypeOK, Threads, Mute, Goto, macVars, devVars, deviceVars
<1>16. CASE Unmute
  BY <1>16, RoomKept DEF AudioInv, SoundTypeOK, Threads, Unmute, Goto, macVars, devVars, deviceVars
<1>17. CASE update_sound_parameters
  BY <1>17, RoomKept DEF AudioInv, SoundTypeOK, Threads, update_sound_parameters, InSection,
     Goto, macVars, devVars, deviceVars
<1>18. CASE SetParameters
  BY <1>18, RoomKept DEF AudioInv, SoundTypeOK, Threads, SetParameters, Goto, macVars, devVars, deviceVars
<1>19. CASE Reset
  BY <1>19, RoomKept DEF AudioInv, SoundTypeOK, Threads, Reset, ComponentCall, cpuUnchanged,
     devVars, deviceVars
<1>20. CASE AudioExit
  BY <1>20, RoomKept DEF AudioInv, SoundTypeOK, Threads, AudioExit, macVars, devVars, deviceVars
<1>21. CASE Played
  <2>t. SoundTypeOK
    BY DEF AudioInv
  <2>1. Queued' \subseteq Queued
    BY <1>21, <2>t DEF SoundTypeOK, Queued, Played, macVars
  <2>2. Cardinality(Queued') \in 0 .. Cardinality(Queued) /\ Cardinality(Queued) \in 0 .. Buffers
    BY <2>t, <2>1, QueuedShrinks, QueuedBounded
  <2>3. Room'
    BY <1>21, <2>2, <2>t DEF AudioInv, SoundTypeOK, Threads, Room, Exchange, HasBlock, Leaving,
       Ending, Written, Slots, Played, macVars
  <2>4. QED
    BY <2>3
<1>22. CASE CloseReset("stream")
  BY <1>22, QueuedBounded, QueuedShrinks, NextFree DEF SoundTypeOK, Threads, Slots, Exchange,
     Room, Leaving, HasBlock, Ending, AudioInv, Written, CloseReset, Goto, Return,
     closeUnchanged, macVars
<1>23. CASE CloseDrain("stream")
  BY <1>23, QueuedBounded, QueuedShrinks, NextFree DEF SoundTypeOK, Threads, Slots, Exchange,
     Room, Leaving, HasBlock, Ending, AudioInv, Written, CloseDrain, deviceVars, CountPlaying, Goto,
     closeUnchanged, macVars
<1>24. CASE CloseHandle("stream")
  BY <1>24, QueuedBounded, QueuedShrinks, NextFree DEF SoundTypeOK, Threads, Slots, Exchange,
     Room, Leaving, HasBlock, Ending, AudioInv, Written, CloseHandle, Return, Goto,
     closeUnchanged, macVars
<1>25. CASE CloseReset("cpu")
  <2>t. SoundTypeOK
    BY DEF AudioInv
  <2>1. Queued' \subseteq Queued
    BY <1>25, <2>t DEF SoundTypeOK, Queued, CloseReset, Goto, Return, Forget, closeUnchanged, macVars
  <2>2. Cardinality(Queued') \in 0 .. Cardinality(Queued) /\ Cardinality(Queued) \in 0 .. Buffers
    BY <2>t, <2>1, QueuedShrinks, QueuedBounded
  <2>3. Room'
    BY <1>25, <2>2, <2>t DEF AudioInv, SoundTypeOK, Threads, Room, Exchange, HasBlock, Leaving,
       Ending, Written, Slots, CloseReset, Goto, Return, Forget, closeUnchanged, macVars
  <2>4. QED
    BY <2>3
<1>26. CASE CloseDrain("cpu")
  <2>t. SoundTypeOK
    BY DEF AudioInv
  <2>1. Queued' \subseteq Queued
    BY <1>26, <2>t, CountValues DEF SoundTypeOK, Queued, CloseDrain, deviceVars, Goto, closeUnchanged,
       macVars
  <2>2. Cardinality(Queued') \in 0 .. Cardinality(Queued) /\ Cardinality(Queued) \in 0 .. Buffers
    BY <2>t, <2>1, QueuedShrinks, QueuedBounded
  <2>3. Room'
    BY <1>26, <2>2, <2>t, CountValues, QueuedBounded, NextFree DEF AudioInv, SoundTypeOK,
       Threads, Room, Exchange, HasBlock, Leaving, Ending, Written, Slots, CloseDrain, deviceVars,
       Goto, closeUnchanged, macVars
  <2>4. QED
    BY <2>3
<1>27. CASE CloseHandle("cpu")
  BY <1>27, QueuedBounded, QueuedShrinks, NextFree DEF SoundTypeOK, Threads, Slots, Exchange,
     Room, Leaving, HasBlock, Ending, AudioInv, Written, CloseHandle, Return, Goto,
     closeUnchanged, macVars
<1>28. CASE UNCHANGED soundVars
  BY <1>28, QueuedBounded, QueuedShrinks, NextFree DEF soundVars, macVars, devVars, deviceVars, Queued,
     Written, SoundTypeOK, Threads, Slots, Exchange, Room, Leaving, HasBlock, Ending, AudioInv,
     Written
<1>30. CASE StreamSilence
  BY <1>30, QueuedBounded, QueuedShrinks, NextFree DEF SoundTypeOK, Threads, Slots, Exchange,
     Room, Leaving, HasBlock, Ending, AudioInv, Written, StreamSilence, Goto, devVars, deviceVars,
     streamUnchanged, macVars
<1>31. CASE CloseDevice("stream")
  BY <1>31, QueuedBounded, QueuedShrinks, NextFree DEF SoundTypeOK, Threads, Slots, Exchange,
     Room, Leaving, HasBlock, Ending, AudioInv, Written, CloseDevice, Goto, closeUnchanged,
     macVars
<1>32. CASE CloseDevice("cpu")
  BY <1>32, RoomKept DEF AudioInv, SoundTypeOK, Threads, CloseDevice, Goto, closeUnchanged, macVars
<1>33. QED
  BY <1>1, <1>2, <1>3, <1>4, <1>5, <1>6, <1>7, <1>8, <1>9, <1>10, <1>11, <1>12, <1>13,
     <1>14, <1>15, <1>16, <1>17, <1>18, <1>19, <1>20, <1>21, <1>22, <1>23, <1>24, <1>25,
     <1>26, <1>27, <1>28, <1>30, <1>31, <1>32 DEF SoundNext, Stream, CPU, Close

\* Every step keeps the devices with their handles.
LEMMA SoundKept ==
  ASSUME AudioInv, [SoundNext]_soundVars
  PROVE  Kept'
<1>1. CASE StreamAck
  <2>1. UNCHANGED deviceVars /\ pc'["cpu"] = pc["cpu"]
        /\ pc'["stream"] \in {"close", "top", "empty", "fill"}
    BY <1>1, AckValues DEF AudioInv, StreamAck, devVars
  <2>2. QED
    BY <2>1 DEF AudioInv, Kept, deviceVars
<1>2. CASE StreamTop
  BY <1>2 DEF AudioInv, SoundTypeOK, Threads, Kept, StreamTop, Goto,
     macVars, devVars, deviceVars
<1>3. CASE StreamRequest
  BY <1>3 DEF AudioInv, SoundTypeOK, Threads, Kept, StreamRequest, deviceVars, CountPlaying, streamUnchanged, Goto,
     macVars, devVars, deviceVars
<1>4. CASE StreamSilence
  BY <1>4 DEF AudioInv, SoundTypeOK, Threads, Kept, StreamSilence, streamUnchanged, Goto,
     macVars, devVars, deviceVars
<1>5. CASE StreamFill
  BY <1>5 DEF AudioInv, SoundTypeOK, Threads, Kept, StreamFill, deviceVars, Goto,
     macVars, devVars, deviceVars
<1>6. CASE StreamOpen
  BY <1>6 DEF AudioInv, SoundTypeOK, Threads, Kept, StreamOpen, streamUnchanged, Goto,
     macVars, devVars, deviceVars
<1>7. CASE waveOutOpen
  BY <1>7 DEF AudioInv, SoundTypeOK, Threads, Kept, waveOutOpen, Forget, closing, Goto,
     macVars, devVars, deviceVars
<1>8. CASE StreamOpened
  BY <1>8 DEF AudioInv, SoundTypeOK, Threads, Kept, StreamOpened, streamUnchanged, Goto,
     macVars, devVars, deviceVars
<1>9. CASE StreamWrite
  BY <1>9 DEF AudioInv, SoundTypeOK, Threads, Kept, StreamWrite, closing, streamUnchanged, Goto,
     macVars, devVars, deviceVars
<1>10. CASE ComponentOpen
  BY <1>10 DEF AudioInv, SoundTypeOK, Threads, Kept, ComponentOpen, ComponentCall, cpuUnchanged, Goto,
     macVars, devVars, deviceVars
<1>11. CASE AudioInterrupt
  BY <1>11 DEF AudioInv, SoundTypeOK, Threads, Kept, AudioInterrupt, cpuUnchanged, Goto,
     macVars, devVars, deviceVars
<1>12. CASE ComponentClose
  BY <1>12 DEF AudioInv, SoundTypeOK, Threads, Kept, ComponentClose, ComponentCall, cpuUnchanged, Goto,
     macVars, devVars, deviceVars
<1>13. CASE InitOutputDevice
  BY <1>13 DEF AudioInv, SoundTypeOK, Threads, Kept, InitOutputDevice, ComponentCall, cpuUnchanged, Goto,
     macVars, devVars, deviceVars
<1>14. CASE AddSource
  BY <1>14 DEF AudioInv, SoundTypeOK, Threads, Kept, AddSource, ComponentCall, cpuUnchanged, Goto,
     macVars, devVars, deviceVars
<1>15. CASE RemoveSource
  BY <1>15 DEF AudioInv, SoundTypeOK, Threads, Kept, RemoveSource, ComponentCall, cpuUnchanged, Goto,
     macVars, devVars, deviceVars
<1>16. CASE Mute
  BY <1>16 DEF AudioInv, SoundTypeOK, Threads, Kept, Mute, Goto,
     macVars, devVars, deviceVars
<1>17. CASE Unmute
  BY <1>17 DEF AudioInv, SoundTypeOK, Threads, Kept, Unmute, Goto,
     macVars, devVars, deviceVars
<1>18. CASE update_sound_parameters
  BY <1>18 DEF AudioInv, SoundTypeOK, Threads, Kept, update_sound_parameters, Goto,
     macVars, devVars, deviceVars
<1>19. CASE SetParameters
  BY <1>19 DEF AudioInv, SoundTypeOK, Threads, Kept, SetParameters, Goto,
     macVars, devVars, deviceVars
<1>20. CASE Reset
  BY <1>20 DEF AudioInv, SoundTypeOK, Threads, Kept, Reset, ComponentCall, cpuUnchanged, Goto,
     macVars, devVars, deviceVars
<1>21. CASE AudioExit
  BY <1>21 DEF AudioInv, SoundTypeOK, Threads, Kept, AudioExit, Goto,
     macVars, devVars, deviceVars
<1>22. CASE Played
  BY <1>22 DEF AudioInv, SoundTypeOK, Threads, Kept, Played, Goto,
     macVars, devVars, deviceVars
<1>23. CASE CloseReset("stream")
  BY <1>23 DEF AudioInv, SoundTypeOK, Threads, Kept, CloseReset, Return, closeUnchanged, Goto,
     macVars, devVars, deviceVars
<1>24. CASE CloseDrain("stream")
  BY <1>24 DEF AudioInv, SoundTypeOK, Threads, Kept, CloseDrain, deviceVars, closeUnchanged, Goto,
     macVars, devVars, deviceVars
<1>25. CASE CloseDevice("stream")
  BY <1>25 DEF AudioInv, SoundTypeOK, Threads, Kept, CloseDevice, closeUnchanged, Goto,
     macVars, devVars, deviceVars
<1>26. CASE CloseHandle("stream")
  BY <1>26 DEF AudioInv, SoundTypeOK, Threads, Kept, CloseHandle, Return, Forget, closeUnchanged, Goto,
     macVars, devVars, deviceVars
<1>27. CASE CloseReset("cpu")
  BY <1>27 DEF AudioInv, SoundTypeOK, Threads, Kept, CloseReset, Return, closeUnchanged, Goto,
     macVars, devVars, deviceVars
<1>28. CASE CloseDrain("cpu")
  BY <1>28 DEF AudioInv, SoundTypeOK, Threads, Kept, CloseDrain, deviceVars, closeUnchanged, Goto,
     macVars, devVars, deviceVars
<1>29. CASE CloseDevice("cpu")
  BY <1>29 DEF AudioInv, SoundTypeOK, Threads, Kept, CloseDevice, closeUnchanged, Goto,
     macVars, devVars, deviceVars
<1>30. CASE CloseHandle("cpu")
  BY <1>30 DEF AudioInv, SoundTypeOK, Threads, Kept, CloseHandle, Return, Forget, closeUnchanged, Goto,
     macVars, devVars, deviceVars
<1>31. CASE UNCHANGED soundVars
  BY <1>31 DEF AudioInv, SoundTypeOK, Threads, Kept, soundVars, Goto,
     macVars, devVars, deviceVars
<1>32. QED
  BY <1>1, <1>2, <1>3, <1>4, <1>5, <1>6, <1>7, <1>8, <1>9, <1>10, <1>11, <1>12, <1>13,
     <1>14, <1>15, <1>16, <1>17, <1>18, <1>19, <1>20, <1>21, <1>22, <1>23, <1>24, <1>25, <1>26,
     <1>27, <1>28, <1>29, <1>30, <1>31 DEF SoundNext, Stream, CPU, Close

-----------------------------------------------------------------------------
\* The invariant holds at first.
LEMMA SoundEstablished == SoundInit => AudioInv
<1> SUFFICES ASSUME SoundInit
             PROVE  AudioInv
  OBVIOUS
<1>1. pc["stream"] = "top" /\ pc["cpu"] = "run"
  BY DEF SoundInit, Threads
<1>2. SoundTypeOK
  <2>1. {audio_data, mixer, INTFLAG_AUDIO, muted, needed, sound_running, lost, raced, refused} \subseteq BOOLEAN
    BY DEF SoundInit
  <2>2. /\ pc \in [Threads -> StreamPCs \union CpuPCs] /\ pc["stream"] \in StreamPCs
        /\ pc["cpu"] \in CpuPCs
    BY <1>1 DEF SoundInit, Threads, StreamPCs, CpuPCs
  <2>3. abufs \in [Slots -> {"free", "queued", "done"}] /\ next_free_sound \in Slots
    BY DEF SoundInit, Slots
  <2>4. fetched \in Blocks
    BY DEF SoundInit, Blocks
  <2>5. QED
    BY <2>1, <2>2, <2>3, <2>4 DEF SoundInit, SoundTypeOK
<1>3. Exchange /\ Room
  BY <1>1 DEF SoundInit, Exchange, Room, HasBlock, Leaving, Ending
<1>4. Kept
  BY <1>1 DEF SoundInit, Kept
<1>5. QED
  BY <1>2, <1>3, <1>4 DEF AudioInv

\* The inductive invariant holds in every state: one block at a time is under way
\* between the CPU thread and the stream thread, there is a buffer for it, and an
\* open wave device has its handle.
THEOREM AudioInvariance == SoundSpec => []AudioInv
<1>1. AudioInv /\ [SoundNext]_soundVars => AudioInv'
  BY SoundTypes, SoundExchange, SoundRoom, SoundKept DEF AudioInv
<1>2. QED
  BY SoundEstablished, <1>1, PTL DEF SoundSpec

\* The flags, the states of the two threads and of the buffers keep their types.
THEOREM AudioTypeCorrect == SoundSpec => []SoundTypeOK
<1>1. AudioInv => SoundTypeOK
  BY DEF AudioInv
<1>2. QED
  BY AudioInvariance, <1>1, PTL

\* The block stream_func() copies and writes is the one that the mixer made last,
\* and the next one is asked for only after that: whatever the order in which
\* AudioInterrupt(), mute, parameter changes, resets and the end of a buffer come.
THEOREM BlockIsCurrentHolds == SoundSpec => []BlockIsCurrent
<1>1. AudioInv => BlockIsCurrent
  BY DEF AudioInv, Exchange, HasBlock, BlockIsCurrent
<1>2. QED
  BY AudioInvariance, <1>1, PTL

\* close_sound() may be in two threads at a time, and mute may come between any two
\* steps of update_sound_parameters2(): a wave device is left open without a
\* handle in no other way than by the stream thread opening it or writing to it
\* while the CPU thread is in close_sound().
THEOREM DeviceKeptHolds == SoundSpec => []DeviceKept
<1>1. AudioInv => DeviceKept
  BY DEF AudioInv, Kept, DeviceKept
<1>2. QED
  BY AudioInvariance, <1>1, PTL
=============================================================================
