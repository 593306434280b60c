------------------------------- MODULE EtherSend -------------------------------
(***************************************************************************)
(* Packet transmission in Windows/ether_windows.cpp: write_packet(), on    *)
(* the MacOS thread, takes a PACKET from the pool of free ones, remembers  *)
(* what it sends to recognize its echo, and queues it; the writing thread  *)
(* hands it to the driver, whose completion routine puts it back.          *)
(*                                                                         *)
(* The packets the Mac sends are numbered from 1.                          *)
(***************************************************************************)
EXTENDS Integers, Sequences, FiniteSets, Functions

CONSTANTS
  MAX_ECHO,   \* size of pending_packet, a power of two, at least 2
  MaxSends,   \* bound on the packets sent
  Routed      \* the packets that the router takes

ASSUME EtherSendAssumption ==
  /\ MAX_ECHO \in {2, 4, 8}
  /\ MaxSends \in Nat \ {0}
  /\ Routed \subseteq 1 .. MaxSends

VARIABLES
  mac,                \* where write_packet() is
  sent,               \* how many packets the Mac has sent
  held,               \* the PACKET write_packet() fills
  write_packet_pool, send_queue,
  content,            \* the packet in each PACKET
  echo_count, pending_packet,
  int_send_now,
  writer,             \* where ether_thread_write_packets is
  hand,               \* the PACKET it has taken from the queue
  driver,             \* the PACKETs the driver is writing
  thread_active,
  wire,               \* history: what the network or the router got
  delivered           \* history: own packets given to enqueue_packet()

vars == <<mac, sent, held, write_packet_pool, send_queue, content, echo_count,
          pending_packet, int_send_now, writer, hand, driver, thread_active, wire, delivered>>

PACKETs == 1 .. MaxSends      \* allocated in this order
Sends == 1 .. MaxSends

Init ==
  /\ mac = "run" /\ sent = 0 /\ held = 0
  /\ write_packet_pool = <<>> /\ send_queue = <<>>
  /\ content = [b \in PACKETs |-> 0]
  /\ echo_count = 0 /\ pending_packet = [k \in 0 .. MAX_ECHO - 1 |-> 0]
  /\ int_send_now = 0
  /\ writer = "wait" /\ hand = 0 /\ driver = {}
  /\ thread_active = TRUE
  /\ wire = <<>> /\ delivered = {}

-----------------------------------------------------------------------------
(* write_packet().                                                         *)

\* Where a PACKET can be; no one holds 0.
Places ==
  <<Range(write_packet_pool), Range(send_queue), driver, {hand} \ {0}, {held} \ {0}>>

Allocated == UNION Range(Places)

\* get_write_packet(): the pool is a stack.
get_write_packet ==
  /\ mac = "run" /\ sent < MaxSends /\ thread_active
  /\ mac' = "fill" /\ sent' = sent + 1
  /\ IF write_packet_pool # <<>>
     THEN held' = Head(write_packet_pool) /\ write_packet_pool' = Tail(write_packet_pool)
     ELSE held' = Cardinality(Allocated) + 1 /\ UNCHANGED write_packet_pool
  /\ UNCHANGED <<send_queue, content, echo_count, pending_packet, int_send_now, writer,
                 hand, driver, thread_active, wire, delivered>>

\* (echo_count+1) & (~(MAX_ECHO-1))
NextEcho(k) == MAX_ECHO * ((k + 1) \div MAX_ECHO)

\* Under fetch_csection.
RememberEcho ==
  /\ mac = "fill"
  /\ mac' = "insert"
  /\ content' = [content EXCEPT ![held] = sent]
  /\ pending_packet' = [pending_packet EXCEPT ![echo_count] = sent]
  /\ echo_count' = NextEcho(echo_count)
  /\ UNCHANGED <<sent, held, write_packet_pool, send_queue, int_send_now, writer, hand,
                 driver, thread_active, wire, delivered>>

MutInsert ==
  /\ mac = "insert"
  /\ mac' = "signal"
  /\ send_queue' = <<held>> \o send_queue
  /\ held' = 0
  /\ UNCHANGED <<sent, write_packet_pool, content, echo_count, pending_packet,
                 int_send_now, writer, hand, driver, thread_active, wire, delivered>>

insert_send_queue ==
  /\ mac = "insert"
  /\ mac' = "signal"
  /\ send_queue' = Append(send_queue, held)
  /\ held' = 0
  /\ UNCHANGED <<sent, write_packet_pool, content, echo_count, pending_packet,
                 int_send_now, writer, hand, driver, thread_active, wire, delivered>>

SignalSend ==
  /\ mac = "signal"
  /\ mac' = "run" /\ int_send_now' = 1
  /\ UNCHANGED <<sent, held, write_packet_pool, send_queue, content, echo_count,
                 pending_packet, writer, hand, driver, thread_active, wire, delivered>>

-----------------------------------------------------------------------------
(* ether_thread_write_packets().  Its wait is alertable: the completion    *)
(* routines of the driver run in it, and end it.                           *)

WaitSendNow ==
  /\ writer = "wait" /\ int_send_now = 1
  /\ writer' = "take" /\ int_send_now' = 0
  /\ UNCHANGED <<mac, sent, held, write_packet_pool, send_queue, content, echo_count,
                 pending_packet, hand, driver, thread_active, wire, delivered>>

\* PacketSendCompletionRoutine().
Completion(b) ==
  /\ writer = "wait" /\ b \in driver
  /\ writer' = "take"
  /\ driver' = driver \ {b}
  /\ write_packet_pool' = <<b>> \o write_packet_pool
  /\ UNCHANGED <<mac, sent, held, send_queue, content, echo_count, pending_packet,
                 int_send_now, hand, thread_active, wire, delivered>>

MutGetSendHead ==
  /\ writer = "take"
  /\ IF send_queue # <<>>
     THEN hand' = Head(send_queue) /\ writer' = "send" /\ UNCHANGED send_queue
     ELSE writer' = "wait" /\ UNCHANGED <<hand, send_queue>>
  /\ UNCHANGED <<mac, sent, held, write_packet_pool, content, echo_count, pending_packet,
                 int_send_now, driver, thread_active, wire, delivered>>

get_send_head ==
  /\ writer = "take"
  /\ IF thread_active /\ send_queue # <<>>
     THEN hand' = Head(send_queue) /\ writer' = "send" /\ send_queue' = Tail(send_queue)
     ELSE /\ writer' = IF thread_active THEN "wait" ELSE "ended"
          /\ UNCHANGED <<hand, send_queue>>
  /\ UNCHANGED <<mac, sent, held, write_packet_pool, content, echo_count, pending_packet,
                 int_send_now, driver, thread_active, wire, delivered>>

MutSendPacket ==
  /\ writer = "send"
  /\ writer' = "wait" /\ hand' = 0
  /\ wire' = Append(wire, content[hand])
  /\ write_packet_pool' = <<hand>> \o write_packet_pool
  /\ UNCHANGED <<mac, sent, held, send_queue, content, echo_count, pending_packet,
                 int_send_now, driver, thread_active, delivered>>

\* To the router, or to the driver with PacketSendPacket(), which recycles the
\* packet itself when WriteFileEx() fails.
SendPacket ==
  /\ writer = "send"
  /\ writer' = "take" /\ hand' = 0
  /\ \/ /\ content[hand] \in Routed
        /\ wire' = Append(wire, content[hand])
        /\ write_packet_pool' = <<hand>> \o write_packet_pool
        /\ UNCHANGED driver
     \/ /\ content[hand] \notin Routed
        /\ wire' = Append(wire, content[hand])
        /\ driver' = driver \union {hand}
        /\ UNCHANGED write_packet_pool
     \/ /\ content[hand] \notin Routed
        /\ write_packet_pool' = <<hand>> \o write_packet_pool
        /\ UNCHANGED <<wire, driver>>
  /\ UNCHANGED <<mac, sent, held, send_queue, content, echo_count, pending_packet,
                 int_send_now, thread_active, delivered>>

-----------------------------------------------------------------------------
(* packet_read_completion() for the echo of packet p.                      *)

Recognized(p) == \E k \in DOMAIN pending_packet : pending_packet[k] = p

EchoArrives(p) ==
  /\ thread_active /\ p \in Range(wire) \ Routed
  /\ delivered' = IF Recognized(p) THEN delivered ELSE delivered \union {p}
  /\ UNCHANGED <<mac, sent, held, write_packet_pool, send_queue, content, echo_count,
                 pending_packet, int_send_now, writer, hand, driver, thread_active, wire>>

\* EtherExit() clears thread_active and releases the semaphore.
EtherExit ==
  /\ thread_active
  /\ thread_active' = FALSE /\ int_send_now' = 1
  /\ UNCHANGED <<mac, sent, held, write_packet_pool, send_queue, content, echo_count,
                 pending_packet, writer, hand, driver, wire, delivered>>

-----------------------------------------------------------------------------
WritePacket == get_write_packet \/ RememberEcho \/ insert_send_queue \/ SignalSend

Writer ==
  WaitSendNow \/ get_send_head \/ SendPacket \/ \E b \in PACKETs : Completion(b)

Next ==
  WritePacket \/ Writer \/ EtherExit \/ \E p \in Sends : EchoArrives(p)

Spec == Init /\ [][Next]_vars

\* The host schedules the writing thread, and EtherControl() returns.
FairSpec ==
  Spec /\ WF_vars(Writer) /\ WF_vars(RememberEcho \/ insert_send_queue \/ SignalSend)

-----------------------------------------------------------------------------
TypeOK ==
  /\ mac \in {"run", "fill", "insert", "signal"}
  /\ sent \in 0 .. MaxSends /\ held \in 0 .. MaxSends /\ hand \in 0 .. MaxSends
  /\ write_packet_pool \in Seq(PACKETs) /\ send_queue \in Seq(PACKETs)
  /\ content \in [PACKETs -> 0 .. MaxSends]
  /\ echo_count \in 0 .. MAX_ECHO - 1
  /\ pending_packet \in [0 .. MAX_ECHO - 1 -> 0 .. MaxSends]
  /\ int_send_now \in {0, 1}
  /\ writer \in {"wait", "take", "send", "ended"}
  /\ driver \subseteq PACKETs /\ thread_active \in BOOLEAN
  /\ wire \in Seq(Sends) /\ delivered \subseteq Sends

\* A PACKET is in one place at a time: pool, queue, driver or a thread's hand.
\* None is recycled twice, filled while the driver writes it, or lost.
OneOwner ==
  /\ IsInjective(write_packet_pool) /\ IsInjective(send_queue)
  /\ \A j, k \in DOMAIN Places : j # k => Places[j] \intersect Places[k] = {}
  /\ Allocated = 1 .. Cardinality(Allocated)

\* Packets leave in the order the Mac sent them, each at most once.
SentInOrder == \A j, k \in DOMAIN wire : j < k => wire[j] < wire[k]

\* A packet that the Mac sent leaves the queue, unless the emulator quits.
QueueDrains ==
  \A b \in PACKETs :
    b \in Range(send_queue) ~> b \notin Range(send_queue) \/ ~ thread_active
=============================================================================
