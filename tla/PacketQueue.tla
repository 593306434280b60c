----------------------------- MODULE PacketQueue -----------------------------
(***************************************************************************)
(* What the receive queue of the Ethernet driver promises: packets leave   *)
(* in the order they came, each once, and a packet that comes while        *)
(* Capacity are waiting is dropped.                                        *)
(***************************************************************************)
EXTENDS Naturals, Sequences

CONSTANTS Packets, Capacity

VARIABLES
  waiting,   \* the packets in the queue
  fetched    \* the packet that was taken out last

Init == waiting = <<>> /\ fetched \in Packets

\* Dropping a packet changes nothing.
Put(p) ==
  /\ Len(waiting) < Capacity
  /\ waiting' = Append(waiting, p)
  /\ UNCHANGED fetched

Take ==
  /\ waiting # <<>>
  /\ fetched' = Head(waiting)
  /\ waiting' = Tail(waiting)

Next == Take \/ \E p \in Packets : Put(p)

Spec == Init /\ [][Next]_<<waiting, fetched>>
=============================================================================
