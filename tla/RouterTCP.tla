------------------------------ MODULE RouterTCP ------------------------------
(***************************************************************************)
(* One connection through the TCP part of the router (Windows/router/      *)
(* tcp.cpp).  The router is the Mac's peer: it answers the Mac's segments  *)
(* itself and moves the data through a Winsock socket.  write_tcp() runs   *)
(* on the thread that sends the Mac's packets, the completion routines in  *)
(* the alertable waits of that thread, events and timeouts on              *)
(* tcp_connect_close_thread; each holds tcp_section throughout, and is one *)
(* action here.                                                            *)
(*                                                                         *)
(* A byte is its place in its stream.  The Mac's SYN has number 0 and byte *)
(* k of its data number k; the router's SYN has number 1 (alloc_socket)    *)
(* and byte k of the remote host's data number k + 1.                      *)
(***************************************************************************)
EXTENDS Integers, Sequences, SequencesExt

CONSTANTS
  MacBytes,      \* bound on the bytes the Mac sends
  RemoteBytes,   \* bound on the bytes the remote host sends
  Segment,       \* MAX_SEGMENT_SIZE, also the window either side offers
  Ring,          \* packets waiting for the Mac; enqueue_packet() drops others
  Queue          \* bound on the packets waiting for write_tcp()

ASSUME RouterTCPAssumption ==
  /\ MacBytes \in Nat /\ RemoteBytes \in Nat
  /\ Segment \in Nat \ {0} /\ Ring \in Nat \ {0} /\ Queue \in Nat \ {0}

VARIABLES
  sock,      \* the slot of the connection in sockets[]
  host,      \* the host's socket and the remote host
  written,   \* the bytes handed to the remote host
  early_fin, \* history: a FIN was taken before the data in front of it
  mac,       \* the Mac's end of the connection
  toMac,     \* packets in the ring of ether_windows.cpp
  fromMac    \* packets in the send queue

vars == <<sock, host, written, early_fin, mac, toMac, fromMac>>

Flags == {"SYN", "ACK", "FIN", "RST"}
States == {"CLOSED", "LISTEN", "SYN_SENT", "SYN_RCVD", "ESTABLISHED", "CLOSE_WAIT",
           "LAST_ACK", "FINWAIT_1", "FINWAIT_2", "CLOSING", "TIME_WAIT"}

Smaller(a, b) == IF a < b THEN a ELSE b
Bytes(first, n) == [i \in 1 .. n |-> first + i - 1]

\* A slot as alloc_socket() leaves it.  It does not set last_seq_out, nor
\* the byte counts of the write.
alloc_socket(s) ==
  [s EXCEPT !.in_use = TRUE, !.open = TRUE, !.state = "CLOSED",
            !.remote_closed = FALSE, !.accept_more = FALSE,
            !.seq_in = 0, !.seq_out = 1, !.mac_ack = 0, !.stalled = FALSE,
            !.time_wait = FALSE, !.shut = FALSE, !.bytes_received = <<>>,
            !.reads = 0, !.writes = 0]

free_socket(s) ==
  [s EXCEPT !.in_use = FALSE, !.open = FALSE, !.state = "CLOSED", !.stalled = FALSE,
            !.time_wait = FALSE]

Init ==
  /\ sock = [in_use |-> FALSE, open |-> FALSE, state |-> "CLOSED",
             remote_closed |-> FALSE, accept_more |-> FALSE, seq_in |-> 0, seq_out |-> 0,
             mac_ack |-> 0, last_seq_out |-> 0, stalled |-> FALSE, time_wait |-> FALSE,
             shut |-> FALSE, bytes_received |-> <<>>, to_send |-> 0, buffers_write |-> <<>>,
             reads |-> 0, writes |-> 0]
  /\ host = [conn |-> "none", sent |-> 0, read |-> 0, closed |-> FALSE, event |-> {}]
  /\ written = <<>> /\ early_fin = FALSE
  /\ \E st \in {"idle", "listen"} :
       mac = [st |-> st, una |-> 0, nxt |-> 0, rcv |-> 0, ackdue |-> FALSE,
              fin |-> 0, rfin |-> FALSE]
  /\ toMac = <<>> /\ fromMac = <<>>

-----------------------------------------------------------------------------
(* To the Mac.                                                             *)

Reply(s, flags) == [flags |-> flags, seq |-> s.seq_out, ack |-> s.seq_in, data |-> <<>>]

\* enqueue_packet() drops what the ring has no room for.
Enqueued(ring, out) == SubSeq(ring \o out, 1, Smaller(Len(ring \o out), Ring))

\* send_buffer() of what the last read received: new, or again.
Sent(s) ==
  [s |-> [s EXCEPT !.last_seq_out = s.seq_out, !.seq_out = @ + Len(s.bytes_received)],
   packet |-> [flags |-> {"ACK"}, seq |-> s.seq_out, ack |-> s.seq_in,
               data |-> s.bytes_received]]

MutResent(s) == Sent(s)

Resent(s) == Sent([s EXCEPT !.seq_out = s.last_seq_out])

has_mac_read_space(s) == s.seq_out = s.mac_ack

MutReading(s) ==
  IF s.open /\ host.conn = "up" /\ has_mac_read_space(s) THEN [s EXCEPT !.reads = @ + 1]
  ELSE s

\* b_recfrom().  When WSARecv() fails no read is outstanding and nobody is told.
Reading(s) ==
  IF ~ has_mac_read_space(s) THEN [s EXCEPT !.stalled = TRUE]
  ELSE IF s.open /\ host.conn = "up" THEN [s EXCEPT !.reads = @ + 1]
  ELSE s

\* b_send()
Writing(s) ==
  IF s.open /\ ~ s.shut /\ host.conn = "up" THEN [s EXCEPT !.writes = @ + 1] ELSE s

-----------------------------------------------------------------------------
(* write_tcp().  A step of the state machine yields the slot, the packets  *)
(* it sends, and whether data is handled and a read started after it.      *)

Step(s, out, handle_data, initiate_read) ==
  [s |-> s, out |-> out, handle_data |-> handle_data, initiate_read |-> initiate_read]

\* The FIN of a Mac whose peer has closed first.
FinAcked(s, state) ==
  LET t == [s EXCEPT !.seq_in = @ + 1]
  IN  Step([t EXCEPT !.state = state, !.time_wait = (state = "TIME_WAIT"),
                     !.open = @ /\ ~ s.remote_closed, !.shut = TRUE],
           <<Reply(t, {"ACK"})>>, FALSE, FALSE)

InClosed(s, p) ==
  IF "SYN" \in p.flags
  THEN Step([s EXCEPT !.seq_out = 1, !.seq_in = p.seq + 1, !.state = "LISTEN"],
            <<>>, FALSE, FALSE)
  ELSE Step(free_socket(s), <<>>, FALSE, FALSE)

InSynSent(s, p) ==
  LET t == [s EXCEPT !.seq_in = p.seq + 1, !.time_wait = FALSE]
  IN  CASE {"SYN", "ACK"} \subseteq p.flags ->
             Step([t EXCEPT !.state = "ESTABLISHED", !.accept_more = TRUE],
                  <<Reply(t, {"ACK"})>>, FALSE, TRUE)
        [] "SYN" \in p.flags /\ "ACK" \notin p.flags ->
             Step([t EXCEPT !.state = "SYN_RCVD", !.seq_out = @ + 1],
                  <<Reply(t, {"ACK", "SYN"})>>, FALSE, FALSE)
        [] "SYN" \notin p.flags /\ "ACK" \in p.flags ->
             Step([s EXCEPT !.state = "FINWAIT_2", !.time_wait = FALSE], <<>>, FALSE, FALSE)
        [] OTHER -> Step(s, <<>>, FALSE, FALSE)

\* The FIN is taken whatever its sequence number.
InEstablished(s, p) ==
  IF "FIN" \in p.flags
  THEN LET t == [s EXCEPT !.seq_in = @ + 1]
       IN  Step([t EXCEPT !.state = "CLOSE_WAIT", !.shut = TRUE],
                <<Reply(t, {"ACK"})>>, TRUE, FALSE)
  ELSE Step(s, <<>>, TRUE, FALSE)

InFinwait1(s, p) ==
  CASE {"FIN", "ACK"} \subseteq p.flags -> FinAcked(s, "TIME_WAIT")
    [] "FIN" \in p.flags /\ "ACK" \notin p.flags -> FinAcked(s, "CLOSING")
    [] "FIN" \notin p.flags /\ "ACK" \in p.flags ->
         Step([s EXCEPT !.state = "FINWAIT_2"], <<>>, FALSE, FALSE)
    [] OTHER -> Step(s, <<>>, FALSE, FALSE)

StateMachine(s, p) ==
  CASE s.state = "CLOSED" -> InClosed(s, p)
    [] s.state = "SYN_SENT" -> InSynSent(s, p)
    [] s.state = "SYN_RCVD" /\ "ACK" \in p.flags ->
         Step([s EXCEPT !.state = "ESTABLISHED", !.accept_more = TRUE], <<>>, TRUE, TRUE)
    [] s.state = "ESTABLISHED" -> InEstablished(s, p)
    [] s.state = "LAST_ACK" /\ "ACK" \in p.flags ->
         Step(free_socket(s), <<>>, FALSE, FALSE)
    [] s.state = "FINWAIT_1" -> InFinwait1(s, p)
    [] s.state = "FINWAIT_2" /\ "FIN" \in p.flags -> FinAcked(s, "TIME_WAIT")
    [] s.state = "CLOSING" /\ "ACK" \in p.flags ->
         Step([s EXCEPT !.state = "TIME_WAIT", !.time_wait = TRUE], <<>>, FALSE, FALSE)
    [] OTHER -> Step(s, <<>>, FALSE, FALSE)

\* The segment is written unless it is a duplicate or one is being written.
DataHandled(s, p) ==
  IF p.data # <<>> /\ s.accept_more /\ s.seq_in = p.seq
  THEN Writing([s EXCEPT !.accept_more = FALSE, !.buffers_write = p.data,
                         !.to_send = Len(p.data)])
  ELSE s

MutResumed(s, p) ==
  LET t == [s EXCEPT !.mac_ack = p.ack]
      resume == /\ t.stalled /\ t.mac_ack = t.seq_out
                /\ t.state \in {"ESTABLISHED", "CLOSE_WAIT"}
  IN  [s |-> t, initiate_read |-> resume]

\* The Mac's acknowledgement, which resumes a stalled read.
Resumed(s, p) ==
  LET t == [s EXCEPT !.mac_ack = p.ack]
      resume == /\ t.stalled /\ t.mac_ack = t.seq_out
                /\ t.state \in {"ESTABLISHED", "CLOSE_WAIT"}
  IN  [s |-> [t EXCEPT !.stalled = @ /\ ~ resume], initiate_read |-> resume]

\* The states that take a FIN do not compare its sequence number.
TakesEarlyFin(s, p) ==
  /\ "FIN" \in p.flags /\ s.state \in {"ESTABLISHED", "FINWAIT_1", "FINWAIT_2"}
  /\ p.data # <<>> \/ p.seq # s.seq_in

write_tcp ==
  /\ fromMac # <<>>
  /\ fromMac' = Tail(fromMac)
  /\ LET p == Head(fromMac)
         s0 == IF sock.in_use THEN sock ELSE alloc_socket(sock)
         r == Resumed(s0, p)
         m == StateMachine(r.s, p)
         s1 == IF m.handle_data THEN DataHandled(m.s, p) ELSE m.s
     IN  IF "RST" \in p.flags
         THEN sock' = free_socket(s0) /\ UNCHANGED <<host, toMac, early_fin>>
         ELSE /\ sock' = IF r.initiate_read \/ m.initiate_read THEN Reading(s1) ELSE s1
              /\ toMac' = Enqueued(toMac, m.out)
              /\ host' = [host EXCEPT !.conn =
                            IF r.s.state = "CLOSED" /\ m.s.state = "LISTEN"
                            THEN "connecting" ELSE @]
              /\ early_fin' = (early_fin \/ TakesEarlyFin(s0, p))
  /\ UNCHANGED <<written, mac>>

-----------------------------------------------------------------------------
(* The completion routines of the overlapped read and write.               *)

\* tcp_read_completion() of n bytes; none when the remote host has closed.
ReadDone(n) ==
  /\ sock.in_use /\ sock.reads > 0 /\ host.conn = "up"
  /\ n <= host.sent - host.read
  /\ n = 0 => host.sent = host.read /\ host.closed
  /\ LET s == [sock EXCEPT !.reads = @ - 1, !.bytes_received = Bytes(host.read + 1, n)]
         data == Sent(s)
         fin == [s EXCEPT !.open = FALSE, !.seq_out = @ + 1]
     IN  IF n > 0
         THEN /\ sock' = Reading(data.s)
              /\ toMac' = Enqueued(toMac, <<data.packet>>)
         ELSE IF s.state \in {"SYN_RCVD", "ESTABLISHED", "CLOSE_WAIT"}
         THEN /\ sock' = [fin EXCEPT !.state = IF s.state = "CLOSE_WAIT"
                                               THEN "LAST_ACK" ELSE "FINWAIT_1"]
              /\ toMac' = Enqueued(toMac, <<Reply(s, {"ACK", "FIN"})>>)
         ELSE sock' = [s EXCEPT !.open = FALSE] /\ UNCHANGED toMac
  /\ host' = [host EXCEPT !.read = @ + n]
  /\ UNCHANGED <<written, early_fin, mac, fromMac>>

\* ... with an error: the remote host has reset the connection.
ReadFailed ==
  /\ sock.in_use /\ sock.reads > 0 /\ host.conn = "reset"
  /\ sock' = free_socket([sock EXCEPT !.reads = @ - 1])
  /\ toMac' = Enqueued(toMac, <<Reply(sock, {"RST"})>>)
  /\ UNCHANGED <<host, written, early_fin, mac, fromMac>>

MutAllWritten(s, rest) == TRUE

\* bytes_remaining_to_send is the length of what is left in the buffer.
AllWritten(s, rest) == rest = <<>>

\* tcp_write_completion() of n bytes; none after an error, which it ignores.
WriteDone(n) ==
  /\ sock.in_use /\ sock.writes > 0 /\ n <= Len(sock.buffers_write)
  /\ host.conn = (IF n = 0 THEN "reset" ELSE "up")
  /\ LET rest == SubSeq(sock.buffers_write, n + 1, Len(sock.buffers_write))
         s == [sock EXCEPT !.writes = @ - 1, !.buffers_write = rest]
         done == [s EXCEPT !.seq_in = @ + s.to_send, !.to_send = 0, !.accept_more = TRUE]
     IN  CASE ~ s.open -> sock' = s /\ UNCHANGED toMac
           [] s.open /\ AllWritten(s, rest) ->
                sock' = done /\ toMac' = Enqueued(toMac, <<Reply(done, {"ACK"})>>)
           [] OTHER -> sock' = Writing(s) /\ UNCHANGED toMac
  /\ written' = written \o SubSeq(sock.buffers_write, 1, n)
  /\ UNCHANGED <<host, early_fin, mac, fromMac>>

-----------------------------------------------------------------------------
(* tcp_connect_close_thread() and tcp_listen_thread().                     *)

\* FD_CONNECT comes before FD_CLOSE.  A failed connect is not reported.
Event ==
  /\ sock.in_use /\ host.event # {}
  /\ LET connect == "FD_CONNECT" \in host.event
         connected == connect /\ host.conn = "up" /\ sock.state = "LISTEN"
     IN  /\ sock' = IF connected THEN [sock EXCEPT !.seq_out = @ + 1, !.state = "SYN_RCVD"]
                    ELSE IF connect \/ ~ sock.open THEN sock
                    ELSE [sock EXCEPT !.remote_closed = TRUE]
         /\ toMac' = IF connected THEN Enqueued(toMac, <<Reply(sock, {"SYN", "ACK"})>>)
                     ELSE toMac
  /\ host' = [host EXCEPT !.event = {}]
  /\ UNCHANGED <<written, early_fin, mac, fromMac>>

\* The resend timeout.  Before the first data there is nothing to repeat;
\* outside of ESTABLISHED the timeout ends the stall for good.
ResendTimeout ==
  /\ sock.in_use /\ sock.stalled /\ ~ sock.time_wait
  /\ sock.state = "ESTABLISHED" => sock.last_seq_out # 0
  /\ IF sock.state = "ESTABLISHED"
     THEN LET again == Resent(sock)
          IN  sock' = again.s /\ toMac' = Enqueued(toMac, <<again.packet>>)
     ELSE sock' = [sock EXCEPT !.stalled = FALSE] /\ UNCHANGED toMac
  /\ UNCHANGED <<host, written, early_fin, mac, fromMac>>

\* TIME_WAIT, or a Mac that does not answer the SYN.
TimeWaitExpired ==
  /\ sock.in_use /\ sock.time_wait
  /\ sock' = free_socket(sock)
  /\ UNCHANGED <<host, written, early_fin, mac, toMac, fromMac>>

\* A remote host connects to a port the Mac listens on.
tcp_accept_callback ==
  /\ mac.st = "listen" /\ host.conn = "none"
  /\ LET s == [alloc_socket(sock) EXCEPT !.mac_ack = 1]
     IN  /\ sock' = [s EXCEPT !.seq_out = 2, !.state = "SYN_SENT", !.time_wait = TRUE]
         /\ toMac' = Enqueued(toMac, <<Reply(s, {"SYN"})>>)
  /\ host' = [host EXCEPT !.conn = "up"]
  /\ UNCHANGED <<written, early_fin, mac, fromMac>>

-----------------------------------------------------------------------------
(* The remote host, through Winsock.                                       *)

Connected ==
  /\ host.conn = "connecting"
  /\ \E conn \in {"up", "failed"} :
       host' = [host EXCEPT !.conn = conn, !.event = {"FD_CONNECT"}]
  /\ UNCHANGED <<sock, written, early_fin, mac, toMac, fromMac>>

RemoteSends ==
  /\ host.conn = "up" /\ ~ host.closed /\ host.sent < RemoteBytes
  /\ host' = [host EXCEPT !.sent = @ + 1]
  /\ UNCHANGED <<sock, written, early_fin, mac, toMac, fromMac>>

RemoteCloses ==
  /\ host.conn = "up" /\ ~ host.closed
  /\ \E conn \in {"up", "reset"} :
       host' = [host EXCEPT !.closed = TRUE, !.conn = conn, !.event = @ \union {"FD_CLOSE"}]
  /\ UNCHANGED <<sock, written, early_fin, mac, toMac, fromMac>>

-----------------------------------------------------------------------------
(* The Mac: it acknowledges what it gets in order, and repeats what is not *)
(* acknowledged.                                                           *)

MacPacket(flags, seq, data) == [flags |-> flags, seq |-> seq, ack |-> mac.rcv, data |-> data]

MacSends(p, next) ==
  /\ Len(fromMac) < Queue
  /\ fromMac' = Append(fromMac, p)
  /\ mac' = [next EXCEPT !.ackdue = FALSE]
  /\ UNCHANGED <<sock, host, written, early_fin, toMac>>

MacOpens ==
  /\ mac.st = "idle"
  /\ MacSends(MacPacket({"SYN"}, 0, <<>>), [mac EXCEPT !.st = "syn", !.nxt = 1])

MacSendsData ==
  /\ mac.st = "open" /\ mac.fin = 0
  /\ \E n \in 1 .. Segment, fin \in BOOLEAN :
       /\ mac.nxt + n <= MacBytes + 1
       /\ mac.nxt + n - mac.una <= Segment
       /\ MacSends(MacPacket(IF fin THEN {"ACK", "FIN"} ELSE {"ACK"}, mac.nxt, Bytes(mac.nxt, n)),
                   [mac EXCEPT !.nxt = @ + n + (IF fin THEN 1 ELSE 0),
                               !.fin = IF fin THEN mac.nxt + n ELSE 0])

MacSendsFin ==
  /\ mac.st = "open" /\ mac.fin = 0
  /\ MacSends(MacPacket({"ACK", "FIN"}, mac.nxt, <<>>),
              [mac EXCEPT !.fin = mac.nxt, !.nxt = @ + 1])

MacAcks ==
  /\ mac.st = "open" /\ mac.ackdue
  /\ MacSends(MacPacket({"ACK"}, mac.nxt, <<>>), mac)

\* Its SYN, the data that is not acknowledged, or its FIN.
MacRepeats ==
  /\ mac.una < mac.nxt /\ mac.st \in {"syn", "synrcvd", "open"}
  /\ LET end == IF mac.fin = 0 THEN mac.nxt ELSE mac.fin
     IN  MacSends(CASE mac.una = 0 ->
                         MacPacket(IF mac.st = "syn" THEN {"SYN"} ELSE {"SYN", "ACK"}, 0, <<>>)
                    [] mac.una > 0 /\ mac.una < end ->
                         MacPacket({"ACK"}, mac.una, Bytes(mac.una, end - mac.una))
                    [] OTHER -> MacPacket({"ACK", "FIN"}, mac.una, <<>>),
                  mac)

MacResets ==
  /\ mac.st = "open"
  /\ MacSends(MacPacket({"RST"}, mac.nxt, <<>>), [mac EXCEPT !.st = "reset"])

MacReceives ==
  /\ toMac # <<>>
  /\ toMac' = Tail(toMac)
  /\ LET p == Head(toMac)
         acked == IF "ACK" \in p.flags /\ p.ack > mac.una /\ p.ack <= mac.nxt
                  THEN p.ack ELSE mac.una
         inOrder == p.seq = mac.rcv
         fin == inOrder /\ "FIN" \in p.flags
     IN  mac' = CASE "RST" \in p.flags -> [mac EXCEPT !.st = "reset"]
                  [] mac.st = "syn" /\ p.flags = {"SYN", "ACK"} ->
                       [mac EXCEPT !.st = "open", !.una = acked, !.rcv = p.seq + 1,
                                   !.ackdue = TRUE]
                  [] mac.st = "listen" /\ p.flags = {"SYN"} ->
                       [mac EXCEPT !.st = "synrcvd", !.nxt = 1, !.rcv = p.seq + 1]
                  [] mac.st = "open" \/ (mac.st = "synrcvd" /\ acked > 0) ->
                       [mac EXCEPT !.st = "open", !.una = acked,
                                   !.rcv = IF inOrder
                                           THEN @ + Len(p.data) + (IF fin THEN 1 ELSE 0)
                                           ELSE @,
                                   !.rfin = @ \/ fin,
                                   !.ackdue = @ \/ p.data # <<>> \/ p.flags # {"ACK"}]
                  [] OTHER -> mac
  /\ UNCHANGED <<sock, host, written, early_fin, fromMac>>

-----------------------------------------------------------------------------
Completion == ReadFailed \/ \E n \in 0 .. Segment : ReadDone(n)
WriteCompletion == \E n \in 0 .. Segment : WriteDone(n)

Router ==
  \/ write_tcp \/ Completion \/ WriteCompletion
  \/ Event \/ ResendTimeout \/ TimeWaitExpired \/ tcp_accept_callback

Remote == Connected \/ RemoteSends \/ RemoteCloses

Mac ==
  \/ MacOpens \/ MacSendsData \/ MacSendsFin \/ MacAcks \/ MacRepeats \/ MacResets
  \/ MacReceives

Next == Router \/ Remote \/ Mac

Spec == Init /\ [][Next]_vars

\* The router's threads run, data and connections of the remote host arrive,
\* and the Mac takes its packets and acknowledges them.
FairSpec ==
  /\ Spec
  /\ WF_vars(write_tcp) /\ WF_vars(Completion) /\ WF_vars(ResendTimeout)
  /\ WF_vars(MacReceives) /\ WF_vars(MacAcks)

-----------------------------------------------------------------------------
IsPacket(p) ==
  /\ p.flags \subseteq Flags
  /\ p.seq \in 0 .. MacBytes + RemoteBytes + 4 /\ p.ack \in 0 .. MacBytes + RemoteBytes + 4
  /\ Len(p.data) <= Segment /\ Range(p.data) \subseteq 1 .. MacBytes + RemoteBytes

\* The type invariant.
TypeOK ==
  /\ sock.state \in States
  /\ sock.reads \in Nat /\ sock.writes \in Nat
  /\ sock.seq_out \in 0 .. RemoteBytes + 3 /\ sock.last_seq_out \in 0 .. RemoteBytes + 3
  /\ sock.seq_in \in 0 .. MacBytes + 2 /\ sock.mac_ack \in 0 .. RemoteBytes + 3
  /\ Len(toMac) <= Ring /\ Len(fromMac) <= Queue
  /\ \A p \in Range(toMac) \union Range(fromMac) : IsPacket(p)

\* A slot has one buffer, one byte count and one OVERLAPPED each way: whatever
\* segments, acknowledgements and completions come in which order, one read
\* and one write at most are under way.
OneTransferEachWay == sock.reads <= 1 /\ sock.writes <= 1

\* What the Mac sends goes to the remote host in order and once, whatever is
\* repeated, and what the router has acknowledged has been handed over, unless
\* the router took a FIN without looking at the data in front of it.
AckedIsWritten ==
  /\ \A i \in DOMAIN written : written[i] = i
  /\ early_fin
     \/ Smaller(mac.una, IF mac.fin = 0 THEN mac.una ELSE mac.fin) - 1 <= Len(written)

\* A packet to the Mac holds the bytes its sequence number says, repeated or
\* not, and the router's FIN comes after all that the remote host has sent.
SegmentsMatchSequence ==
  \A p \in Range(toMac) :
    /\ \A i \in DOMAIN p.data : p.data[i] = p.seq + i - 2
    /\ "FIN" \in p.flags => p.seq = host.sent + 2

\* Over an open connection what the remote host has sent arrives at the Mac,
\* although packets to the Mac may be dropped.
RemoteDataArrives ==
  (sock.state = "ESTABLISHED")
    ~> (mac.rcv = host.sent + 2 \/ mac.fin # 0 \/ mac.st = "reset" \/ host.conn = "reset")
=============================================================================
