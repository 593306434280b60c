-------------------------- MODULE RouterTCP_proofs --------------------------
(***************************************************************************)
(* Theorems about RouterTCP: the variables keep their types, a slot has    *)
(* one transfer each way, what the router acknowledges has been written,   *)
(* and its segments hold the bytes their numbers say, for any number of    *)
(* bytes, any segment size and any length of the two queues.               *)
(***************************************************************************)
EXTENDS RouterTCP, SequenceTheorems, TLAPS

-----------------------------------------------------------------------------
(* The types.                                                              *)

SocketFields ==
  {"in_use", "open", "state", "remote_closed", "accept_more", "seq_in", "seq_out", "mac_ack",
   "last_seq_out", "stalled", "time_wait", "shut", "bytes_received", "to_send",
   "buffers_write", "reads", "writes"}

IsSocket(s) ==
  /\ DOMAIN s = SocketFields
  /\ s.in_use \in BOOLEAN /\ s.open \in BOOLEAN /\ s.state \in States
  /\ s.remote_closed \in BOOLEAN /\ s.accept_more \in BOOLEAN /\ s.stalled \in BOOLEAN
  /\ s.time_wait \in BOOLEAN /\ s.shut \in BOOLEAN
  /\ s.seq_in \in 0 .. MacBytes + 2 /\ s.seq_out \in 0 .. RemoteBytes + 3
  /\ s.mac_ack \in 0 .. RemoteBytes + 3 /\ s.last_seq_out \in 0 .. RemoteBytes + 3
  /\ s.bytes_received \in Seq(Nat) /\ s.buffers_write \in Seq(Nat) /\ s.to_send \in Nat
  /\ s.reads \in {0, 1} /\ s.writes \in {0, 1}

IsHost(h) ==
  /\ DOMAIN h = {"conn", "sent", "read", "closed", "event"}
  /\ h.conn \in {"none", "connecting", "up", "failed", "reset"}
  /\ h.sent \in 0 .. RemoteBytes /\ h.read \in 0 .. RemoteBytes
  /\ h.closed \in BOOLEAN /\ h.event \subseteq {"FD_CONNECT", "FD_CLOSE"}

IsMac(m) ==
  /\ DOMAIN m = {"st", "una", "nxt", "rcv", "ackdue", "fin", "rfin"}
  /\ m.st \in {"idle", "listen", "syn", "synrcvd", "open", "reset"}
  /\ m.una \in 0 .. MacBytes + 2 /\ m.nxt \in 0 .. MacBytes + 2
  /\ m.rcv \in 0 .. RemoteBytes + 3 /\ m.ackdue \in BOOLEAN
  /\ m.fin \in 0 .. MacBytes + 1 /\ m.rfin \in BOOLEAN

Packet ==
  [flags : SUBSET Flags, seq : 0 .. MacBytes + RemoteBytes + 3,
   ack : 0 .. MacBytes + RemoteBytes + 3, data : Seq(Nat)]

Types ==
  /\ IsSocket(sock) /\ IsHost(host) /\ IsMac(mac)
  /\ written \in Seq(Nat) /\ early_fin \in BOOLEAN

-----------------------------------------------------------------------------
(* What has been acknowledged.                                             *)

\* All that comes before the Mac's FIN has been written.
FinDone == mac.fin # 0 /\ mac.fin <= Len(written) + 1

Excused == early_fin \/ FinDone

\* What an acknowledgement may say.
Acked == IF Excused THEN MacBytes + 2 ELSE Len(written) + 1

AcksOK ==
  /\ mac.una <= Acked
  /\ sock.in_use /\ sock.shut => Excused

-----------------------------------------------------------------------------
(* A slot in use: read bytes of the remote host's data have been read, and *)
(* w bytes of the Mac's written.                                           *)

Opening == {"LISTEN", "SYN_SENT", "SYN_RCVD"}

\* Nothing has been transferred by a connection that is being opened.
OpeningOK(s, read, w) ==
  s.state \in Opening =>
    /\ read = 0 /\ w = 0
    /\ s.reads = 0 /\ s.writes = 0 /\ ~ s.accept_more /\ ~ s.stalled
    /\ s.seq_in = (IF s.state = "SYN_SENT" THEN 0 ELSE 1)
    /\ s.seq_out = (IF s.state = "LISTEN" THEN 1 ELSE 2)

\* What has been read has been sent, and is there to be sent again.
SendOK(s, read) ==
  /\ s.stalled => s.reads = 0
  /\ s.reads = 1 => s.state \in {"ESTABLISHED", "CLOSE_WAIT"}
  /\ s.time_wait => s.state \in {"SYN_SENT", "TIME_WAIT"}
  /\ s.seq_out <= read + 3
  /\ s.state \in {"ESTABLISHED", "CLOSE_WAIT"} => s.seq_out = read + 2
  /\ s.last_seq_out # 0 => read > 0
  /\ s.state = "ESTABLISHED" /\ s.last_seq_out # 0 =>
       /\ s.last_seq_out + Len(s.bytes_received) = s.seq_out
       /\ \A i \in 1 .. Len(s.bytes_received) : s.bytes_received[i] = s.last_seq_out + i - 2
       /\ Len(s.bytes_received) <= Segment /\ s.last_seq_out >= 2

\* A FIN of the Mac that was taken has a number too; one is.
Fin(s) == IF s.shut THEN 1 ELSE 0

FinOK(s) ==
  s.state \in Opening \union {"ESTABLISHED", "FINWAIT_1", "FINWAIT_2"} => ~ s.shut

\* What has been taken of the Mac's data is written, or is being written.
ReceiveOK(s, w) ==
  /\ s.seq_in <= w + 1 + Fin(s)
  /\ s.accept_more => s.writes = 0 /\ s.seq_in = w + 1 + Fin(s)
  /\ s.writes = 1 =>
       /\ s.seq_in + s.to_send = w + Len(s.buffers_write) + 1 + Fin(s)
       /\ s.buffers_write = Bytes(w + 1, Len(s.buffers_write))
       /\ w + Len(s.buffers_write) <= MacBytes

SlotOK(s, read, w) ==
  /\ s.in_use /\ s.state # "CLOSED"
  /\ OpeningOK(s, read, w) /\ SendOK(s, read) /\ FinOK(s) /\ ReceiveOK(s, w)

Slot == sock.in_use => SlotOK(sock, host.read, Len(written))

-----------------------------------------------------------------------------
(* Packets.                                                                *)

ToMacOK(p, h, acked) ==
  /\ p.seq <= RemoteBytes + 3 /\ p.ack <= acked
  /\ \A i \in 1 .. Len(p.data) : p.data[i] = p.seq + i - 2
  /\ p.data # <<>> => p.seq + Len(p.data) <= h.sent + 2 /\ Len(p.data) <= Segment
                      /\ p.seq >= 2
  /\ "FIN" \in p.flags => p.seq = h.sent + 2 /\ h.closed /\ p.data = <<>>
  /\ "SYN" \in p.flags => p.seq = 1
  /\ p.flags = {"SYN", "ACK"} => p.ack = 1

AllToMac(q, h, acked) ==
  /\ q \in Seq(Packet) /\ Len(q) <= Ring
  /\ \A i \in 1 .. Len(q) : ToMacOK(q[i], h, acked)

FromMacOK(p, fin) ==
  /\ p.seq <= MacBytes + 2 /\ p.ack <= RemoteBytes + 3
  /\ p.data = Bytes(p.seq, Len(p.data)) /\ Len(p.data) <= Segment
  /\ p.data # <<>> => p.seq >= 1 /\ p.seq + Len(p.data) <= MacBytes + 1
  /\ "SYN" \in p.flags => /\ p.seq = 0 /\ p.ack <= 2 /\ p.data = <<>>
                          /\ "FIN" \notin p.flags /\ "RST" \notin p.flags
  /\ "FIN" \in p.flags => fin # 0 /\ (p.data = <<>> => p.seq = fin)

AllFromMac(q, fin) ==
  /\ q \in Seq(Packet) /\ Len(q) <= Queue
  /\ \A i \in 1 .. Len(q) : FromMacOK(q[i], fin)

Packets == AllToMac(toMac, host, Acked) /\ AllFromMac(fromMac, mac.fin)

-----------------------------------------------------------------------------
(* The two ends and the beginning of the connection.                       *)

Ends ==
  /\ host.read <= host.sent
  /\ sock.last_seq_out # 0 => host.read > 0
  /\ \A i \in 1 .. Len(written) : written[i] = i
  /\ Len(written) <= MacBytes
  /\ mac.una <= mac.nxt /\ mac.rcv <= host.sent + 3
  /\ mac.fin # 0 => mac.nxt = mac.fin + 1
  /\ mac.fin = 0 => mac.nxt <= MacBytes + 1
  /\ mac.st \in {"idle", "listen"} => mac.nxt = 0 /\ mac.rcv = 0 /\ mac.fin = 0 /\ fromMac = <<>>
  /\ mac.st = "syn" => mac.nxt = 1 /\ mac.una = 0 /\ mac.rcv = 0 /\ mac.fin = 0
  /\ mac.st = "synrcvd" => mac.nxt = 1 /\ mac.una = 0 /\ mac.rcv = 2 /\ mac.fin = 0
  /\ mac.st = "open" =>
       /\ mac.una >= 1
       /\ (IF mac.fin = 0 THEN mac.nxt ELSE mac.fin) - mac.una <= Segment

NotOpenYet == {"idle", "listen", "syn", "synrcvd"}

HasSyn(i) == "SYN" \in fromMac[i].flags

\* The Mac has sent nothing but its SYN, or the router has not taken it all.
Fresh == mac.st \in NotOpenYet \/ \E i \in 1 .. Len(fromMac) : HasSyn(i)

SynsFirst ==
  /\ mac.st \in NotOpenYet => \A i \in 1 .. Len(fromMac) : HasSyn(i)
  /\ \A j \in 1 .. Len(fromMac) : HasSyn(j) => \A i \in 1 .. j : HasSyn(i)

\* A SYN that is repeated after the connection was freed opens it again, when
\* nothing has been transferred.
FreshOK ==
  Fresh =>
    /\ written = <<>>
    /\ sock.in_use =>
         /\ sock.writes = 0 /\ ~ sock.shut /\ sock.mac_ack <= 2
         /\ sock.state \in Opening \union {"ESTABLISHED", "FINWAIT_1", "FINWAIT_2"}
    /\ \/ host.read = 0
       \/ sock.in_use /\ sock.state = "ESTABLISHED" /\ sock.reads = 0 /\ sock.stalled

\* Before the connection there is nothing but the Mac's SYN.
Before ==
  host.conn = "none" =>
    /\ ~ sock.in_use /\ toMac = <<>> /\ host.sent = 0
    /\ mac.st \in {"idle", "listen", "syn"}

\* The Mac is called: it answers with SYN and ACK.
Called ==
  sock.in_use /\ sock.state = "SYN_SENT" =>
    /\ mac.st \in {"listen", "synrcvd"}
    /\ \A i \in 1 .. Len(toMac) : toMac[i].flags = {"SYN"}
    /\ \A i \in 1 .. Len(fromMac) : fromMac[i].flags = {"SYN", "ACK"}

IInv ==
  /\ Types /\ AcksOK /\ Slot /\ Packets /\ Ends /\ SynsFirst /\ FreshOK /\ Before /\ Called

-----------------------------------------------------------------------------
(* Bytes and the ring.                                                     *)

LEMMA BytesFacts ==
  ASSUME NEW first \in Nat \ {0}, NEW n \in Nat
  PROVE  /\ Bytes(first, n) \in Seq(Nat) /\ Len(Bytes(first, n)) = n
         /\ \A i \in 1 .. n : Bytes(first, n)[i] = first + i - 1
         /\ n # 0 => Bytes(first, n) # <<>>
<1>1. Bytes(first, n) \in [1 .. n -> Nat]
  BY DEF Bytes
<1>2. Bytes(first, n) \in Seq(Nat)
  BY <1>1, SeqDef
<1>3. Len(Bytes(first, n)) = n
  BY <1>1, <1>2, LenProperties
<1>4. \A i \in 1 .. n : Bytes(first, n)[i] = first + i - 1
  BY DEF Bytes
<1>5. n # 0 => Bytes(first, n) # <<>>
  BY <1>3
<1>6. QED
  BY <1>2, <1>3, <1>4, <1>5

LEMMA NoBytes == \A first \in Nat : Bytes(first, 0) = <<>>
  BY DEF Bytes

\* enqueue_packet() adds what it has room for, and nothing else.
LEMMA EnqueuedFacts ==
  ASSUME NEW ring \in Seq(Packet), NEW out \in Seq(Packet)
  PROVE  /\ Enqueued(ring, out) \in Seq(Packet)
         /\ Len(Enqueued(ring, out)) <= Ring
         /\ \A i \in 1 .. Len(Enqueued(ring, out)) :
              \/ \E j \in 1 .. Len(ring) : Enqueued(ring, out)[i] = ring[j]
              \/ \E j \in 1 .. Len(out) : Enqueued(ring, out)[i] = out[j]
<1> DEFINE all == ring \o out
           n == Smaller(Len(all), Ring)
<1>1. /\ all \in Seq(Packet) /\ Len(all) = Len(ring) + Len(out)
      /\ Len(ring) \in Nat /\ Len(out) \in Nat /\ Len(all) \in Nat
      /\ \A i \in 1 .. Len(ring) + Len(out) :
           all[i] = IF i <= Len(ring) THEN ring[i] ELSE out[i - Len(ring)]
  BY ConcatProperties, LenProperties
<1>2. n \in Nat /\ n <= Ring /\ n <= Len(all)
  BY <1>1, RouterTCPAssumption DEF Smaller
<1>3. \A i \in 1 .. n : all[i] \in Packet
  BY <1>1, <1>2, ElementOfSeq
<1>4. Enqueued(ring, out) = SubSeq(all, 1, n)
  BY DEF Enqueued
<1> HIDE DEF n, all
<1>5. /\ SubSeq(all, 1, n) \in Seq(Packet)
      /\ Len(SubSeq(all, 1, n)) = IF 1 <= n THEN n - 1 + 1 ELSE 0
      /\ \A i \in 1 .. n - 1 + 1 : SubSeq(all, 1, n)[i] = all[1 + i - 1]
  BY <1>2, <1>3, SubSeqProperties
<1>6. Len(SubSeq(all, 1, n)) = n /\ \A i \in 1 .. n : SubSeq(all, 1, n)[i] = all[i]
  BY <1>2, <1>5
<1>7. ASSUME NEW i \in 1 .. n
      PROVE  \/ \E j \in 1 .. Len(ring) : all[i] = ring[j]
             \/ \E j \in 1 .. Len(out) : all[i] = out[j]
  <2>1. CASE i <= Len(ring)
    BY <1>1, <1>2, <2>1
  <2>2. CASE ~ (i <= Len(ring))
    <3>1. i - Len(ring) \in 1 .. Len(out) /\ all[i] = out[i - Len(ring)]
      BY <1>1, <1>2, <2>2
    <3>2. QED
      BY <3>1
  <2>3. QED
    BY <2>1, <2>2
<1>8. QED
  BY <1>2, <1>4, <1>5, <1>6, <1>7

LEMMA RingKeeps ==
  ASSUME NEW h, NEW acked, NEW q, AllToMac(q, h, acked), NEW out \in Seq(Packet),
         \A j \in 1 .. Len(out) : ToMacOK(out[j], h, acked)
  PROVE  AllToMac(Enqueued(q, out), h, acked)
<1>1. q \in Seq(Packet)
  BY DEF AllToMac
<1>2. ASSUME NEW i \in 1 .. Len(Enqueued(q, out))
      PROVE  ToMacOK(Enqueued(q, out)[i], h, acked)
  BY <1>1, <1>2, EnqueuedFacts DEF AllToMac
<1>3. QED
  BY <1>1, <1>2, EnqueuedFacts DEF AllToMac

LEMMA NothingAdded ==
  ASSUME NEW h, NEW acked, NEW q, AllToMac(q, h, acked)
  PROVE  AllToMac(Enqueued(q, <<>>), h, acked)
<1> DEFINE out == <<>>
<1>1. out \in Seq(Packet) /\ Len(out) = 0
  OBVIOUS
<1> HIDE DEF out
<1>2. \A j \in 1 .. Len(out) : ToMacOK(out[j], h, acked)
  BY <1>1
<1>3. AllToMac(Enqueued(q, out), h, acked)
  BY <1>1, <1>2, RingKeeps
<1>4. QED
  BY <1>3 DEF out

LEMMA NothingNew ==
  ASSUME NEW q \in Seq(Packet), NEW F, \A i \in 1 .. Len(q) : q[i].flags = F
  PROVE  \A i \in 1 .. Len(Enqueued(q, <<>>)) : Enqueued(q, <<>>)[i].flags = F
<1> DEFINE out == <<>>
           e == Enqueued(q, out)
<1>1. out \in Seq(Packet) /\ ~ \E j \in 1 .. Len(out) : TRUE
  OBVIOUS
<1> HIDE DEF out
<1>2. \A i \in 1 .. Len(e) : \E j \in 1 .. Len(q) : e[i] = q[j]
  BY <1>1, EnqueuedFacts
<1>3. \A i \in 1 .. Len(e) : e[i].flags = F
  BY <1>2
<1>4. QED
  BY <1>3 DEF out

LEMMA OneAdded ==
  ASSUME NEW h, NEW acked, NEW q, AllToMac(q, h, acked), NEW p \in Packet, ToMacOK(p, h, acked)
  PROVE  AllToMac(Enqueued(q, <<p>>), h, acked)
<1> DEFINE out == <<p>>
<1>1. out \in Seq(Packet) /\ Len(out) = 1 /\ out[1] = p
  OBVIOUS
<1> HIDE DEF out
<1>2. AllToMac(Enqueued(q, out), h, acked)
  BY <1>1, RingKeeps
<1>3. QED
  BY <1>2 DEF out

\* Packets on their way stay what they were when the remote host sends more,
\* until it closes, and more of the Mac's data is written.
LEMMA ToMacLasts ==
  ASSUME NEW h, IsHost(h), NEW h2, IsHost(h2), NEW acked \in Nat, NEW acked2 \in Nat,
         acked <= acked2,
         h.sent <= h2.sent, h.closed => h2.closed /\ h2.sent = h.sent, NEW q, AllToMac(q, h, acked)
  PROVE  AllToMac(q, h2, acked2)
<1>1. ASSUME NEW i \in 1 .. Len(q)
      PROVE  ToMacOK(q[i], h2, acked2)
  <2>1. ToMacOK(q[i], h, acked) /\ q[i] \in Packet
    BY ElementOfSeq DEF AllToMac
  <2>2. /\ q[i].seq \in Nat /\ q[i].ack \in Nat /\ Len(q[i].data) \in Nat
        /\ h.sent \in Nat /\ h2.sent \in Nat
    BY <2>1, LenProperties, RouterTCPAssumption DEF Packet, IsHost
  <2>3. q[i].ack <= acked2
    BY <2>1, <2>2 DEF ToMacOK
  <2>a. q[i].data # <<>> => q[i].seq + Len(q[i].data) <= h.sent + 2
    BY <2>1 DEF ToMacOK
  <2> DEFINE x == q[i].seq
             n == Len(q[i].data)
  <2>b. x \in Nat /\ n \in Nat
    BY <2>2
  <2> HIDE DEF x, n
  <2>c. x + n <= h.sent + 2 => x + n <= h2.sent + 2
    BY <2>b, <2>2
  <2>4. q[i].data # <<>> => q[i].seq + Len(q[i].data) <= h2.sent + 2
    BY <2>a, <2>c DEF x, n
  <2>5. QED
    BY <2>1, <2>3, <2>4 DEF ToMacOK
<1>2. QED
  BY <1>1 DEF AllToMac

LEMMA TailLasts ==
  ASSUME NEW q, NEW fin, AllFromMac(q, fin), q # <<>>
  PROVE  /\ AllFromMac(Tail(q), fin) /\ Head(q) \in Packet /\ FromMacOK(Head(q), fin)
         /\ Head(q) = q[1] /\ Len(q) \in Nat /\ Len(q) >= 1 /\ Len(Tail(q)) = Len(q) - 1
         /\ \A i \in 1 .. Len(Tail(q)) : Tail(q)[i] = q[i + 1]
<1>1. q \in Seq(Packet) /\ Len(q) \in Nat /\ Len(q) # 0 /\ Len(q) <= Queue
      /\ \A i \in 1 .. Len(q) : FromMacOK(q[i], fin)
  BY LenProperties, EmptySeq DEF AllFromMac
<1>2. /\ Head(q) \in Packet /\ Tail(q) \in Seq(Packet) /\ Len(Tail(q)) = Len(q) - 1
      /\ \A i \in 1 .. Len(Tail(q)) : Tail(q)[i] = q[i + 1]
  BY <1>1, HeadTailProperties DEF AllFromMac
<1>3. Head(q) = q[1]
  BY <1>1
<1>4. \A i \in 1 .. Len(Tail(q)) : FromMacOK(Tail(q)[i], fin)
  BY <1>1, <1>2
<1>5. QED
  BY <1>1, <1>2, <1>3, <1>4, RouterTCPAssumption DEF AllFromMac

LEMMA OneElement ==
  ASSUME NEW p \in Packet
  PROVE  <<p>> \in Seq(Packet) /\ Len(<<p>>) = 1 /\ <<p>>[1] = p
  OBVIOUS

-----------------------------------------------------------------------------
(* The steps of write_tcp().                                               *)

SameTransfer(t, s) ==
  /\ t.in_use = s.in_use /\ t.open = s.open /\ t.state = s.state
  /\ t.accept_more = s.accept_more
  /\ t.seq_in = s.seq_in /\ t.seq_out = s.seq_out /\ t.last_seq_out = s.last_seq_out
  /\ t.shut = s.shut /\ t.reads = s.reads /\ t.writes = s.writes
  /\ t.time_wait = s.time_wait

\* A read is started only when none is under way.
LEMMA ReadingKeeps ==
  ASSUME NEW s, IsSocket(s), NEW read, NEW w,
         SlotOK(s, read, w), s.reads = 0, ~ s.stalled,
         s.state \in {"ESTABLISHED", "CLOSE_WAIT"}
  PROVE  /\ IsSocket(Reading(s)) /\ SlotOK(Reading(s), read, w)
         /\ Reading(s).state = s.state /\ Reading(s).shut = s.shut
         /\ Reading(s).seq_in = s.seq_in /\ Reading(s).mac_ack = s.mac_ack
         /\ Reading(s).writes = s.writes /\ Reading(s).last_seq_out = s.last_seq_out
         /\ s.seq_out # s.mac_ack => Reading(s).stalled /\ Reading(s).reads = 0
<1> DEFINE t == Reading(s)
<1>1. \/ t = s /\ s.seq_out = s.mac_ack
      \/ t = [s EXCEPT !.stalled = TRUE]
      \/ t = [s EXCEPT !.reads = @ + 1] /\ s.seq_out = s.mac_ack
  BY DEF Reading, has_mac_read_space
<1> HIDE DEF t
<1>2. CASE t = s /\ s.seq_out = s.mac_ack
  BY <1>2 DEF t
<1>3. CASE t = [s EXCEPT !.stalled = TRUE]
  <2>1. IsSocket(t) /\ SameTransfer(t, s) /\ t.stalled
        /\ t.mac_ack = s.mac_ack /\ t.bytes_received = s.bytes_received
        /\ t.to_send = s.to_send /\ t.buffers_write = s.buffers_write
    BY <1>3 DEF IsSocket, SocketFields, SameTransfer
  <2>2. SlotOK(t, read, w)
    BY <2>1 DEF SlotOK, OpeningOK, SendOK, FinOK, ReceiveOK, Fin, Opening, SameTransfer
  <2>3. QED
    BY <2>1, <2>2 DEF SameTransfer, t
<1>4. CASE t = [s EXCEPT !.reads = @ + 1] /\ s.seq_out = s.mac_ack
  <2>1. IsSocket(t) /\ t.reads = 1
        /\ t.in_use = s.in_use /\ t.state = s.state /\ t.accept_more = s.accept_more
        /\ t.seq_in = s.seq_in /\ t.seq_out = s.seq_out /\ t.last_seq_out = s.last_seq_out
        /\ t.shut = s.shut /\ t.writes = s.writes /\ t.stalled = s.stalled
        /\ t.time_wait = s.time_wait
        /\ t.mac_ack = s.mac_ack /\ t.bytes_received = s.bytes_received
        /\ t.to_send = s.to_send /\ t.buffers_write = s.buffers_write
    BY <1>4 DEF IsSocket, SocketFields
  <2>2. SlotOK(t, read, w)
    BY <2>1 DEF SlotOK, OpeningOK, SendOK, FinOK, ReceiveOK, Fin, Opening
  <2>3. QED
    BY <1>4, <2>1, <2>2 DEF t
<1>5. QED
  BY <1>1, <1>2, <1>3, <1>4

\* The Mac's acknowledgement resumes a read only when none is under way.
LEMMA ResumedKeeps ==
  ASSUME NEW s, IsSocket(s), NEW read, NEW w, NEW p \in Packet, p.ack <= RemoteBytes + 3,
         SlotOK(s, read, w)
  PROVE  /\ IsSocket(Resumed(s, p).s) /\ SlotOK(Resumed(s, p).s, read, w)
         /\ Resumed(s, p).s.mac_ack = p.ack
         /\ SameTransfer(Resumed(s, p).s, s)
         /\ Resumed(s, p).initiate_read =>
              /\ s.state \in {"ESTABLISHED", "CLOSE_WAIT"} /\ p.ack = s.seq_out
              /\ s.reads = 0 /\ ~ Resumed(s, p).s.stalled
         /\ ~ Resumed(s, p).initiate_read => Resumed(s, p).s.stalled = s.stalled
<1> DEFINE go == s.stalled /\ p.ack = s.seq_out /\ s.state \in {"ESTABLISHED", "CLOSE_WAIT"}
           t == Resumed(s, p).s
           u == [s EXCEPT !.mac_ack = p.ack]
<1>1. p.ack \in 0 .. RemoteBytes + 3
  BY RouterTCPAssumption DEF Packet
<1>2. IsSocket(u) /\ SameTransfer(u, s) /\ u.mac_ack = p.ack /\ u.stalled = s.stalled
      /\ u.bytes_received = s.bytes_received
      /\ u.to_send = s.to_send /\ u.buffers_write = s.buffers_write
  BY <1>1 DEF IsSocket, SocketFields, SameTransfer
<1>3. (Resumed(s, p).initiate_read <=> go) /\ t = [u EXCEPT !.stalled = @ /\ ~ go]
  BY <1>2 DEF Resumed, SameTransfer
<1> HIDE DEF u, t
<1>4. IsSocket(t) /\ SameTransfer(t, s) /\ t.mac_ack = p.ack /\ (t.stalled <=> s.stalled /\ ~ go)
      /\ t.bytes_received = s.bytes_received
      /\ t.to_send = s.to_send /\ t.buffers_write = s.buffers_write
  BY <1>2, <1>3 DEF IsSocket, SocketFields, SameTransfer
<1>5. SlotOK(t, read, w)
  BY <1>4 DEF SlotOK, OpeningOK, SendOK, FinOK, ReceiveOK, Fin, SameTransfer
<1>6. go => s.reads = 0
  BY DEF SlotOK, SendOK
<1>7. QED
  BY <1>3, <1>4, <1>5, <1>6 DEF t, IsSocket


\* The ways of the state machine on a slot in use.
Established(s) == [s EXCEPT !.state = "ESTABLISHED", !.accept_more = TRUE]

MachineWay(s, p, m) ==
  \/ s.state = "SYN_SENT" /\ m = InSynSent(s, p)
  \/ s.state = "SYN_RCVD" /\ m = Step(Established(s), <<>>, TRUE, TRUE)
  \/ s.state = "ESTABLISHED" /\ m = InEstablished(s, p)
  \/ s.state = "LAST_ACK" /\ m = Step(free_socket(s), <<>>, FALSE, FALSE)
  \/ /\ s.state = "FINWAIT_1" /\ "FIN" \in p.flags
     /\ \E st \in {"TIME_WAIT", "CLOSING"} : m = FinAcked(s, st)
  \/ s.state = "FINWAIT_1" /\ m = Step([s EXCEPT !.state = "FINWAIT_2"], <<>>, FALSE, FALSE)
  \/ s.state = "FINWAIT_2" /\ "FIN" \in p.flags /\ m = FinAcked(s, "TIME_WAIT")
  \/ /\ s.state = "CLOSING"
     /\ m = Step([s EXCEPT !.state = "TIME_WAIT", !.time_wait = TRUE], <<>>, FALSE, FALSE)
  \/ s.state \notin {"SYN_SENT", "ESTABLISHED"} /\ m = Step(s, <<>>, FALSE, FALSE)

LEMMA MachineCases ==
  ASSUME NEW s, NEW p, s.state \in States \ {"CLOSED"}
  PROVE  MachineWay(s, p, StateMachine(s, p))
<1>1. CASE s.state = "SYN_SENT"
  BY <1>1 DEF StateMachine, MachineWay
<1>2. CASE s.state = "SYN_RCVD"
  <2>1. StateMachine(s, p) = Step(Established(s), <<>>, TRUE, TRUE)
        \/ StateMachine(s, p) = Step(s, <<>>, FALSE, FALSE)
    BY <1>2 DEF StateMachine, Established
  <2>2. QED
    BY <1>2, <2>1 DEF MachineWay
<1>3. CASE s.state = "ESTABLISHED"
  BY <1>3 DEF StateMachine, MachineWay
<1>4. CASE s.state = "LAST_ACK"
  <2>1. StateMachine(s, p) = Step(free_socket(s), <<>>, FALSE, FALSE)
        \/ StateMachine(s, p) = Step(s, <<>>, FALSE, FALSE)
    BY <1>4 DEF StateMachine
  <2>2. QED
    BY <1>4, <2>1 DEF MachineWay
<1>5. CASE s.state = "FINWAIT_1"
  <2>1. StateMachine(s, p) = InFinwait1(s, p)
    BY <1>5 DEF StateMachine
  <2>2. \/ /\ "FIN" \in p.flags
           /\ \/ InFinwait1(s, p) = FinAcked(s, "TIME_WAIT")
              \/ InFinwait1(s, p) = FinAcked(s, "CLOSING")
        \/ InFinwait1(s, p) = Step([s EXCEPT !.state = "FINWAIT_2"], <<>>, FALSE, FALSE)
        \/ InFinwait1(s, p) = Step(s, <<>>, FALSE, FALSE)
    BY DEF InFinwait1
  <2>3. QED
    BY <1>5, <2>1, <2>2 DEF MachineWay
<1>6. CASE s.state = "FINWAIT_2"
  <2>1. StateMachine(s, p) = (IF "FIN" \in p.flags THEN FinAcked(s, "TIME_WAIT")
                              ELSE Step(s, <<>>, FALSE, FALSE))
    BY <1>6 DEF StateMachine
  <2>2. QED
    BY <1>6, <2>1 DEF MachineWay
<1>7. CASE s.state = "CLOSING"
  <2>1. \/ StateMachine(s, p) = Step([s EXCEPT !.state = "TIME_WAIT", !.time_wait = TRUE],
                                     <<>>, FALSE, FALSE)
        \/ StateMachine(s, p) = Step(s, <<>>, FALSE, FALSE)
    BY <1>7 DEF StateMachine
  <2>2. QED
    BY <1>7, <2>1 DEF MachineWay
<1>8. CASE s.state \in {"LISTEN", "CLOSE_WAIT", "TIME_WAIT"}
  <2>1. StateMachine(s, p) = Step(s, <<>>, FALSE, FALSE)
    BY <1>8 DEF StateMachine
  <2>2. QED
    BY <1>8, <2>1 DEF MachineWay
<1>9. QED
  BY <1>1, <1>2, <1>3, <1>4, <1>5, <1>6, <1>7, <1>8 DEF States

SameBuffers(t, s) ==
  /\ t.last_seq_out = s.last_seq_out /\ t.bytes_received = s.bytes_received
  /\ t.to_send = s.to_send /\ t.buffers_write = s.buffers_write
  /\ t.reads = s.reads /\ t.writes = s.writes
  /\ t.mac_ack = s.mac_ack /\ t.stalled = s.stalled

\* The states in which a Mac that repeats its SYN may find the router.
SynStates == Opening \union {"ESTABLISHED", "FINWAIT_1", "FINWAIT_2"}

\* The packet that answers, if there is one.
AnswerOK(q, s) ==
  /\ q \in Packet /\ q.seq <= RemoteBytes + 3 /\ q.data = <<>>
  /\ q.flags = {"ACK"} /\ q.ack = s.seq_in

MachineOK(s, p, m, read, w) ==
  /\ IsSocket(m.s)
  /\ m.s.in_use => SameBuffers(m.s, s) /\ SlotOK(m.s, read, w)
  /\ ~ m.s.in_use => s.state = "LAST_ACK"
  /\ m.initiate_read =>
       m.s.in_use /\ m.s.state = "ESTABLISHED" /\ m.s.reads = 0 /\ ~ m.s.stalled
  /\ s.state \in {"ESTABLISHED", "CLOSE_WAIT"} =>
       m.s.in_use /\ m.s.state \in {"ESTABLISHED", "CLOSE_WAIT"} /\ ~ m.initiate_read
  /\ m.handle_data => m.s.in_use /\ m.s.state \notin Opening
  /\ m.s.shut => \/ s.shut
                 \/ "FIN" \in p.flags /\ s.state \in {"ESTABLISHED", "FINWAIT_1", "FINWAIT_2"}
  /\ "SYN" \in p.flags /\ s.state \in SynStates =>
       /\ m.s.in_use /\ ~ m.s.shut /\ m.s.state \in SynStates
       /\ s.state = "ESTABLISHED" => m.s = s
  /\ m.s.state \in {"SYN_SENT", "LISTEN"} => m.s = s /\ m.out = <<>>
  /\ m.out # <<>> => m.s.in_use /\ \E q : m.out = <<q>> /\ AnswerOK(q, m.s)

LEMMA ReplyFacts ==
  ASSUME NEW s, IsSocket(s)
  PROVE  AnswerOK(Reply(s, {"ACK"}), s)
<1>1. <<>> \in Seq(Nat) /\ {"ACK"} \in SUBSET Flags
  BY DEF Flags
<1>2. /\ s.seq_out \in 0 .. MacBytes + RemoteBytes + 3
      /\ s.seq_in \in 0 .. MacBytes + RemoteBytes + 3
  BY RouterTCPAssumption DEF IsSocket
<1>3. Reply(s, {"ACK"}) \in Packet
  BY <1>1, <1>2 DEF Reply, Packet
<1>4. QED
  BY <1>3 DEF Reply, AnswerOK, IsSocket

\* A FIN that is taken leaves a write that is under way as it is.
LEMMA ReceiveShut ==
  ASSUME NEW s, IsSocket(s), NEW t, NEW w \in 0 .. MacBytes, ReceiveOK(s, w), ~ s.shut,
         t.shut, t.seq_in = s.seq_in + 1, t.accept_more = s.accept_more, SameBuffers(t, s)
  PROVE  ReceiveOK(t, w)
<1>1. Fin(t) = 1 /\ Fin(s) = 0
  BY DEF Fin
<1>2. /\ s.seq_in \in Nat /\ s.to_send \in Nat /\ w \in Nat
      /\ Len(s.buffers_write) \in Nat /\ Len(t.buffers_write) = Len(s.buffers_write)
  BY LenProperties, RouterTCPAssumption DEF IsSocket, SameBuffers
<1>3. t.accept_more => t.writes = 0 /\ t.seq_in = w + 1 + Fin(t)
  BY <1>1, <1>2 DEF ReceiveOK, SameBuffers
<1>4. t.seq_in <= w + 1 + Fin(t)
  BY <1>1, <1>2 DEF ReceiveOK
<1>5. ASSUME t.writes = 1
      PROVE  /\ t.seq_in + t.to_send = w + Len(t.buffers_write) + 1 + Fin(t)
             /\ t.buffers_write = Bytes(w + 1, Len(t.buffers_write))
             /\ w + Len(t.buffers_write) <= MacBytes
  BY <1>1, <1>2, <1>5 DEF ReceiveOK, SameBuffers
<1>6. QED
  BY <1>3, <1>4, <1>5 DEF ReceiveOK

\* A FIN in FINWAIT_1 and FINWAIT_2 is acknowledged.
LEMMA FinAckedKeeps ==
  ASSUME NEW s, IsSocket(s), NEW read \in Nat, NEW w \in 0 .. MacBytes,
         NEW p, "FIN" \in p.flags, "SYN" \notin p.flags, SlotOK(s, read, w),
         s.state \in {"FINWAIT_1", "FINWAIT_2"}, NEW st \in {"TIME_WAIT", "CLOSING"}
  PROVE  MachineOK(s, p, FinAcked(s, st), read, w)
<1> DEFINE m == FinAcked(s, st)
           u == [s EXCEPT !.seq_in = @ + 1]
           t == [u EXCEPT !.state = st, !.time_wait = (st = "TIME_WAIT"),
                          !.open = @ /\ ~ s.remote_closed, !.shut = TRUE]
<1>1. m.s = t /\ m.out = <<Reply(u, {"ACK"})>> /\ ~ m.handle_data /\ ~ m.initiate_read
  BY DEF FinAcked, Step
<1>2. ~ s.shut /\ s.seq_in <= w + 1 /\ s.in_use
  BY DEF SlotOK, FinOK, ReceiveOK, Fin
<1>3. s.seq_in + 1 \in 0 .. MacBytes + 2
  BY <1>2, RouterTCPAssumption DEF IsSocket
<1>4. IsSocket(u) /\ u.seq_in = s.seq_in + 1
  BY <1>3 DEF IsSocket, SocketFields
<1>5. IsSocket(t) /\ SameBuffers(t, s) /\ t.in_use /\ t.state = st
      /\ (t.time_wait <=> st = "TIME_WAIT") /\ t.accept_more = s.accept_more /\ t.seq_in = s.seq_in + 1
      /\ t.seq_out = s.seq_out /\ t.shut
  BY <1>2, <1>3 DEF IsSocket, SocketFields, SameBuffers, States
<1> HIDE DEF t, u, m
<1>6. SendOK(t, read)
  BY <1>5 DEF SlotOK, SendOK, SameBuffers
<1>7. ReceiveOK(t, w)
  BY <1>2, <1>5, ReceiveShut DEF SlotOK
<1>8. SlotOK(t, read, w)
  BY <1>5, <1>6, <1>7 DEF SlotOK, OpeningOK, FinOK, Opening
<1>9. AnswerOK(Reply(u, {"ACK"}), t)
  BY <1>4, <1>5, ReplyFacts DEF AnswerOK
<1>10. MachineOK(s, p, m, read, w)
  BY <1>1, <1>5, <1>8, <1>9 DEF MachineOK, Opening
<1>11. QED
  BY <1>10 DEF m

LEMMA MachineKeeps ==
  ASSUME NEW s, IsSocket(s), NEW read \in Nat, NEW w \in 0 .. MacBytes,
         NEW p \in Packet, NEW fin, FromMacOK(p, fin), SlotOK(s, read, w),
         s.state = "SYN_SENT" => p.flags = {"SYN", "ACK"}
  PROVE  MachineOK(s, p, StateMachine(s, p), read, w)
<1> DEFINE m == StateMachine(s, p)
<1>s. s.state \in States \ {"CLOSED"} /\ s.in_use
  BY DEF SlotOK, IsSocket
<1>way. MachineWay(s, p, m)
  BY <1>s, MachineCases
<1> SUFFICES MachineOK(s, p, m, read, w)
  OBVIOUS
<1> HIDE DEF m
<1> USE DEF Step
<1>1. CASE s.state = "SYN_SENT" /\ m = InSynSent(s, p)
  <2> DEFINE t == [s EXCEPT !.seq_in = p.seq + 1, !.time_wait = FALSE,
                           !.state = "ESTABLISHED", !.accept_more = TRUE]
             u == [s EXCEPT !.seq_in = p.seq + 1, !.time_wait = FALSE]
  <2>1. p.flags = {"SYN", "ACK"} /\ p.seq = 0
    BY <1>1 DEF FromMacOK
  <2>2. m.s = t /\ m.out = <<Reply(u, {"ACK"})>> /\ ~ m.handle_data /\ m.initiate_read
    BY <1>1, <2>1 DEF InSynSent
  <2>3. OpeningOK(s, read, w) /\ w = 0 /\ ~ s.shut /\ s.seq_in = 0
    BY <1>1 DEF SlotOK, OpeningOK, FinOK, Opening
  <2>4. 1 \in 0 .. MacBytes + 2
    BY RouterTCPAssumption
  <2>n. p.seq + 1 = 1
    BY <2>1
  <2>5. IsSocket(t) /\ SameBuffers(t, s) /\ t.in_use /\ t.state = "ESTABLISHED" /\ t.accept_more
        /\ ~ t.time_wait
        /\ t.seq_in = 1 /\ t.seq_out = s.seq_out /\ t.shut = s.shut
    BY <1>s, <2>n, <2>4 DEF IsSocket, SocketFields, SameBuffers, States
  <2>6. IsSocket(u) /\ u.seq_in = 1
    BY <2>n, <2>4 DEF IsSocket, SocketFields
  <2> HIDE DEF t, u
  <2>7. SlotOK(t, read, w)
    BY <1>1, <2>3, <2>5
       DEF SlotOK, OpeningOK, SendOK, FinOK, ReceiveOK, Fin, SameBuffers, Opening
  <2>8. AnswerOK(Reply(u, {"ACK"}), t)
    BY <2>5, <2>6, ReplyFacts DEF AnswerOK
  <2>9. QED
    BY <1>1, <2>1, <2>2, <2>3, <2>5, <2>7, <2>8
       DEF MachineOK, SameBuffers, OpeningOK, Opening, SynStates
<1>2. CASE s.state = "SYN_RCVD" /\ m = Step(Established(s), <<>>, TRUE, TRUE)
  <2> DEFINE t == Established(s)
  <2>1. m.s = t /\ m.out = <<>> /\ m.handle_data /\ m.initiate_read
    BY <1>2
  <2>2. OpeningOK(s, read, w) /\ w = 0 /\ ~ s.shut /\ s.seq_in = 1
    BY <1>2 DEF SlotOK, OpeningOK, FinOK, Opening
  <2>3. IsSocket(t) /\ SameBuffers(t, s) /\ t.in_use /\ t.state = "ESTABLISHED" /\ t.accept_more
        /\ t.time_wait = s.time_wait
        /\ t.seq_in = s.seq_in /\ t.seq_out = s.seq_out /\ t.shut = s.shut
    BY <1>s DEF IsSocket, SocketFields, SameBuffers, States, Established
  <2> HIDE DEF t
  <2>4. SlotOK(t, read, w)
    BY <1>2, <2>2, <2>3
       DEF SlotOK, OpeningOK, SendOK, FinOK, ReceiveOK, Fin, SameBuffers, Opening
  <2>5. QED
    BY <1>2, <2>1, <2>2, <2>3, <2>4
       DEF MachineOK, SameBuffers, OpeningOK, Opening, SynStates
<1>3. CASE s.state = "ESTABLISHED" /\ m = InEstablished(s, p)
  <2>1. CASE "FIN" \notin p.flags
    <3>1. m.s = s /\ m.out = <<>> /\ m.handle_data /\ ~ m.initiate_read
      BY <1>3, <2>1 DEF InEstablished
    <3>2. QED
      BY <1>3, <1>s, <3>1
         DEF MachineOK, SameBuffers, SlotOK, FinOK, Opening, SynStates
  <2>2. CASE "FIN" \in p.flags
    <3> DEFINE u == [s EXCEPT !.seq_in = @ + 1]
               t == [u EXCEPT !.state = "CLOSE_WAIT", !.shut = TRUE]
    <3>1. m.s = t /\ m.out = <<Reply(u, {"ACK"})>> /\ m.handle_data /\ ~ m.initiate_read
      BY <1>3, <2>2 DEF InEstablished
    <3>2. ~ s.shut /\ s.seq_in <= w + 1
      BY <1>3 DEF SlotOK, FinOK, ReceiveOK, Fin
    <3>3. s.seq_in + 1 \in 0 .. MacBytes + 2
      <4>1. s.seq_in \in Nat
        BY <1>s, RouterTCPAssumption DEF IsSocket
      <4>2. QED
        BY <3>2, <4>1, RouterTCPAssumption
    <3>4. IsSocket(u) /\ u.seq_in = s.seq_in + 1
      BY <3>3 DEF IsSocket, SocketFields
    <3>5. IsSocket(t) /\ SameBuffers(t, s) /\ t.in_use /\ t.state = "CLOSE_WAIT"
          /\ t.time_wait = s.time_wait /\ t.accept_more = s.accept_more /\ t.seq_in = s.seq_in + 1
          /\ t.seq_out = s.seq_out /\ t.shut
      BY <1>s, <3>3 DEF IsSocket, SocketFields, SameBuffers, States
    <3> HIDE DEF t, u
    <3>6. SlotOK(t, read, w)
      <4>1. SendOK(t, read)
        BY <1>3, <3>5 DEF SlotOK, SendOK, SameBuffers
      <4>2. ReceiveOK(t, w)
        BY <3>2, <3>5, ReceiveShut DEF SlotOK
      <4>3. QED
        BY <3>5, <4>1, <4>2 DEF SlotOK, OpeningOK, FinOK, Opening
    <3>7. AnswerOK(Reply(u, {"ACK"}), t)
      BY <3>4, <3>5, ReplyFacts DEF AnswerOK
    <3>8. "SYN" \notin p.flags
      BY <2>2 DEF FromMacOK
    <3>9. QED
      BY <1>3, <2>2, <3>1, <3>5, <3>6, <3>7, <3>8 DEF MachineOK, Opening
  <2>3. QED
    BY <2>1, <2>2
<1>4. CASE s.state = "LAST_ACK" /\ m = Step(free_socket(s), <<>>, FALSE, FALSE)
  <2> DEFINE t == free_socket(s)
  <2>1. m.s = t /\ m.out = <<>> /\ ~ m.handle_data /\ ~ m.initiate_read
    BY <1>4
  <2>2. IsSocket(t) /\ t.shut = s.shut /\ ~ t.in_use /\ t.state = "CLOSED"
    BY DEF IsSocket, SocketFields, States, free_socket
  <2> HIDE DEF t
  <2>3. QED
    BY <1>4, <2>1, <2>2 DEF MachineOK, Opening, SynStates
<1>5. CASE m = FinAcked(s, "TIME_WAIT") /\ s.state \in {"FINWAIT_1", "FINWAIT_2"}
           /\ "FIN" \in p.flags
  <2>1. "SYN" \notin p.flags
    BY <1>5 DEF FromMacOK
  <2>2. QED
    BY <1>5, <2>1, FinAckedKeeps
<1>6. CASE m = FinAcked(s, "CLOSING") /\ s.state \in {"FINWAIT_1", "FINWAIT_2"}
           /\ "FIN" \in p.flags
  <2>1. "SYN" \notin p.flags
    BY <1>6 DEF FromMacOK
  <2>2. QED
    BY <1>6, <2>1, FinAckedKeeps
<1>7. CASE s.state = "FINWAIT_1" /\ m = Step([s EXCEPT !.state = "FINWAIT_2"], <<>>, FALSE, FALSE)
  <2> DEFINE t == [s EXCEPT !.state = "FINWAIT_2"]
  <2>1. m.s = t /\ m.out = <<>> /\ ~ m.handle_data /\ ~ m.initiate_read
    BY <1>7
  <2>2. IsSocket(t) /\ SameBuffers(t, s) /\ t.in_use /\ t.state = "FINWAIT_2"
        /\ t.time_wait = s.time_wait /\ t.accept_more = s.accept_more /\ t.seq_in = s.seq_in
        /\ t.seq_out = s.seq_out /\ t.shut = s.shut
    BY <1>s DEF IsSocket, SocketFields, SameBuffers, States
  <2> HIDE DEF t
  <2>3. SlotOK(t, read, w)
    BY <1>7, <2>2
       DEF SlotOK, OpeningOK, SendOK, FinOK, ReceiveOK, Fin, SameBuffers, Opening
  <2>4. ~ s.shut
    BY <1>7 DEF SlotOK, FinOK
  <2>5. QED
    BY <1>7, <2>1, <2>2, <2>3, <2>4 DEF MachineOK, Opening, SynStates
<1>8. CASE /\ s.state = "CLOSING"
           /\ m = Step([s EXCEPT !.state = "TIME_WAIT", !.time_wait = TRUE], <<>>, FALSE, FALSE)
  <2> DEFINE t == [s EXCEPT !.state = "TIME_WAIT", !.time_wait = TRUE]
  <2>1. m.s = t /\ m.out = <<>> /\ ~ m.handle_data /\ ~ m.initiate_read
    BY <1>8
  <2>2. IsSocket(t) /\ SameBuffers(t, s) /\ t.in_use /\ t.state = "TIME_WAIT"
        /\ t.accept_more = s.accept_more /\ t.seq_in = s.seq_in
        /\ t.seq_out = s.seq_out /\ t.shut = s.shut
    BY <1>s DEF IsSocket, SocketFields, SameBuffers, States
  <2> HIDE DEF t
  <2>3. SlotOK(t, read, w)
    BY <1>8, <2>2
       DEF SlotOK, OpeningOK, SendOK, FinOK, ReceiveOK, Fin, SameBuffers, Opening
  <2>4. QED
    BY <1>8, <2>1, <2>2, <2>3 DEF MachineOK, Opening, SynStates
<1>9. CASE s.state \notin {"SYN_SENT", "ESTABLISHED"} /\ m = Step(s, <<>>, FALSE, FALSE)
  <2>1. m.s = s /\ m.out = <<>> /\ ~ m.handle_data /\ ~ m.initiate_read
    BY <1>9
  <2>2. s.state \in SynStates => ~ s.shut
    BY DEF SlotOK, FinOK, SynStates
  <2>3. s.state = "CLOSE_WAIT" => s.in_use
    BY <1>s
  <2>4. QED
    BY <1>9, <1>s, <2>1, <2>2 DEF MachineOK, SameBuffers
<1>10. QED
  BY <1>way, <1>1, <1>2, <1>3, <1>4, <1>5, <1>6, <1>7, <1>8, <1>9 DEF MachineWay


HandledOK(t, s, p, read, w) ==
  /\ IsSocket(t) /\ SlotOK(t, read, w)
  /\ t.state = s.state /\ t.reads = s.reads /\ t.stalled = s.stalled
  /\ t.shut = s.shut /\ t.seq_in = s.seq_in /\ t.seq_out = s.seq_out
  /\ t.mac_ack = s.mac_ack /\ t.last_seq_out = s.last_seq_out
  /\ p.data = <<>> => t = s

\* A write is started only when none is under way, and of the bytes that come next.
LEMMA DataHandledKeeps ==
  ASSUME NEW s, IsSocket(s), NEW read \in Nat, NEW w \in 0 .. MacBytes,
         NEW p \in Packet, NEW fin, FromMacOK(p, fin), SlotOK(s, read, w),
         s.state \notin Opening
  PROVE  HandledOK(DataHandled(s, p), s, p, read, w)
<1> DEFINE t == DataHandled(s, p)
           go == p.data # <<>> /\ s.accept_more /\ s.seq_in = p.seq
           u == [s EXCEPT !.accept_more = FALSE, !.buffers_write = p.data,
                          !.to_send = Len(p.data)]
<1>1. CASE ~ go
  BY <1>1 DEF DataHandled, HandledOK
<1>2. CASE go
  <2>1. p.data \in Seq(Nat) /\ Len(p.data) \in Nat
    BY LenProperties DEF Packet
  <2>2. /\ IsSocket(u) /\ u.in_use = s.in_use /\ u.open = s.open /\ u.state = s.state
        /\ u.reads = s.reads /\ u.stalled = s.stalled /\ u.bytes_received = s.bytes_received
        /\ u.shut = s.shut /\ u.seq_in = s.seq_in /\ u.seq_out = s.seq_out /\ u.writes = s.writes
        /\ u.mac_ack = s.mac_ack /\ u.last_seq_out = s.last_seq_out /\ u.time_wait = s.time_wait
        /\ ~ u.accept_more /\ u.buffers_write = p.data /\ u.to_send = Len(p.data)
    BY <2>1 DEF IsSocket, SocketFields
  <2>3. t = Writing(u)
    BY <1>2 DEF DataHandled
  <2> HIDE DEF u, t
  <2>4. s.writes = 0 /\ s.seq_in = w + 1 + Fin(s)
    BY <1>2 DEF SlotOK, ReceiveOK
  <2>5. \/ t = u
        \/ t = [u EXCEPT !.writes = @ + 1] /\ ~ s.shut
    BY <2>2, <2>3 DEF Writing
  <2>6. CASE t = u
    <3>1. Fin(t) = Fin(s) /\ t.seq_in = s.seq_in /\ t.writes = 0
      BY <2>2, <2>4, <2>6 DEF Fin
    <3>2. ReceiveOK(t, w)
      BY <2>2, <2>6, <3>1 DEF SlotOK, ReceiveOK
    <3>3. SlotOK(t, read, w)
      BY <2>2, <2>6, <3>2 DEF SlotOK, OpeningOK, SendOK, FinOK
    <3>4. QED
      BY <1>2, <2>2, <2>6, <3>3 DEF t, HandledOK
  <2>7. CASE t = [u EXCEPT !.writes = @ + 1] /\ ~ s.shut
    <3>1. u.writes + 1 = 1
      BY <2>2, <2>4
    <3>2. /\ IsSocket(t) /\ t.in_use = s.in_use /\ t.state = s.state
          /\ t.reads = s.reads /\ t.stalled = s.stalled /\ t.bytes_received = s.bytes_received
          /\ t.shut = s.shut /\ t.seq_in = s.seq_in /\ t.seq_out = s.seq_out /\ t.writes = 1
          /\ t.mac_ack = s.mac_ack /\ t.last_seq_out = s.last_seq_out /\ t.time_wait = s.time_wait
          /\ ~ t.accept_more /\ t.buffers_write = p.data /\ t.to_send = Len(p.data)
      BY <2>2, <2>7, <3>1 DEF IsSocket, SocketFields
    <3>3. p.seq = w + 1 /\ Fin(t) = 0 /\ p.data = Bytes(p.seq, Len(p.data))
          /\ p.seq + Len(p.data) <= MacBytes + 1
      BY <1>2, <2>4, <2>7, <3>2 DEF Fin, FromMacOK
    <3>4. ReceiveOK(t, w)
      <4>1. t.seq_in = w + 1
        BY <1>2, <3>2, <3>3
      <4>2. w \in Nat /\ MacBytes \in Nat /\ Len(t.buffers_write) = Len(p.data)
        BY <3>2, RouterTCPAssumption
      <4> DEFINE n == Len(p.data)
      <4>3. n \in Nat /\ t.to_send = n /\ Len(t.buffers_write) = n /\ w + 1 + n <= MacBytes + 1
        BY <2>1, <3>2, <3>3, <4>2
      <4> HIDE DEF n
      <4>4. t.seq_in + t.to_send = w + n + 1 + Fin(t) /\ w + n <= MacBytes
        BY <3>3, <4>1, <4>2, <4>3
      <4>5. t.buffers_write = Bytes(w + 1, n)
        BY <3>2, <3>3 DEF n
      <4>6. t.seq_in <= w + 1 + Fin(t)
        BY <3>3, <4>1, <4>2
      <4>7. QED
        BY <3>2, <4>3, <4>4, <4>5, <4>6 DEF ReceiveOK
    <3>5. SlotOK(t, read, w)
      BY <3>2, <3>4 DEF SlotOK, OpeningOK, SendOK, FinOK
    <3>6. QED
      BY <1>2, <3>2, <3>5 DEF t, HandledOK
  <2>8. QED
    BY <2>5, <2>6, <2>7
<1>3. QED
  BY <1>1, <1>2

-----------------------------------------------------------------------------
(* The invariant is inductive: one lemma for each action.                  *)

LEMMA Limit ==
  ASSUME Types, Ends
  PROVE  /\ Acked \in Nat /\ Acked <= MacBytes + 2 /\ Len(written) + 1 <= Acked
         /\ Len(written) \in 0 .. MacBytes /\ Len(written) \in Nat
         /\ Excused => Acked = MacBytes + 2
<1>1. Len(written) \in Nat
  BY LenProperties DEF Types
<1>2. Len(written) <= MacBytes
  BY DEF Ends
<1>3. QED
  BY <1>1, <1>2, RouterTCPAssumption DEF Acked

\* An answer of a slot acknowledges what has been written, or comes with a FIN.
LEMMA AnswerLimit ==
  ASSUME NEW q, NEW s, AnswerOK(q, s), IsSocket(s), NEW h, NEW acked \in Nat,
         s.seq_in <= acked
  PROVE  ToMacOK(q, h, acked)
<1>1. "FIN" \notin q.flags /\ "SYN" \notin q.flags /\ q.flags # {"SYN", "ACK"}
  BY DEF AnswerOK
<1>2. Len(q.data) = 0 /\ q.data = <<>>
  BY EmptySeq DEF AnswerOK
<1>3. q.seq <= RemoteBytes + 3 /\ q.ack <= acked
  BY DEF AnswerOK
<1>4. QED
  BY <1>1, <1>2, <1>3 DEF ToMacOK

\* A SYN is at the head of the queue while there is one.
LEMMA HeadIsSyn ==
  ASSUME Packets, SynsFirst, fromMac # <<>>, Fresh
  PROVE  "SYN" \in Head(fromMac).flags
<1>1. Head(fromMac) = fromMac[1] /\ Len(fromMac) \in Nat /\ Len(fromMac) >= 1
  BY TailLasts DEF Packets
<1>2. HasSyn(1)
  BY <1>1 DEF SynsFirst, Fresh
<1>3. QED
  BY <1>1, <1>2 DEF HasSyn

LEMMA TailSyns ==
  ASSUME Packets, SynsFirst, fromMac # <<>>, fromMac' = Tail(fromMac), mac' = mac
  PROVE  SynsFirst' /\ (Fresh' => Fresh)
<1>1. /\ Len(fromMac) \in Nat /\ Len(fromMac) >= 1 /\ Len(fromMac') = Len(fromMac) - 1
      /\ \A i \in 1 .. Len(fromMac') : fromMac'[i] = fromMac[i + 1]
  BY TailLasts DEF Packets
<1>2. ASSUME NEW i \in 1 .. Len(fromMac')
      PROVE  (HasSyn(i)' <=> HasSyn(i + 1)) /\ i + 1 \in 1 .. Len(fromMac)
  BY <1>1 DEF HasSyn
<1>3. Fresh' => Fresh
  BY <1>2 DEF Fresh
<1>4. mac'.st \in NotOpenYet => \A i \in 1 .. Len(fromMac') : HasSyn(i)'
  BY <1>2 DEF SynsFirst
<1>5. ASSUME NEW j \in 1 .. Len(fromMac'), HasSyn(j)', NEW i \in 1 .. j
      PROVE  HasSyn(i)'
  <2>1. i \in 1 .. Len(fromMac') /\ i + 1 \in 1 .. j + 1
    BY <1>1
  <2>2. HasSyn(i + 1)
    BY <1>2, <1>5, <2>1 DEF SynsFirst
  <2>3. QED
    BY <1>2, <2>1, <2>2
<1>6. QED
  BY <1>3, <1>4, <1>5 DEF SynsFirst

-----------------------------------------------------------------------------
(* write_tcp().                                                            *)

LEMMA WriteFrame ==
  ASSUME IInv, write_tcp
  PROVE  /\ fromMac # <<>> /\ fromMac' = Tail(fromMac) /\ written' = written /\ mac' = mac
         /\ AllFromMac(fromMac, mac.fin) /\ AllFromMac(fromMac', mac'.fin)
         /\ Head(fromMac) \in Packet /\ FromMacOK(Head(fromMac), mac.fin)
         /\ SynsFirst' /\ (Fresh' => Fresh) /\ (Fresh => "SYN" \in Head(fromMac).flags)
<1>1. fromMac # <<>> /\ fromMac' = Tail(fromMac) /\ written' = written /\ mac' = mac
  BY DEF write_tcp
<1>2. AllFromMac(fromMac, mac.fin)
  BY DEF IInv, Packets
<1>3. QED
  BY <1>1, <1>2, TailLasts, TailSyns, HeadIsSyn DEF IInv

\* The parts of the invariant that no packet disturbs.
LEMMA WriteKeepsEnds ==
  ASSUME IInv, write_tcp, IsSocket(sock'), sock'.last_seq_out = sock.last_seq_out,
         IsHost(host'), host'.sent = host.sent, host'.read = host.read, host'.closed = host.closed,
         early_fin' \in BOOLEAN
  PROVE  Types' /\ Ends'
<1>1. fromMac # <<>> /\ written' = written /\ mac' = mac
  BY WriteFrame
<1>2. Types'
  BY <1>1 DEF IInv, Types
<1>3. Ends'
  BY <1>1 DEF IInv, Ends
<1>4. QED
  BY <1>2, <1>3

\* A slot that is freed.
LEMMA FreeFacts ==
  ASSUME NEW s, IsSocket(s)
  PROVE  /\ IsSocket(free_socket(s)) /\ ~ free_socket(s).in_use
         /\ free_socket(s).last_seq_out = s.last_seq_out
  BY DEF IsSocket, SocketFields, free_socket, States

LEMMA AllocFacts ==
  ASSUME NEW s, IsSocket(s)
  PROVE  /\ IsSocket(alloc_socket(s)) /\ alloc_socket(s).state = "CLOSED"
         /\ alloc_socket(s).last_seq_out = s.last_seq_out
         /\ ~ alloc_socket(s).stalled /\ ~ alloc_socket(s).accept_more /\ ~ alloc_socket(s).shut
         /\ ~ alloc_socket(s).time_wait
         /\ alloc_socket(s).reads = 0 /\ alloc_socket(s).writes = 0 /\ alloc_socket(s).in_use
         /\ alloc_socket(s).seq_in = 0 /\ alloc_socket(s).seq_out = 1
<1>1. 0 \in 0 .. MacBytes + 2 /\ 1 \in 0 .. RemoteBytes + 3 /\ 0 \in 0 .. RemoteBytes + 3
      /\ <<>> \in Seq(Nat)
  BY RouterTCPAssumption
<1>2. QED
  BY <1>1 DEF IsSocket, SocketFields, alloc_socket, States

SameHost ==
  /\ IsHost(host')
  /\ host'.conn = host.conn /\ host'.sent = host.sent /\ host'.read = host.read
  /\ host'.closed = host.closed

\* A slot that write_tcp() leaves out of use.
LEMMA WriteFrees ==
  ASSUME IInv, write_tcp, "SYN" \notin Head(fromMac).flags,
         IsSocket(sock'), ~ sock'.in_use, sock'.last_seq_out = sock.last_seq_out,
         SameHost, AllToMac(toMac', host, Acked), early_fin' = early_fin
  PROVE  IInv'
<1>1. /\ written' = written /\ mac' = mac /\ SynsFirst' /\ ~ Fresh' /\ ~ Fresh
      /\ AllFromMac(fromMac', mac'.fin)
  BY WriteFrame
<1>2. Types' /\ Ends'
  BY WriteKeepsEnds DEF IInv, Types, SameHost
<1>3. Acked' = Acked
  BY <1>1 DEF Acked, Excused, FinDone
<1>4. AllToMac(toMac', host', Acked')
  <2>1. IsHost(host) /\ Acked \in Nat
    BY Limit DEF IInv, Types
  <2>2. IsHost(host') /\ host'.sent = host.sent /\ host'.closed = host.closed
    BY DEF SameHost
  <2>3. host.sent <= host'.sent /\ Acked <= Acked' /\ Acked' \in Nat
    BY <1>3, <2>1, <2>2, RouterTCPAssumption DEF IsHost
  <2>4. QED
    BY <2>1, <2>2, <2>3, ToMacLasts
<1>a. AcksOK' /\ Packets'
  BY <1>1, <1>3, <1>4 DEF IInv, AcksOK, Packets
<1>5. Slot' /\ FreshOK' /\ Called'
  BY <1>1 DEF Slot, FreshOK, Called
<1>6. Before'
  BY <1>1 DEF IInv, Before, Fresh, NotOpenYet, SameHost
<1>7. QED
  BY <1>1, <1>2, <1>a, <1>5, <1>6 DEF IInv

\* A slot that write_tcp() takes into use.
LEMMA WriteOpens ==
  ASSUME IInv, write_tcp, IsSocket(sock'), sock'.in_use, sock'.state = "LISTEN",
         sock'.seq_in = 1, sock'.seq_out = 1, sock'.last_seq_out = sock.last_seq_out,
         ~ sock'.stalled, ~ sock'.accept_more, ~ sock'.shut, sock'.reads = 0, sock'.writes = 0,
         ~ sock'.time_wait, sock'.mac_ack <= 2, written = <<>>, host.read = 0,
         IsHost(host'), host'.sent = host.sent, host'.read = host.read,
         host'.closed = host.closed, host'.conn = "connecting",
         AllToMac(toMac', host, Acked), early_fin' = early_fin
  PROVE  IInv'
<1>1. /\ written' = written /\ mac' = mac /\ SynsFirst'
      /\ AllFromMac(fromMac', mac'.fin)
  BY WriteFrame
<1>2. Types' /\ Ends'
  BY WriteKeepsEnds DEF IInv, Types
<1>3. Acked' = Acked
  BY <1>1 DEF Acked, Excused, FinDone
<1>4. AllToMac(toMac', host', Acked')
  <2>1. IsHost(host) /\ Acked \in Nat
    BY Limit DEF IInv, Types
  <2>2. host.sent <= host'.sent /\ Acked <= Acked' /\ Acked' \in Nat
    BY <1>3, <2>1, RouterTCPAssumption DEF IsHost
  <2>3. QED
    BY <2>1, <2>2, ToMacLasts
<1>5. AcksOK' /\ Packets'
  BY <1>1, <1>3, <1>4 DEF IInv, AcksOK, Packets
<1>6. Len(written) = 0 /\ Len(written') = 0 /\ host'.read = 0
  BY <1>1, EmptySeq
<1>7. sock.last_seq_out = 0
  <2>1. sock.last_seq_out # 0 => host.read > 0
    BY DEF IInv, Ends
  <2>2. QED
    BY <2>1
<1>8. Slot'
  <2>1. OpeningOK(sock', 0, 0)
    BY DEF OpeningOK
  <2>2. SendOK(sock', 0)
    BY <1>7 DEF SendOK
  <2>3. FinOK(sock') /\ ReceiveOK(sock', 0)
    BY DEF FinOK, ReceiveOK, Fin
  <2>4. SlotOK(sock', 0, 0)
    BY <2>1, <2>2, <2>3 DEF SlotOK
  <2>5. QED
    BY <1>6, <2>4 DEF Slot
<1>9. FreshOK' /\ Before' /\ Called'
  BY <1>1 DEF FreshOK, Before, Called, Opening
<1>10. QED
  BY <1>1, <1>2, <1>5, <1>8, <1>9 DEF IInv

\* A segment for a slot that is not in use: a SYN takes it.
LEMMA WriteToNone ==
  ASSUME IInv, write_tcp, ~ sock.in_use, "RST" \notin Head(fromMac).flags
  PROVE  IInv'
<1> DEFINE p == Head(fromMac)
           s0 == alloc_socket(sock)
           r == Resumed(s0, p)
           m == StateMachine(r.s, p)
           u == [s0 EXCEPT !.mac_ack = p.ack]
<1>1. /\ written' = written /\ mac' = mac /\ SynsFirst' /\ (Fresh' => Fresh)
      /\ (Fresh => "SYN" \in p.flags)
      /\ AllFromMac(fromMac', mac'.fin) /\ p \in Packet /\ FromMacOK(p, mac.fin)
  BY WriteFrame
<1>2. IsSocket(sock)
  BY DEF IInv, Types
<1>3. p.ack \in 0 .. RemoteBytes + 3
  BY <1>1, RouterTCPAssumption DEF Packet, FromMacOK
<1>4. IsSocket(u) /\ u.state = "CLOSED" /\ u.in_use /\ u.last_seq_out = sock.last_seq_out
      /\ ~ u.stalled /\ ~ u.accept_more /\ ~ u.shut /\ u.reads = 0 /\ u.writes = 0 /\ ~ u.time_wait
      /\ u.seq_in = 0 /\ u.seq_out = 1 /\ u.mac_ack = p.ack
  BY <1>2, <1>3, AllocFacts DEF IsSocket, SocketFields
<1>5. r.s.state = "CLOSED" /\ ~ r.initiate_read
  BY <1>2, AllocFacts DEF Resumed, IsSocket, SocketFields
<1> DEFINE v == r.s
<1>6. v = [u EXCEPT !.stalled = @ /\ ~ r.initiate_read]
  BY <1>2, AllocFacts DEF Resumed, IsSocket, SocketFields
<1> HIDE DEF u
<1>7. IsSocket(v) /\ v.state = "CLOSED" /\ v.in_use /\ v.last_seq_out = sock.last_seq_out
      /\ ~ v.stalled /\ ~ v.accept_more /\ ~ v.shut /\ v.reads = 0 /\ v.writes = 0 /\ ~ v.time_wait
      /\ v.mac_ack = p.ack
  BY <1>4, <1>6 DEF IsSocket, SocketFields
<1>8. m = InClosed(v, p)
  BY <1>7 DEF StateMachine
<1>9. /\ s0.state = "CLOSED" /\ (early_fin' <=> early_fin \/ TakesEarlyFin(s0, p))
      /\ sock' = IF r.initiate_read \/ m.initiate_read
                 THEN Reading(IF m.handle_data THEN DataHandled(m.s, p) ELSE m.s)
                 ELSE IF m.handle_data THEN DataHandled(m.s, p) ELSE m.s
      /\ toMac' = Enqueued(toMac, m.out)
      /\ host' = [host EXCEPT !.conn = IF r.s.state = "CLOSED" /\ m.s.state = "LISTEN"
                                       THEN "connecting" ELSE @]
  BY <1>2, AllocFacts DEF write_tcp
<1> HIDE DEF v, r, s0, m
<1>10. early_fin' = early_fin
  BY <1>9 DEF TakesEarlyFin, IInv, Types
<1>11. IsHost(host)
  BY DEF IInv, Types
<1>12. m.out = <<>> /\ ~ m.handle_data /\ ~ m.initiate_read
  BY <1>8 DEF InClosed, Step
<1>13. sock' = m.s /\ toMac' = Enqueued(toMac, <<>>)
  BY <1>5, <1>9, <1>12 DEF v
<1>14. AllToMac(toMac', host, Acked)
  <2>1. AllToMac(toMac, host, Acked)
    BY DEF IInv, Packets
  <2>2. AllToMac(Enqueued(toMac, <<>>), host, Acked)
    BY <2>1, NothingAdded
  <2>3. QED
    BY <1>13, <2>2
<1> DEFINE z == m.s
<1>15. CASE "SYN" \notin p.flags
  <2>1. z = free_socket(v)
    BY <1>8, <1>15 DEF InClosed, Step
  <2>2. IsSocket(sock') /\ ~ sock'.in_use /\ sock'.last_seq_out = sock.last_seq_out
        /\ sock'.state = "CLOSED"
    BY <1>7, <1>13, <2>1, FreeFacts DEF free_socket, IsSocket, SocketFields
  <2>3. host' = [host EXCEPT !.conn = @]
    BY <1>9, <1>13, <2>2
  <2>4. SameHost
    BY <1>11, <2>3 DEF SameHost, IsHost
  <2> HIDE DEF p
  <2>5. QED
    BY <1>10, <1>14, <1>15, <2>2, <2>4, WriteFrees DEF p
<1>16. CASE "SYN" \in p.flags
  <2>1. p.seq = 0 /\ p.ack <= 2
    BY <1>1, <1>16 DEF FromMacOK
  <2>2. z = [v EXCEPT !.seq_out = 1, !.seq_in = 1, !.state = "LISTEN"]
    <3>1. p.seq + 1 = 1
      BY <2>1
    <3>2. QED
      BY <1>8, <1>16, <3>1 DEF InClosed, Step
  <2>3. 1 \in 0 .. MacBytes + 2 /\ 1 \in 0 .. RemoteBytes + 3
    BY RouterTCPAssumption
  <2>4. /\ IsSocket(z) /\ z.in_use /\ z.state = "LISTEN" /\ z.seq_in = 1 /\ z.seq_out = 1
        /\ z.last_seq_out = sock.last_seq_out /\ ~ z.stalled /\ ~ z.accept_more /\ ~ z.shut
        /\ z.reads = 0 /\ z.writes = 0 /\ ~ z.time_wait /\ z.mac_ack = p.ack
    BY <1>7, <2>2, <2>3 DEF IsSocket, SocketFields, States
  <2> HIDE DEF z
  <2>5. IsSocket(sock') /\ sock' = z
    BY <1>13, <2>4 DEF z
  <2>6. host' = [host EXCEPT !.conn = "connecting"]
    BY <1>5, <1>9, <2>4 DEF z, v
  <2>7. IsHost(host') /\ host'.sent = host.sent /\ host'.read = host.read
        /\ host'.closed = host.closed /\ host'.conn = "connecting"
    BY <1>11, <2>6 DEF IsHost
  <2>8. Fresh
    <3>1. Len(fromMac) >= 1 /\ Len(fromMac) \in Nat /\ p = fromMac[1]
      BY TailLasts, WriteFrame
    <3>2. QED
      BY <1>16, <3>1 DEF Fresh, HasSyn
  <2>9. written = <<>> /\ host.read = 0
    BY <2>8 DEF IInv, FreshOK
  <2>10. QED
    BY <1>1, <1>10, <1>14, <2>1, <2>4, <2>5, <2>7, <2>9, WriteOpens
<1>17. QED
  BY <1>15, <1>16

\* A reset, in whatever state.
LEMMA WriteReset ==
  ASSUME IInv, write_tcp, "RST" \in Head(fromMac).flags
  PROVE  IInv'
<1> DEFINE s0 == IF sock.in_use THEN sock ELSE alloc_socket(sock)
<1>1. sock' = free_socket(s0) /\ UNCHANGED <<host, toMac, early_fin>>
  BY DEF write_tcp
<1>2. IsSocket(s0) /\ s0.last_seq_out = sock.last_seq_out
  BY AllocFacts DEF IInv, Types
<1> HIDE DEF s0
<1>3. IsSocket(sock') /\ ~ sock'.in_use /\ sock'.last_seq_out = sock.last_seq_out
  BY <1>1, <1>2, FreeFacts
<1>4. SameHost
  BY <1>1 DEF IInv, Types, SameHost
<1>5. "SYN" \notin Head(fromMac).flags
  BY WriteFrame DEF FromMacOK
<1>6. AllToMac(toMac', host, Acked) /\ early_fin' = early_fin
  BY <1>1 DEF IInv, Packets
<1>7. QED
  BY <1>3, <1>4, <1>5, <1>6, WriteFrees

\* What write_tcp() makes of a slot in use.
Machine(s, p) == StateMachine(Resumed(s, p).s, p)

Handled(s, p) ==
  IF Machine(s, p).handle_data THEN DataHandled(Machine(s, p).s, p) ELSE Machine(s, p).s

Taken(s, p) ==
  IF Resumed(s, p).initiate_read \/ Machine(s, p).initiate_read THEN Reading(Handled(s, p))
  ELSE Handled(s, p)

TakenOK(t, s, p, m, read, w) ==
  /\ IsSocket(t) /\ SlotOK(t, read, w)
  /\ t.state = m.s.state /\ t.shut = m.s.shut /\ t.seq_in = m.s.seq_in
  /\ t.mac_ack = p.ack /\ t.last_seq_out = s.last_seq_out
  /\ p.data = <<>> => t.writes = s.writes
  /\ /\ "SYN" \in p.flags /\ p.data = <<>> /\ s.state = "ESTABLISHED"
     /\ s.stalled /\ s.reads = 0 /\ p.ack # s.seq_out
     => t.state = "ESTABLISHED" /\ t.stalled /\ t.reads = 0

LEMMA MachineOfSlot ==
  ASSUME NEW s, IsSocket(s), NEW read \in Nat, NEW w \in 0 .. MacBytes,
         NEW p \in Packet, NEW fin, FromMacOK(p, fin), SlotOK(s, read, w),
         s.state = "SYN_SENT" => p.flags = {"SYN", "ACK"}
  PROVE  MachineOK(Resumed(s, p).s, p, Machine(s, p), read, w)
<1> DEFINE r == Resumed(s, p)
<1>1. IsSocket(r.s) /\ SlotOK(r.s, read, w) /\ SameTransfer(r.s, s)
  BY ResumedKeeps DEF FromMacOK
<1>2. Machine(s, p) = StateMachine(r.s, p)
  BY DEF Machine
<1> HIDE DEF r
<1>3. r.s.state = s.state
  BY <1>1 DEF SameTransfer
<1>4. MachineOK(r.s, p, StateMachine(r.s, p), read, w)
  BY <1>1, <1>3, MachineKeeps
<1>5. QED
  BY <1>2, <1>4 DEF r

LEMMA HandledFacts ==
  ASSUME NEW s, IsSocket(s), NEW read \in Nat, NEW w \in 0 .. MacBytes,
         NEW p \in Packet, NEW fin, FromMacOK(p, fin), SlotOK(s, read, w),
         s.state = "SYN_SENT" => p.flags = {"SYN", "ACK"}, Machine(s, p).s.in_use
  PROVE  HandledOK(Handled(s, p), Machine(s, p).s, p, read, w)
<1> DEFINE m == Machine(s, p)
<1>1. MachineOK(Resumed(s, p).s, p, m, read, w)
  BY MachineOfSlot
<1>2. IsSocket(m.s) /\ SlotOK(m.s, read, w) /\ (m.handle_data => m.s.state \notin Opening)
  BY <1>1 DEF MachineOK
<1>3. Handled(s, p) = IF m.handle_data THEN DataHandled(m.s, p) ELSE m.s
  BY DEF Handled
<1> HIDE DEF m
<1>4. CASE m.handle_data
  <2>1. HandledOK(DataHandled(m.s, p), m.s, p, read, w)
    BY <1>2, <1>4, DataHandledKeeps
  <2>2. QED
    BY <1>3, <1>4, <2>1 DEF m
<1>5. CASE ~ m.handle_data
  <2>1. HandledOK(m.s, m.s, p, read, w)
    BY <1>2 DEF HandledOK
  <2>2. QED
    BY <1>3, <1>5, <2>1 DEF m
<1>6. QED
  BY <1>4, <1>5

LEMMA TakenKeeps ==
  ASSUME NEW s, IsSocket(s), NEW read \in Nat, NEW w \in 0 .. MacBytes,
         NEW p \in Packet, NEW fin, FromMacOK(p, fin), SlotOK(s, read, w),
         s.state = "SYN_SENT" => p.flags = {"SYN", "ACK"}, Machine(s, p).s.in_use
  PROVE  TakenOK(Taken(s, p), s, p, Machine(s, p), read, w)
<1> DEFINE r == Resumed(s, p)
           m == Machine(s, p)
           v == Handled(s, p)
           t == Taken(s, p)
           go == r.initiate_read \/ m.initiate_read
<1>1. /\ IsSocket(r.s) /\ r.s.mac_ack = p.ack /\ SameTransfer(r.s, s)
      /\ r.initiate_read => /\ s.state \in {"ESTABLISHED", "CLOSE_WAIT"} /\ p.ack = s.seq_out
                            /\ s.reads = 0 /\ ~ r.s.stalled
      /\ ~ r.initiate_read => r.s.stalled = s.stalled
  BY ResumedKeeps DEF FromMacOK
<1>2. MachineOK(r.s, p, m, read, w)
  BY MachineOfSlot
<1>3. HandledOK(v, m.s, p, read, w)
  BY HandledFacts
<1>4. t = IF go THEN Reading(v) ELSE v
  BY DEF Taken
<1>use. m.s.in_use
  OBVIOUS
<1> SUFFICES TakenOK(t, s, p, m, read, w)
  OBVIOUS
<1> HIDE DEF r, m, v, t
<1>5. /\ r.s.state = s.state /\ r.s.reads = s.reads /\ r.s.writes = s.writes
      /\ r.s.last_seq_out = s.last_seq_out /\ r.s.seq_out = s.seq_out
  BY <1>1 DEF SameTransfer
<1>6. SameBuffers(m.s, r.s)
  BY <1>2, <1>use DEF MachineOK
<1>7. /\ m.s.mac_ack = p.ack /\ m.s.last_seq_out = s.last_seq_out /\ m.s.writes = s.writes
      /\ m.s.reads = s.reads /\ m.s.stalled = r.s.stalled
  BY <1>1, <1>5, <1>6 DEF SameBuffers
<1>8. /\ IsSocket(v) /\ SlotOK(v, read, w)
      /\ v.state = m.s.state /\ v.reads = s.reads /\ v.stalled = r.s.stalled
      /\ v.shut = m.s.shut /\ v.seq_in = m.s.seq_in /\ v.seq_out = m.s.seq_out
      /\ v.mac_ack = p.ack /\ v.last_seq_out = s.last_seq_out
      /\ p.data = <<>> => v.writes = s.writes /\ v = m.s
  BY <1>3, <1>7 DEF HandledOK
<1>9. go => v.reads = 0 /\ ~ v.stalled /\ v.state \in {"ESTABLISHED", "CLOSE_WAIT"}
  <2>1. r.initiate_read => v.reads = 0 /\ ~ v.stalled /\ v.state \in {"ESTABLISHED", "CLOSE_WAIT"}
    BY <1>1, <1>2, <1>5, <1>8 DEF MachineOK
  <2>2. m.initiate_read => v.reads = 0 /\ ~ v.stalled /\ v.state = "ESTABLISHED"
    BY <1>2, <1>7, <1>8 DEF MachineOK
  <2>3. QED
    BY <2>1, <2>2
<1>10. CASE go
  <2>1. t = Reading(v)
    BY <1>4, <1>10
  <2>2. /\ IsSocket(t) /\ SlotOK(t, read, w)
        /\ t.state = v.state /\ t.shut = v.shut /\ t.seq_in = v.seq_in /\ t.mac_ack = v.mac_ack
        /\ t.writes = v.writes /\ t.last_seq_out = v.last_seq_out
    BY <1>8, <1>9, <1>10, <2>1, ReadingKeeps
  <2>3. s.state = "ESTABLISHED" => p.ack = s.seq_out
    BY <1>1, <1>2, <1>5, <1>10 DEF MachineOK
  <2>4. QED
    BY <1>8, <2>2, <2>3 DEF TakenOK
<1>11. CASE ~ go
  <2>1. t = v
    BY <1>4, <1>11
  <2>2. "SYN" \in p.flags /\ s.state = "ESTABLISHED" => m.s.state = "ESTABLISHED"
    BY <1>2, <1>5 DEF MachineOK, SynStates
  <2>3. v.stalled = s.stalled
    BY <1>1, <1>8, <1>11
  <2>4. QED
    BY <1>8, <2>1, <2>2, <2>3 DEF TakenOK
<1>12. QED
  BY <1>10, <1>11

\* Only the last acknowledgement frees a slot.
LEMMA MachineFrees ==
  ASSUME NEW s, IsSocket(s), NEW p, p.ack \in 0 .. RemoteBytes + 3, s.state = "LAST_ACK"
  PROVE  Machine(s, p).s.last_seq_out = s.last_seq_out
<1> DEFINE r == Resumed(s, p)
<1>1. IsSocket(r.s) /\ r.s.state = "LAST_ACK" /\ r.s.last_seq_out = s.last_seq_out
  BY DEF Resumed, IsSocket, SocketFields
<1> HIDE DEF r
<1>2. \/ StateMachine(r.s, p) = Step(free_socket(r.s), <<>>, FALSE, FALSE)
      \/ StateMachine(r.s, p) = Step(r.s, <<>>, FALSE, FALSE)
  BY <1>1 DEF StateMachine
<1>3. StateMachine(r.s, p).s.last_seq_out = r.s.last_seq_out
  BY <1>1, <1>2, FreeFacts DEF Step
<1>4. QED
  BY <1>1, <1>3 DEF Machine, r

LEMMA WriteExpanded ==
  ASSUME IInv, write_tcp, sock.in_use, "RST" \notin Head(fromMac).flags
  PROVE  /\ sock' = Taken(sock, Head(fromMac))
         /\ toMac' = Enqueued(toMac, Machine(sock, Head(fromMac)).out)
         /\ SameHost
         /\ early_fin' = (early_fin \/ TakesEarlyFin(sock, Head(fromMac)))
<1> DEFINE p == Head(fromMac)
           r == Resumed(sock, p)
           m == StateMachine(r.s, p)
<1>1. /\ sock' = Taken(sock, p)
      /\ toMac' = Enqueued(toMac, Machine(sock, p).out)
      /\ early_fin' = (early_fin \/ TakesEarlyFin(sock, p))
  BY DEF write_tcp, Taken, Handled, Machine
<1>2. host' = [host EXCEPT !.conn = IF r.s.state = "CLOSED" /\ m.s.state = "LISTEN"
                                    THEN "connecting" ELSE @]
  BY DEF write_tcp
<1>3. SlotOK(sock, host.read, Len(written)) /\ IsSocket(sock) /\ IsHost(host)
  BY DEF IInv, Slot, Types
<1>4. r.s.state = sock.state /\ sock.state # "CLOSED"
  BY <1>3 DEF Resumed, SlotOK, IsSocket, SocketFields
<1>5. host' = [host EXCEPT !.conn = @]
  BY <1>2, <1>4
<1>6. SameHost
  BY <1>3, <1>5 DEF SameHost, IsHost
<1>7. QED
  BY <1>1, <1>6 DEF SameHost

\* The facts about the segment and the slot that the parts below need.
SlotStep(p, m) ==
  /\ p \in Packet /\ FromMacOK(p, mac.fin)
  /\ SlotOK(sock, host.read, Len(written)) /\ IsSocket(sock) /\ sock.in_use
  /\ sock.state = "SYN_SENT" => p.flags = {"SYN", "ACK"}
  /\ m = Machine(sock, p) /\ toMac' = Enqueued(toMac, m.out)
  /\ MachineOK(Resumed(sock, p).s, p, m, host.read, Len(written))
  /\ SameTransfer(Resumed(sock, p).s, sock)
  /\ host.read \in Nat /\ Len(written) \in 0 .. MacBytes
  /\ SameHost
  /\ early_fin' = (early_fin \/ TakesEarlyFin(sock, p)) /\ early_fin' \in BOOLEAN

LEMMA SlotSteps ==
  ASSUME IInv, write_tcp, sock.in_use, "RST" \notin Head(fromMac).flags
  PROVE  SlotStep(Head(fromMac), Machine(sock, Head(fromMac)))
<1> DEFINE p == Head(fromMac)
<1>1. p \in Packet /\ FromMacOK(p, mac.fin) /\ fromMac # <<>> /\ AllFromMac(fromMac, mac.fin)
  BY WriteFrame
<1>2. SlotOK(sock, host.read, Len(written)) /\ IsSocket(sock) /\ early_fin \in BOOLEAN
      /\ host.read \in Nat
  BY RouterTCPAssumption DEF IInv, Slot, Types, IsHost
<1>3. Len(written) \in 0 .. MacBytes
  BY Limit DEF IInv
<1>4. sock.state = "SYN_SENT" => p.flags = {"SYN", "ACK"}
  <2>1. p = fromMac[1] /\ Len(fromMac) \in Nat /\ Len(fromMac) >= 1
    BY <1>1, TailLasts
  <2>2. QED
    BY <2>1 DEF IInv, Called
<1>5. /\ toMac' = Enqueued(toMac, Machine(sock, p).out) /\ SameHost
      /\ early_fin' = (early_fin \/ TakesEarlyFin(sock, p))
  BY WriteExpanded
<1> HIDE DEF p
<1>6. MachineOK(Resumed(sock, p).s, p, Machine(sock, p), host.read, Len(written))
  BY <1>1, <1>2, <1>3, <1>4, MachineOfSlot
<1>7. SameTransfer(Resumed(sock, p).s, sock)
  BY <1>1, <1>2, ResumedKeeps DEF FromMacOK
<1>8. early_fin' \in BOOLEAN
  BY <1>2, <1>5 DEF TakesEarlyFin
<1>9. SlotStep(p, Machine(sock, p))
  BY <1>1, <1>2, <1>3, <1>4, <1>5, <1>6, <1>7, <1>8 DEF SlotStep
<1>10. QED
  BY <1>9 DEF p

\* What is acknowledged with a FIN: all has been written, or the FIN was early.
LEMMA ShutIsExcused ==
  ASSUME IInv, written' = written, mac' = mac, NEW p, NEW m, SlotStep(p, m)
  PROVE  (Excused => Excused') /\ (m.s.in_use /\ m.s.shut => Excused')
<1>1. (FinDone' <=> FinDone) /\ (early_fin => early_fin')
  BY DEF FinDone, SlotStep
<1>2. Excused => Excused'
  BY <1>1 DEF Excused
<1>3. ASSUME m.s.in_use, m.s.shut
      PROVE  Excused'
  <2> DEFINE r == Resumed(sock, p)
  <2>1. MachineOK(r.s, p, m, host.read, Len(written)) /\ SameTransfer(r.s, sock)
        /\ FromMacOK(p, mac.fin) /\ SlotOK(sock, host.read, Len(written))
        /\ (early_fin' <=> early_fin \/ TakesEarlyFin(sock, p)) /\ IsSocket(sock) /\ sock.in_use
        /\ Len(written) \in 0 .. MacBytes
    BY DEF SlotStep
  <2> HIDE DEF r
  <2>2. \/ sock.shut
        \/ "FIN" \in p.flags /\ sock.state \in {"ESTABLISHED", "FINWAIT_1", "FINWAIT_2"}
    BY <1>3, <2>1 DEF MachineOK, SameTransfer
  <2>3. CASE sock.shut
    BY <1>2, <2>1, <2>3 DEF IInv, AcksOK
  <2>4. CASE /\ "FIN" \in p.flags /\ sock.state \in {"ESTABLISHED", "FINWAIT_1", "FINWAIT_2"}
    <3>1. CASE TakesEarlyFin(sock, p)
      BY <2>1, <3>1 DEF Excused
    <3>2. CASE ~ TakesEarlyFin(sock, p)
      <4>1. p.data = <<>> /\ p.seq = sock.seq_in
        BY <2>4, <3>2 DEF TakesEarlyFin
      <4>2. mac.fin # 0 /\ p.seq = mac.fin
        BY <2>1, <2>4, <4>1 DEF FromMacOK
      <4>3. sock.seq_in <= Len(written) + 1
        BY <2>1, <2>4 DEF SlotOK, FinOK, ReceiveOK, Fin
      <4>4. FinDone
        BY <4>1, <4>2, <4>3 DEF FinDone
      <4>5. QED
        BY <1>1, <4>4 DEF Excused
    <3>3. QED
      BY <3>1, <3>2
  <2>5. QED
    BY <2>2, <2>3, <2>4
<1>4. QED
  BY <1>2, <1>3

LEMMA SlotAcks ==
  ASSUME IInv, written' = written, mac' = mac, NEW p, NEW m, SlotStep(p, m), Types', Ends'
  PROVE  /\ Acked <= Acked' /\ Acked' \in Nat /\ Acked \in Nat
         /\ m.s.in_use => m.s.seq_in <= Acked'
<1>1. /\ Acked \in Nat /\ Acked <= MacBytes + 2 /\ Len(written) + 1 <= Acked
      /\ Len(written) \in Nat /\ (Excused => Acked = MacBytes + 2)
  BY Limit DEF IInv
<1>2. (Excused => Excused') /\ (m.s.in_use /\ m.s.shut => Excused')
  BY ShutIsExcused
<1>3. Acked' = IF Excused' THEN MacBytes + 2 ELSE Len(written) + 1
  BY DEF Acked
<1>4. Acked = IF Excused THEN MacBytes + 2 ELSE Len(written) + 1
  BY DEF Acked
<1>5. Acked <= Acked' /\ Acked' \in Nat /\ Len(written) + 1 <= Acked'
  BY <1>1, <1>2, <1>3, <1>4, RouterTCPAssumption
<1>6. ASSUME m.s.in_use
      PROVE  m.s.seq_in <= Acked'
  <2>1. IsSocket(m.s) /\ SlotOK(m.s, host.read, Len(written))
    BY <1>6 DEF SlotStep, MachineOK
  <2>2. m.s.seq_in \in 0 .. MacBytes + 2 /\ m.s.seq_in <= Len(written) + 1 + Fin(m.s)
    BY <2>1 DEF IsSocket, SlotOK, ReceiveOK
  <2>3. CASE m.s.shut
    BY <1>2, <1>3, <1>6, <2>2, <2>3
  <2>4. CASE ~ m.s.shut
    BY <1>1, <1>5, <2>2, <2>4, RouterTCPAssumption DEF Fin
  <2>5. QED
    BY <2>3, <2>4
<1>7. QED
  BY <1>1, <1>5, <1>6

LEMMA SlotAnswers ==
  ASSUME IInv, written' = written, mac' = mac, NEW p, NEW m, SlotStep(p, m), Types', Ends'
  PROVE  AllToMac(toMac', host', Acked')
<1>1. /\ Acked <= Acked' /\ Acked' \in Nat /\ Acked \in Nat
      /\ m.s.in_use => m.s.seq_in <= Acked'
  BY SlotAcks
<1>2. AllToMac(toMac, host', Acked')
  <2>1. IsHost(host) /\ AllToMac(toMac, host, Acked)
    BY DEF IInv, Types, Packets
  <2>2. IsHost(host') /\ host'.sent = host.sent /\ host'.closed = host.closed
    BY DEF SlotStep, SameHost
  <2>3. host.sent <= host'.sent
    BY <2>1, <2>2 DEF IsHost
  <2>4. QED
    BY <1>1, <2>1, <2>2, <2>3, ToMacLasts
<1>3. toMac' = Enqueued(toMac, m.out)
  BY DEF SlotStep
<1>4. CASE m.out = <<>>
  BY <1>2, <1>3, <1>4, NothingAdded
<1>5. CASE m.out # <<>>
  <2>1. IsSocket(m.s) /\ m.s.in_use /\ \E q : m.out = <<q>> /\ AnswerOK(q, m.s)
    BY <1>5 DEF SlotStep, MachineOK
  <2>2. PICK q : m.out = <<q>> /\ AnswerOK(q, m.s)
    BY <2>1
  <2>3. ToMacOK(q, host', Acked') /\ q \in Packet
    BY <1>1, <2>1, <2>2, AnswerLimit DEF AnswerOK
  <2>4. AllToMac(Enqueued(toMac, <<q>>), host', Acked')
    BY <1>2, <2>3, OneAdded
  <2>5. QED
    BY <1>3, <2>2, <2>4
<1>6. QED
  BY <1>4, <1>5

LEMMA SlotFreshOK ==
  ASSUME IInv, written' = written, mac' = mac, NEW p, NEW m, SlotStep(p, m),
         Fresh' => Fresh, Fresh => "SYN" \in p.flags,
         TakenOK(sock', sock, p, m, host.read, Len(written))
  PROVE  FreshOK'
<1> DEFINE r == Resumed(sock, p)
<1> SUFFICES ASSUME Fresh'
             PROVE  FreshOK'
  BY DEF FreshOK
<1>1. Fresh /\ "SYN" \in p.flags
  OBVIOUS
<1>2. /\ MachineOK(r.s, p, m, host.read, Len(written)) /\ SameTransfer(r.s, sock)
      /\ FromMacOK(p, mac.fin) /\ SlotOK(sock, host.read, Len(written)) /\ IsSocket(sock)
      /\ sock.in_use /\ host.read \in Nat /\ SameHost
  BY DEF SlotStep
<1> HIDE DEF r
<1>3. p.data = <<>> /\ p.ack <= 2
  BY <1>1, <1>2 DEF FromMacOK
<1>4. /\ written = <<>> /\ sock.writes = 0 /\ ~ sock.shut /\ sock.state \in SynStates
      /\ \/ host.read = 0
         \/ sock.state = "ESTABLISHED" /\ sock.reads = 0 /\ sock.stalled
  BY <1>1, <1>2 DEF IInv, FreshOK, SynStates
<1>5. m.s.in_use /\ ~ m.s.shut /\ m.s.state \in SynStates
  BY <1>1, <1>2, <1>4 DEF MachineOK, SameTransfer
<1>6. /\ sock'.writes = 0 /\ ~ sock'.shut /\ sock'.mac_ack <= 2 /\ sock'.state \in SynStates
      /\ sock'.in_use
  BY <1>3, <1>4, <1>5 DEF TakenOK, SlotOK
<1>7. \/ host'.read = 0
      \/ sock'.in_use /\ sock'.state = "ESTABLISHED" /\ sock'.reads = 0 /\ sock'.stalled
  <2>1. CASE host.read = 0
    BY <1>2, <2>1 DEF SameHost
  <2>2. CASE host.read # 0
    <3>1. sock.state = "ESTABLISHED" /\ sock.reads = 0 /\ sock.stalled
      BY <1>4, <2>2
    <3>2. sock.seq_out = host.read + 2
      BY <1>2, <3>1 DEF SlotOK, SendOK
    <3>3. p.ack # sock.seq_out
      BY <1>2, <1>3, <2>2, <3>2
    <3>4. QED
      BY <1>1, <1>3, <1>6, <3>1, <3>3 DEF TakenOK
  <2>3. QED
    BY <2>1, <2>2
<1>8. QED
  BY <1>4, <1>6, <1>7 DEF FreshOK, SynStates

LEMMA SlotCalled ==
  ASSUME IInv, mac' = mac, fromMac # <<>>, fromMac' = Tail(fromMac), NEW p, NEW m, SlotStep(p, m),
         sock'.state = m.s.state
  PROVE  Called'
<1> DEFINE r == Resumed(sock, p)
<1> SUFFICES ASSUME sock'.in_use, sock'.state = "SYN_SENT"
             PROVE  Called'
  BY DEF Called
<1>1. /\ MachineOK(r.s, p, m, host.read, Len(written)) /\ SameTransfer(r.s, sock)
      /\ sock.in_use /\ toMac' = Enqueued(toMac, m.out)
  BY DEF SlotStep
<1> HIDE DEF r
<1>2. m.s.state = "SYN_SENT"
  OBVIOUS
<1>3. m.s = r.s /\ m.out = <<>>
  BY <1>1, <1>2 DEF MachineOK
<1>4. sock.state = "SYN_SENT"
  BY <1>1, <1>2, <1>3 DEF SameTransfer
<1>5. /\ mac.st \in {"listen", "synrcvd"}
      /\ \A i \in 1 .. Len(toMac) : toMac[i].flags = {"SYN"}
      /\ \A i \in 1 .. Len(fromMac) : fromMac[i].flags = {"SYN", "ACK"}
  BY <1>1, <1>4 DEF IInv, Called
<1>6. toMac \in Seq(Packet) /\ AllFromMac(fromMac, mac.fin)
  BY DEF IInv, Packets, AllToMac
<1>7. \A i \in 1 .. Len(toMac') : toMac'[i].flags = {"SYN"}
  <2> DEFINE F == {"SYN"}
  <2>1. \A i \in 1 .. Len(toMac) : toMac[i].flags = F
    BY <1>5
  <2> HIDE DEF F
  <2>2. \A i \in 1 .. Len(Enqueued(toMac, <<>>)) : Enqueued(toMac, <<>>)[i].flags = F
    BY <1>6, <2>1, NothingNew
  <2>3. toMac' = Enqueued(toMac, <<>>)
    BY <1>1, <1>3
  <2>4. QED
    BY <2>2, <2>3 DEF F
<1>8. \A i \in 1 .. Len(fromMac') : fromMac'[i].flags = {"SYN", "ACK"}
  <2>1. /\ Len(fromMac) \in Nat /\ Len(fromMac') = Len(fromMac) - 1
        /\ \A i \in 1 .. Len(fromMac') : fromMac'[i] = fromMac[i + 1]
    BY <1>6, TailLasts
  <2>2. \A i \in 1 .. Len(fromMac') : i + 1 \in 1 .. Len(fromMac)
    BY <2>1
  <2>3. QED
    BY <1>5, <2>1, <2>2
<1>9. QED
  BY <1>5, <1>7, <1>8 DEF Called

\* A segment for a slot in use.
LEMMA WriteToSlot ==
  ASSUME IInv, write_tcp, sock.in_use, "RST" \notin Head(fromMac).flags
  PROVE  IInv'
<1> DEFINE p == Head(fromMac)
           m == Machine(sock, p)
<1>1. /\ fromMac # <<>> /\ fromMac' = Tail(fromMac) /\ written' = written /\ mac' = mac
      /\ AllFromMac(fromMac', mac'.fin) /\ SynsFirst'
      /\ (Fresh' => Fresh) /\ (Fresh => "SYN" \in p.flags)
  BY WriteFrame
<1>2. SlotStep(p, m)
  BY SlotSteps
<1>3. sock' = Taken(sock, p)
  BY WriteExpanded
<1> HIDE DEF p
<1>4. /\ p \in Packet /\ FromMacOK(p, mac.fin)
      /\ SlotOK(sock, host.read, Len(written)) /\ IsSocket(sock) /\ sock.in_use
      /\ sock.state = "SYN_SENT" => p.flags = {"SYN", "ACK"}
      /\ MachineOK(Resumed(sock, p).s, p, m, host.read, Len(written))
      /\ SameTransfer(Resumed(sock, p).s, sock)
      /\ host.read \in Nat /\ Len(written) \in 0 .. MacBytes
      /\ SameHost /\ early_fin' \in BOOLEAN
  BY <1>2 DEF SlotStep
<1>5. CASE ~ m.s.in_use
  <2>1. sock.state = "LAST_ACK"
    BY <1>4, <1>5 DEF MachineOK, SameTransfer
  <2>2. "SYN" \notin p.flags
    <3>1. ASSUME "SYN" \in p.flags
          PROVE  FALSE
      <4>1. p = fromMac[1] /\ Len(fromMac) \in Nat /\ Len(fromMac) >= 1
        BY TailLasts, WriteFrame DEF p
      <4>2. Fresh
        BY <3>1, <4>1 DEF Fresh, HasSyn
      <4>3. QED
        BY <1>4, <2>1, <4>2 DEF IInv, FreshOK, Opening
    <3>2. QED
      BY <3>1
  <2>3. early_fin' = early_fin
    BY <1>2, <2>1 DEF SlotStep, TakesEarlyFin, IInv, Types
  <2>4. /\ ~ m.handle_data /\ ~ m.initiate_read /\ ~ Resumed(sock, p).initiate_read
        /\ m.out = <<>> /\ IsSocket(m.s)
    <3>1. ~ Resumed(sock, p).initiate_read
      BY <1>4, <2>1, ResumedKeeps DEF FromMacOK
    <3>2. QED
      BY <1>4, <1>5, <3>1 DEF MachineOK
  <2>5. sock' = m.s
    BY <1>3, <2>4 DEF Taken, Handled
  <2>6. m.s.last_seq_out = sock.last_seq_out
    BY <1>4, <1>5, <2>1, MachineFrees, RouterTCPAssumption DEF FromMacOK, Packet
  <2>7. AllToMac(toMac', host, Acked)
    <3>1. toMac' = Enqueued(toMac, <<>>)
      BY <1>2, <2>4 DEF SlotStep
    <3>2. QED
      BY <3>1, NothingAdded DEF IInv, Packets
  <2> HIDE DEF m
  <2>8. QED
    BY <1>4, <1>5, <2>2, <2>3, <2>4, <2>5, <2>6, <2>7, WriteFrees DEF p
<1>6. CASE m.s.in_use
  <2>1. TakenOK(sock', sock, p, m, host.read, Len(written))
    BY <1>3, <1>4, <1>6, TakenKeeps
  <2> HIDE DEF m
  <2>2. IsSocket(sock') /\ sock'.last_seq_out = sock.last_seq_out /\ sock'.state = m.s.state
        /\ SlotOK(sock', host.read, Len(written)) /\ sock'.shut = m.s.shut
    BY <2>1 DEF TakenOK
  <2>3. Types' /\ Ends'
    BY <1>4, <2>2, WriteKeepsEnds DEF SameHost
  <2>4. Slot'
    BY <1>1, <1>4, <2>2 DEF Slot, SameHost
  <2>5. AcksOK'
    <3>1. Acked <= Acked' /\ Acked' \in Nat /\ Acked \in Nat
      BY <1>1, <1>2, <2>3, SlotAcks
    <3>2. mac'.una <= Acked'
      <4>1. mac.una <= Acked /\ mac.una \in 0 .. MacBytes + 2
        BY DEF IInv, AcksOK, Types, IsMac
      <4>2. QED
        BY <1>1, <3>1, <4>1, RouterTCPAssumption
    <3>3. sock'.in_use /\ sock'.shut => Excused'
      BY <1>1, <1>2, <1>6, <2>2, ShutIsExcused
    <3>4. QED
      BY <3>2, <3>3 DEF AcksOK
  <2>6. Packets'
    BY <1>1, <1>2, <2>3, SlotAnswers DEF Packets
  <2>7. FreshOK'
    BY <1>1, <1>2, <2>1, SlotFreshOK
  <2>8. Called'
    BY <1>1, <1>2, <2>2, SlotCalled
  <2>9. Before'
    BY <1>4 DEF IInv, Before, SameHost
  <2>10. QED
    BY <1>1, <2>3, <2>4, <2>5, <2>6, <2>7, <2>8, <2>9 DEF IInv
<1>7. QED
  BY <1>5, <1>6

LEMMA WriteTcp ==
  ASSUME IInv, write_tcp
  PROVE  IInv'
BY WriteReset, WriteToNone, WriteToSlot

-----------------------------------------------------------------------------
(* The completion routines.                                                *)

LEMMA AnyReply ==
  ASSUME NEW s, IsSocket(s), NEW flags \in SUBSET Flags
  PROVE  /\ Reply(s, flags) \in Packet /\ Reply(s, flags).seq = s.seq_out
         /\ Reply(s, flags).ack = s.seq_in /\ Reply(s, flags).flags = flags
         /\ Reply(s, flags).data = <<>> /\ s.seq_out <= RemoteBytes + 3
<1>1. <<>> \in Seq(Nat)
  OBVIOUS
<1>2. /\ s.seq_out \in 0 .. MacBytes + RemoteBytes + 3 /\ s.seq_out <= RemoteBytes + 3
      /\ s.seq_in \in 0 .. MacBytes + RemoteBytes + 3
  BY RouterTCPAssumption DEF IsSocket
<1>3. QED
  BY <1>1, <1>2 DEF Reply, Packet

LEMMA EmptyReplyOK ==
  ASSUME NEW p \in Packet, NEW h, NEW acked, p.data = <<>>, p.seq <= RemoteBytes + 3,
         p.ack <= acked, "FIN" \in p.flags => p.seq = h.sent + 2 /\ h.closed,
         "SYN" \in p.flags => p.seq = 1, p.flags = {"SYN", "ACK"} => p.ack = 1
  PROVE  ToMacOK(p, h, acked)
<1>1. Len(p.data) = 0
  BY EmptySeq
<1>2. QED
  BY <1>1 DEF ToMacOK

LEMMA SlotLimit ==
  ASSUME IInv, sock.in_use
  PROVE  /\ IsSocket(sock) /\ SlotOK(sock, host.read, Len(written)) /\ IsHost(host)
         /\ host.read \in Nat /\ host.sent \in Nat /\ host.read <= host.sent
         /\ Len(written) \in 0 .. MacBytes
         /\ sock.seq_in <= Acked /\ Acked \in Nat /\ AllToMac(toMac, host, Acked)
<1>1. IsSocket(sock) /\ SlotOK(sock, host.read, Len(written)) /\ IsHost(host)
      /\ host.read <= host.sent /\ AllToMac(toMac, host, Acked)
      /\ host.read \in Nat /\ host.sent \in Nat
  BY RouterTCPAssumption DEF IInv, Slot, Types, Ends, Packets, IsHost
<1>2. /\ Acked \in Nat /\ Len(written) + 1 <= Acked /\ Len(written) \in 0 .. MacBytes
      /\ (Excused => Acked = MacBytes + 2)
  BY Limit DEF IInv
<1>3. sock.seq_in \in 0 .. MacBytes + 2 /\ sock.seq_in <= Len(written) + 1 + Fin(sock)
  BY <1>1 DEF IsSocket, SlotOK, ReceiveOK
<1>4. CASE sock.shut
  <2>1. Acked = MacBytes + 2
    BY <1>2, <1>4 DEF IInv, AcksOK
  <2>2. QED
    BY <1>1, <1>2, <1>3, <2>1
<1>5. CASE ~ sock.shut
  <2>1. sock.seq_in <= Len(written) + 1
    BY <1>2, <1>3, <1>5, RouterTCPAssumption DEF Fin
  <2>2. sock.seq_in <= Acked
    BY <1>2, <1>3, <2>1, RouterTCPAssumption
  <2>3. QED
    BY <1>1, <1>2, <2>2
<1>6. QED
  BY <1>4, <1>5

\* The Mac's end and what it has sent stay as they are.
LEMMA MacSame ==
  ASSUME IInv, mac' = mac, fromMac' = fromMac
  PROVE  SynsFirst' /\ (Fresh' <=> Fresh) /\ AllFromMac(fromMac', mac'.fin)
<1>1. \A i : HasSyn(i)' <=> HasSyn(i)
  BY DEF HasSyn
<1>2. (Fresh' <=> Fresh) /\ SynsFirst'
  BY <1>1 DEF Fresh, SynsFirst, IInv
<1>3. QED
  BY <1>2 DEF IInv, Packets

\* A step of a slot that moves no data of the Mac: the parts that remain.
LEMMA SlotFrame ==
  ASSUME IInv, sock.in_use, written' = written, early_fin' = early_fin, mac' = mac,
         fromMac' = fromMac, IsSocket(sock'),
         IsHost(host'), host'.sent = host.sent, host'.closed = host.closed,
         host'.conn = host.conn, host'.read <= host.sent,
         sock'.last_seq_out # 0 => host'.read > 0,
         sock'.in_use => (sock'.shut => sock.shut), AllToMac(toMac', host, Acked)
  PROVE  Types' /\ AcksOK' /\ Packets' /\ Ends' /\ SynsFirst' /\ (Fresh' <=> Fresh) /\ Before'
<1>1. SynsFirst' /\ (Fresh' <=> Fresh) /\ AllFromMac(fromMac', mac'.fin)
  BY MacSame
<1>2. Types' /\ Ends'
  BY DEF IInv, Types, Ends
<1>3. (Excused' <=> Excused) /\ Acked' = Acked
  BY DEF Acked, Excused, FinDone
<1>4. AcksOK'
  BY <1>3 DEF IInv, AcksOK
<1>5. Packets'
  <2>1. IsHost(host) /\ Acked \in Nat /\ host.sent <= host'.sent /\ Acked <= Acked' /\ Acked' \in Nat
    BY <1>3, SlotLimit
  <2>2. AllToMac(toMac', host', Acked')
    BY <2>1, ToMacLasts
  <2>3. QED
    BY <1>1, <2>2 DEF Packets
<1>6. Before'
  BY DEF IInv, Before
<1>7. QED
  BY <1>1, <1>2, <1>4, <1>5, <1>6

LEMMA Freed ==
  ASSUME IInv, sock.in_use, UNCHANGED <<host, written, early_fin, mac, fromMac>>,
         IsSocket(sock'), ~ sock'.in_use, sock'.last_seq_out = sock.last_seq_out,
         AllToMac(toMac', host, Acked), Fresh => host.read = 0
  PROVE  IInv'
<1>1. /\ IsHost(host) /\ host.read <= host.sent
      /\ sock'.last_seq_out # 0 => host.read > 0
  BY SlotLimit DEF IInv, Ends
<1>2. /\ Types' /\ AcksOK' /\ Packets' /\ Ends' /\ SynsFirst' /\ (Fresh' <=> Fresh) /\ Before'
  BY <1>1, SlotFrame
<1>3. Slot' /\ Called'
  BY DEF Slot, Called
<1>4. FreshOK'
  BY <1>2 DEF IInv, FreshOK
<1>5. QED
  BY <1>2, <1>3, <1>4 DEF IInv

\* The remote host has reset the connection.
LEMMA ReadFails ==
  ASSUME IInv, ReadFailed
  PROVE  IInv'
<1> DEFINE s == [sock EXCEPT !.reads = @ - 1]
           p == Reply(sock, {"RST"})
<1>1. /\ sock.in_use /\ sock.reads > 0 /\ sock' = free_socket(s)
      /\ toMac' = Enqueued(toMac, <<p>>) /\ UNCHANGED <<host, written, early_fin, mac, fromMac>>
  BY DEF ReadFailed
<1>2. IsSocket(sock) /\ SlotOK(sock, host.read, Len(written)) /\ sock.seq_in <= Acked
      /\ AllToMac(toMac, host, Acked)
  BY <1>1, SlotLimit
<1>3. sock.reads = 1
  BY <1>1, <1>2 DEF IsSocket
<1>4. IsSocket(s) /\ s.last_seq_out = sock.last_seq_out
  BY <1>2, <1>3 DEF IsSocket, SocketFields
<1> HIDE DEF s
<1>5. IsSocket(sock') /\ ~ sock'.in_use /\ sock'.last_seq_out = sock.last_seq_out
  BY <1>1, <1>4, FreeFacts
<1>6. AllToMac(toMac', host, Acked)
  <2>1. {"RST"} \in SUBSET Flags
    BY DEF Flags
  <2>2. p \in Packet /\ p.seq <= RemoteBytes + 3 /\ p.ack <= Acked /\ p.flags = {"RST"}
        /\ p.data = <<>>
    BY <1>2, <2>1, AnyReply
  <2> HIDE DEF p
  <2>3. ToMacOK(p, host, Acked)
    BY <2>2, EmptyReplyOK
  <2>4. QED
    BY <1>1, <1>2, <2>2, <2>3, OneAdded
<1>7. Fresh => host.read = 0
  BY <1>3 DEF IInv, FreshOK
<1>8. QED
  BY <1>1, <1>5, <1>6, <1>7, Freed

LEMMA TimeWaitExpires ==
  ASSUME IInv, TimeWaitExpired
  PROVE  IInv'
<1>1. /\ sock.in_use /\ sock.time_wait /\ sock' = free_socket(sock) /\ toMac' = toMac
      /\ UNCHANGED <<host, written, early_fin, mac, fromMac>>
  BY DEF TimeWaitExpired
<1>2. IsSocket(sock) /\ SlotOK(sock, host.read, Len(written)) /\ AllToMac(toMac, host, Acked)
  BY <1>1, SlotLimit
<1>3. IsSocket(sock') /\ ~ sock'.in_use /\ sock'.last_seq_out = sock.last_seq_out
  BY <1>1, <1>2, FreeFacts
<1>4. Fresh => host.read = 0
  BY <1>1, <1>2 DEF IInv, FreshOK, SlotOK, SendOK
<1>5. AllToMac(toMac', host, Acked)
  BY <1>1, <1>2
<1>6. QED
  BY <1>1, <1>3, <1>4, <1>5, Freed

\* The packet that holds what has been read.
LEMMA ReadPacket ==
  ASSUME NEW read \in Nat, NEW n \in Nat \ {0}, n <= Segment, NEW h, h.sent \in Nat,
         read + n <= h.sent, h.sent <= RemoteBytes, NEW acked, NEW ack \in 0 .. MacBytes + 2,
         ack <= acked, NEW p,
         p = [flags |-> {"ACK"}, seq |-> read + 2, ack |-> ack, data |-> Bytes(read + 1, n)]
  PROVE  p \in Packet /\ ToMacOK(p, h, acked)
<1>1. /\ Bytes(read + 1, n) \in Seq(Nat) /\ Len(Bytes(read + 1, n)) = n
      /\ \A i \in 1 .. n : Bytes(read + 1, n)[i] = read + 1 + i - 1
  <2>1. read + 1 \in Nat \ {0} /\ n \in Nat
    OBVIOUS
  <2>2. QED
    BY <2>1, BytesFacts
<1>2. /\ read + 2 \in 0 .. MacBytes + RemoteBytes + 3 /\ ack \in 0 .. MacBytes + RemoteBytes + 3
      /\ read + 2 <= RemoteBytes + 3 /\ {"ACK"} \in SUBSET Flags
  BY RouterTCPAssumption DEF Flags
<1>3. p \in Packet
  BY <1>1, <1>2 DEF Packet
<1>4. /\ p.seq = read + 2 /\ p.ack = ack /\ Len(p.data) = n /\ p.flags = {"ACK"}
      /\ \A i \in 1 .. n : p.data[i] = read + i
  BY <1>1
<1>5. /\ \A i \in 1 .. Len(p.data) : p.data[i] = p.seq + i - 2
      /\ p.seq + Len(p.data) <= h.sent + 2 /\ p.seq >= 2
  BY <1>4
<1>6. QED
  BY <1>2, <1>3, <1>4, <1>5 DEF ToMacOK

\* What a completion routine finds: a read is under way.
LEMMA ReadUnderWay ==
  ASSUME IInv, sock.in_use, sock.reads > 0
  PROVE  /\ sock.reads = 1 /\ ~ sock.stalled /\ ~ sock.time_wait
         /\ sock.state \in {"ESTABLISHED", "CLOSE_WAIT"}
         /\ sock.seq_out = host.read + 2
         /\ Fresh => /\ host.read = 0 /\ sock.state = "ESTABLISHED" /\ sock.mac_ack <= 2
                     /\ sock.writes = 0 /\ ~ sock.shut /\ written = <<>>
<1>1. IsSocket(sock) /\ SlotOK(sock, host.read, Len(written))
  BY SlotLimit
<1>2. sock.reads = 1
  BY <1>1 DEF IsSocket
<1>3. sock.state \in {"ESTABLISHED", "CLOSE_WAIT"} /\ ~ sock.stalled
  BY <1>1, <1>2 DEF SlotOK, SendOK, IsSocket
<1>4. sock.seq_out = host.read + 2 /\ ~ sock.time_wait
  BY <1>1, <1>3 DEF SlotOK, SendOK, IsSocket
<1>5. Fresh => /\ host.read = 0 /\ sock.state = "ESTABLISHED" /\ sock.mac_ack <= 2
               /\ sock.writes = 0 /\ ~ sock.shut /\ written = <<>>
  BY <1>2, <1>3 DEF IInv, FreshOK, Opening
<1>6. QED
  BY <1>2, <1>3, <1>4, <1>5

\* A read of data.
LEMMA ReadsData ==
  ASSUME IInv, NEW n \in 0 .. Segment, ReadDone(n), n > 0
  PROVE  IInv'
<1> DEFINE s == [sock EXCEPT !.reads = @ - 1, !.bytes_received = Bytes(host.read + 1, n)]
           d == Sent(s)
           p == d.packet
           v == d.s
           read == host.read + n
<1>1. /\ sock.in_use /\ sock.reads > 0 /\ host.conn = "up" /\ n <= host.sent - host.read
      /\ sock' = Reading(v) /\ toMac' = Enqueued(toMac, <<p>>)
      /\ host' = [host EXCEPT !.read = @ + n] /\ UNCHANGED <<written, early_fin, mac, fromMac>>
  BY DEF ReadDone
<1>2. /\ IsSocket(sock) /\ SlotOK(sock, host.read, Len(written)) /\ IsHost(host)
      /\ host.read \in Nat /\ host.sent \in Nat /\ host.read <= host.sent
      /\ Len(written) \in 0 .. MacBytes
      /\ sock.seq_in <= Acked /\ Acked \in Nat /\ AllToMac(toMac, host, Acked)
  BY <1>1, SlotLimit
<1>3. /\ sock.reads = 1 /\ ~ sock.stalled /\ ~ sock.time_wait
      /\ sock.state \in {"ESTABLISHED", "CLOSE_WAIT"}
      /\ sock.seq_out = host.read + 2
      /\ Fresh => /\ host.read = 0 /\ sock.state = "ESTABLISHED" /\ sock.mac_ack <= 2
                  /\ sock.writes = 0 /\ ~ sock.shut /\ written = <<>>
  BY <1>1, ReadUnderWay
<1>4. /\ n \in Nat \ {0} /\ n <= Segment /\ read \in Nat /\ read <= host.sent
      /\ host.sent <= RemoteBytes /\ host.read + 1 \in Nat \ {0}
  BY <1>1, <1>2, RouterTCPAssumption DEF IsHost
<1> DEFINE data == Bytes(host.read + 1, n)
<1>5. data \in Seq(Nat) /\ Len(data) = n /\ \A i \in 1 .. n : data[i] = host.read + i
  <2>1. /\ data \in Seq(Nat) /\ Len(data) = n
        /\ \A i \in 1 .. n : data[i] = (host.read + 1) + i - 1
    BY <1>4, BytesFacts
  <2> HIDE DEF data
  <2>2. \A i \in 1 .. n : (host.read + 1) + i - 1 = host.read + i
    BY <1>2, <1>4
  <2>3. QED
    BY <2>1, <2>2
<1> HIDE DEF read, data
<1>6. /\ IsSocket(s) /\ s.in_use = sock.in_use /\ s.open = sock.open /\ s.state = sock.state
      /\ s.accept_more = sock.accept_more /\ s.seq_in = sock.seq_in /\ s.seq_out = sock.seq_out
      /\ s.last_seq_out = sock.last_seq_out /\ s.shut = sock.shut /\ s.reads = 0
      /\ s.writes = sock.writes /\ s.time_wait = sock.time_wait /\ s.stalled = sock.stalled
      /\ s.mac_ack = sock.mac_ack /\ s.to_send = sock.to_send
      /\ s.buffers_write = sock.buffers_write /\ s.bytes_received = data
  <2>1. sock.reads - 1 = 0
    BY <1>3
  <2>2. QED
    BY <1>2, <1>5, <2>1 DEF IsSocket, SocketFields, data
<1>7. /\ v = [s EXCEPT !.last_seq_out = s.seq_out, !.seq_out = @ + Len(s.bytes_received)]
      /\ p = [flags |-> {"ACK"}, seq |-> s.seq_out, ack |-> s.seq_in, data |-> s.bytes_received]
  BY DEF Sent
<1> HIDE DEF s, v, p, d
<1>8. /\ s.seq_out + Len(s.bytes_received) = read + 2 /\ read + 2 \in 0 .. RemoteBytes + 3
      /\ host.read + 2 \in 0 .. RemoteBytes + 3
  <2>1. s.seq_out = host.read + 2 /\ Len(s.bytes_received) = n
    BY <1>3, <1>5, <1>6
  <2>2. host.read + 2 + n = read + 2
    BY <1>2, <1>4 DEF read
  <2>3. read + 2 \in 0 .. RemoteBytes + 3 /\ host.read + 2 \in 0 .. RemoteBytes + 3
    <3>1. /\ host.read \in Nat /\ host.read <= host.sent /\ host.sent \in Nat
          /\ read \in Nat /\ read <= host.sent /\ host.sent <= RemoteBytes
      BY <1>2, <1>4
    <3>2. QED
      BY <3>1, RouterTCPAssumption
  <2>4. QED
    BY <2>1, <2>2, <2>3
<1>9. /\ IsSocket(v) /\ v.in_use /\ v.state = sock.state
      /\ v.accept_more = sock.accept_more /\ v.seq_in = sock.seq_in /\ v.seq_out = read + 2
      /\ v.last_seq_out = host.read + 2 /\ v.shut = sock.shut /\ v.reads = 0
      /\ v.writes = sock.writes /\ ~ v.time_wait /\ ~ v.stalled
      /\ v.mac_ack = sock.mac_ack /\ v.to_send = sock.to_send
      /\ v.buffers_write = sock.buffers_write /\ v.bytes_received = data
  BY <1>1, <1>3, <1>6, <1>7, <1>8 DEF IsSocket, SocketFields
<1>10. SlotOK(v, read, Len(written))
  <2>1. v.state \in {"ESTABLISHED", "CLOSE_WAIT"}
    BY <1>3, <1>9
  <2>2. SendOK(v, read)
    <3>1. /\ read > 0 /\ v.seq_out <= read + 3 /\ v.last_seq_out >= 2
          /\ v.last_seq_out + Len(v.bytes_received) = v.seq_out
          /\ Len(v.bytes_received) = n
      BY <1>2, <1>4, <1>5, <1>9 DEF read
    <3>2. \A i \in 1 .. Len(v.bytes_received) : v.bytes_received[i] = v.last_seq_out + i - 2
      <4>1. \A i \in 1 .. n : host.read + i = (host.read + 2) + i - 2
        BY <1>2, <1>4
      <4>2. QED
        BY <1>5, <1>9, <4>1
    <3>3. QED
      BY <1>4, <1>9, <2>1, <3>1, <3>2 DEF SendOK
  <2>3. ReceiveOK(v, Len(written))
    BY <1>2, <1>9 DEF SlotOK, ReceiveOK, Fin
  <2>4. FinOK(v) /\ OpeningOK(v, read, Len(written))
    BY <1>2, <1>9, <2>1 DEF SlotOK, FinOK, OpeningOK, Opening
  <2>5. QED
    BY <1>9, <2>1, <2>2, <2>3, <2>4 DEF SlotOK
<1>11. /\ IsSocket(sock') /\ SlotOK(sock', read, Len(written))
       /\ sock'.state = v.state /\ sock'.shut = v.shut /\ sock'.mac_ack = v.mac_ack
       /\ sock'.writes = v.writes
       /\ v.seq_out # v.mac_ack => sock'.stalled /\ sock'.reads = 0
  BY <1>1, <1>3, <1>4, <1>9, <1>10, ReadingKeeps
<1>12. /\ IsHost(host') /\ host'.sent = host.sent /\ host'.closed = host.closed
       /\ host'.conn = host.conn /\ host'.read = read /\ host'.read > 0
  <2>1. read \in 0 .. RemoteBytes /\ read > 0
    BY <1>2, <1>4, RouterTCPAssumption DEF read
  <2>2. QED
    BY <1>1, <1>2, <2>1 DEF IsHost, read
<1>13. AllToMac(toMac', host, Acked)
  <2>1. sock.seq_in \in 0 .. MacBytes + 2
    BY <1>2 DEF IsSocket
  <2>2. host.read + n <= host.sent
    BY <1>4 DEF read
  <2>3. p = [flags |-> {"ACK"}, seq |-> host.read + 2, ack |-> sock.seq_in,
             data |-> Bytes(host.read + 1, n)]
    BY <1>3, <1>6, <1>7 DEF data
  <2>4. p \in Packet /\ ToMacOK(p, host, Acked)
    BY <1>2, <1>4, <2>1, <2>2, <2>3, ReadPacket
  <2>5. QED
    BY <1>1, <1>2, <2>4, OneAdded
<1>14. /\ Types' /\ AcksOK' /\ Packets' /\ Ends' /\ SynsFirst' /\ (Fresh' <=> Fresh) /\ Before'
  <2>1. host'.read <= host.sent /\ (sock'.in_use => (sock'.shut => sock.shut))
    BY <1>4, <1>9, <1>11, <1>12
  <2>2. QED
    BY <1>1, <1>11, <1>12, <1>13, <2>1, SlotFrame
<1>15. Slot'
  BY <1>1, <1>11, <1>12 DEF Slot
<1>16. Called'
  BY <1>3, <1>9, <1>11 DEF Called
<1>17. FreshOK'
  <2> SUFFICES ASSUME Fresh
               PROVE  FreshOK'
    BY <1>14 DEF FreshOK
  <2>1. v.seq_out # v.mac_ack
    BY <1>2, <1>3, <1>4, <1>9 DEF read, IsSocket
  <2>2. /\ sock'.in_use /\ sock'.state = "ESTABLISHED" /\ sock'.stalled /\ sock'.reads = 0
        /\ sock'.mac_ack <= 2 /\ sock'.writes = 0 /\ ~ sock'.shut /\ written' = <<>>
    BY <1>1, <1>3, <1>9, <1>11, <2>1 DEF SlotOK
  <2>3. QED
    BY <2>2 DEF FreshOK
<1>18. QED
  BY <1>14, <1>15, <1>16, <1>17 DEF IInv

\* The remote host has closed: the router sends its FIN.
LEMMA ReadsEnd ==
  ASSUME IInv, ReadDone(0)
  PROVE  IInv'
<1> DEFINE s == [sock EXCEPT !.reads = @ - 1, !.bytes_received = Bytes(host.read + 1, 0)]
           st == IF s.state = "CLOSE_WAIT" THEN "LAST_ACK" ELSE "FINWAIT_1"
           t == [[s EXCEPT !.open = FALSE, !.seq_out = @ + 1] EXCEPT !.state = st]
           p == Reply(s, {"ACK", "FIN"})
<1>1. /\ sock.in_use /\ sock.reads > 0 /\ host.conn = "up" /\ host.sent = host.read /\ host.closed
      /\ UNCHANGED <<written, early_fin, mac, fromMac>>
      /\ host' = [host EXCEPT !.read = @ + 0]
  BY DEF ReadDone
<1>2. /\ IsSocket(sock) /\ SlotOK(sock, host.read, Len(written)) /\ IsHost(host)
      /\ host.read \in Nat /\ host.sent \in Nat /\ host.read <= host.sent
      /\ Len(written) \in 0 .. MacBytes
      /\ sock.seq_in <= Acked /\ Acked \in Nat /\ AllToMac(toMac, host, Acked)
  BY <1>1, SlotLimit
<1>3. /\ sock.reads = 1 /\ ~ sock.stalled /\ ~ sock.time_wait
      /\ sock.state \in {"ESTABLISHED", "CLOSE_WAIT"}
      /\ sock.seq_out = host.read + 2
      /\ Fresh => /\ host.read = 0 /\ sock.state = "ESTABLISHED" /\ sock.mac_ack <= 2
                  /\ sock.writes = 0 /\ ~ sock.shut /\ written = <<>>
  BY <1>1, ReadUnderWay
<1>4. s.state = sock.state
  BY <1>2 DEF IsSocket, SocketFields
<1>5. sock' = t /\ toMac' = Enqueued(toMac, <<p>>)
  BY <1>3, <1>4 DEF ReadDone
<1>6. /\ IsSocket(s) /\ s.in_use = sock.in_use /\ s.state = sock.state
      /\ s.accept_more = sock.accept_more /\ s.seq_in = sock.seq_in /\ s.seq_out = sock.seq_out
      /\ s.last_seq_out = sock.last_seq_out /\ s.shut = sock.shut /\ s.reads = 0
      /\ s.writes = sock.writes /\ s.time_wait = sock.time_wait /\ s.stalled = sock.stalled
      /\ s.mac_ack = sock.mac_ack /\ s.to_send = sock.to_send
      /\ s.buffers_write = sock.buffers_write
  <2>1. sock.reads - 1 = 0 /\ Bytes(host.read + 1, 0) \in Seq(Nat)
    BY <1>2, <1>3, BytesFacts
  <2>2. QED
    BY <1>2, <2>1 DEF IsSocket, SocketFields
<1> HIDE DEF s
<1>7. s.seq_out + 1 = host.read + 3 /\ host.read + 3 \in 0 .. RemoteBytes + 3
  BY <1>2, <1>3, <1>6, RouterTCPAssumption DEF IsHost
<1>8. st \in States /\ (st = "LAST_ACK" \/ (st = "FINWAIT_1" /\ sock.state = "ESTABLISHED"))
      /\ (sock.state = "ESTABLISHED" => st = "FINWAIT_1")
  BY <1>3, <1>6 DEF States
<1> HIDE DEF st
<1>9. /\ IsSocket(t) /\ t.in_use = sock.in_use /\ t.state = st
      /\ t.accept_more = sock.accept_more /\ t.seq_in = sock.seq_in /\ t.seq_out = host.read + 3
      /\ t.last_seq_out = sock.last_seq_out /\ t.shut = sock.shut /\ t.reads = 0
      /\ t.writes = sock.writes /\ t.time_wait = sock.time_wait /\ t.stalled = sock.stalled
      /\ t.mac_ack = sock.mac_ack /\ t.to_send = sock.to_send
      /\ t.buffers_write = sock.buffers_write
  BY <1>6, <1>7, <1>8 DEF IsSocket, SocketFields
<1> HIDE DEF t
<1>10. SlotOK(t, host.read, Len(written))
  <2>1. SendOK(t, host.read)
    BY <1>2, <1>3, <1>8, <1>9 DEF SlotOK, SendOK
  <2>2. ReceiveOK(t, Len(written))
    BY <1>2, <1>9 DEF SlotOK, ReceiveOK, Fin
  <2>3. FinOK(t) /\ OpeningOK(t, host.read, Len(written))
    BY <1>2, <1>8, <1>9 DEF SlotOK, FinOK, OpeningOK, Opening
  <2>4. QED
    BY <1>1, <1>8, <1>9, <2>1, <2>2, <2>3 DEF SlotOK
<1>11. /\ IsHost(host') /\ host'.sent = host.sent /\ host'.closed = host.closed
       /\ host'.conn = host.conn /\ host'.read = host.read
  <2>1. host.read + 0 = host.read
    BY <1>2
  <2>2. QED
    BY <1>1, <1>2, <2>1 DEF IsHost
<1>12. AllToMac(toMac', host, Acked)
  <2>1. {"ACK", "FIN"} \in SUBSET Flags
    BY DEF Flags
  <2>2. /\ p \in Packet /\ p.seq = sock.seq_out /\ p.ack = sock.seq_in /\ p.flags = {"ACK", "FIN"}
        /\ p.data = <<>> /\ p.seq <= RemoteBytes + 3
    BY <1>6, <2>1, AnyReply
  <2> HIDE DEF p
  <2>3. p.seq = host.sent + 2
    BY <1>1, <1>3, <2>2
  <2>4. ToMacOK(p, host, Acked)
    BY <1>1, <1>2, <2>2, <2>3, EmptyReplyOK
  <2>5. QED
    BY <1>2, <1>5, <2>2, <2>4, OneAdded
<1>13. /\ Types' /\ AcksOK' /\ Packets' /\ Ends' /\ SynsFirst' /\ (Fresh' <=> Fresh) /\ Before'
  <2>1. host'.read <= host.sent /\ (sock'.in_use => (sock'.shut => sock.shut))
        /\ (sock'.last_seq_out # 0 => host'.read > 0) /\ IsSocket(sock')
    BY <1>2, <1>5, <1>9, <1>11 DEF IInv, Ends
  <2>2. QED
    BY <1>1, <1>11, <1>12, <2>1, SlotFrame
<1>14. Slot'
  BY <1>1, <1>5, <1>10, <1>11 DEF Slot
<1>15. Called'
  BY <1>5, <1>8, <1>9 DEF Called
<1>16. FreshOK'
  <2> SUFFICES ASSUME Fresh
               PROVE  FreshOK'
    BY <1>13 DEF FreshOK
  <2>1. /\ sock'.state = "FINWAIT_1" /\ sock'.mac_ack <= 2 /\ sock'.writes = 0 /\ ~ sock'.shut
        /\ written' = <<>> /\ host'.read = 0
    BY <1>1, <1>3, <1>5, <1>8, <1>9, <1>11
  <2>2. QED
    BY <2>1 DEF FreshOK
<1>17. QED
  BY <1>13, <1>14, <1>15, <1>16 DEF IInv

LEMMA PartOfBytes ==
  ASSUME NEW first \in Nat \ {0}, NEW l \in Nat, NEW m \in 1 .. l + 1, NEW n \in 0 .. l, m <= n + 1
  PROVE  SubSeq(Bytes(first, l), m, n) = Bytes(first + m - 1, n - m + 1)
<1> DEFINE b == Bytes(first, l)
           c == Bytes(first + m - 1, n - m + 1)
           d == SubSeq(b, m, n)
           k == n - m + 1
           f == first + m - 1
<1>1. k \in Nat /\ f \in Nat \ {0}
  OBVIOUS
<1>2. /\ b \in Seq(Nat) /\ Len(b) = l /\ \A i \in 1 .. l : b[i] = first + i - 1
  BY BytesFacts
<1>3. c \in Seq(Nat) /\ Len(c) = k /\ \A i \in 1 .. k : c[i] = f + i - 1
  BY <1>1, BytesFacts
<1> HIDE DEF b, c
<1>4. \A i \in m .. n : b[i] \in Nat
  BY <1>2
<1>5. /\ d \in Seq(Nat) /\ Len(d) = (IF m <= n THEN n - m + 1 ELSE 0)
      /\ \A i \in 1 .. n - m + 1 : d[i] = b[m + i - 1]
  BY <1>4, SubSeqProperties
<1> HIDE DEF d
<1>6. Len(d) = k
  BY <1>5
<1>7. ASSUME NEW i \in 1 .. k
      PROVE  d[i] = c[i]
  <2>1. m + i - 1 \in 1 .. l /\ d[i] = b[m + i - 1]
    BY <1>5
  <2>2. b[m + i - 1] = first + (m + i - 1) - 1
    BY <1>2, <2>1
  <2>3. c[i] = f + i - 1
    BY <1>3
  <2>4. QED
    BY <2>1, <2>2, <2>3
<1>8. d = c
  BY <1>3, <1>5, <1>6, <1>7, SeqEqual
<1>9. QED
  BY <1>8 DEF b, c, d

LEMMA WrittenGrows ==
  ASSUME written \in Seq(Nat), \A i \in 1 .. Len(written) : written[i] = i, NEW n \in Nat,
         written' = written \o Bytes(Len(written) + 1, n)
  PROVE  /\ written' \in Seq(Nat) /\ Len(written') = Len(written) + n
         /\ \A i \in 1 .. Len(written') : written'[i] = i
<1> DEFINE w == Len(written)
           b == Bytes(w + 1, n)
<1>1. w \in Nat
  BY LenProperties
<1>2. w + 1 \in Nat \ {0}
  BY <1>1
<1> HIDE DEF w
<1>3. b \in Seq(Nat) /\ Len(b) = n /\ \A i \in 1 .. n : b[i] = (w + 1) + i - 1
  BY <1>2, BytesFacts
<1>4. written' = written \o b
  BY DEF w
<1> HIDE DEF b
<1>5. /\ written' \in Seq(Nat) /\ Len(written') = w + n
      /\ \A i \in 1 .. w + n : written'[i] = IF i <= w THEN written[i] ELSE b[i - w]
  <2>1. written \in Seq(Nat)
    OBVIOUS
  <2>2. /\ written \o b \in Seq(Nat) /\ Len(written \o b) = Len(written) + Len(b)
        /\ \A i \in 1 .. Len(written) + Len(b) :
             (written \o b)[i] = IF i <= Len(written) THEN written[i] ELSE b[i - Len(written)]
    BY <1>3, <2>1, ConcatProperties
  <2>3. QED
    BY <1>3, <1>4, <2>2 DEF w
<1>6. ASSUME NEW i \in 1 .. w + n
      PROVE  written'[i] = i
  <2>1. CASE i <= w
    BY <1>1, <1>5, <2>1 DEF w
  <2>2. CASE ~ (i <= w)
    <3>1. i - w \in 1 .. n
      BY <1>1, <2>2
    <3>2. written'[i] = b[i - w] /\ b[i - w] = (w + 1) + (i - w) - 1
      BY <1>3, <1>5, <2>2, <3>1
    <3>3. i \in Nat /\ (w + 1) + (i - w) - 1 = i
      BY <1>1
    <3>4. QED
      BY <3>2, <3>3
  <2>3. QED
    BY <2>1, <2>2
<1>7. QED
  BY <1>5, <1>6 DEF w

\* What a completion of a write changes of a slot s when w bytes are written.
WroteOK(t, s, w) ==
  /\ IsSocket(t) /\ t.in_use = s.in_use /\ t.state = s.state /\ t.seq_out = s.seq_out
  /\ t.last_seq_out = s.last_seq_out /\ t.stalled = s.stalled /\ t.time_wait = s.time_wait
  /\ t.shut = s.shut /\ t.bytes_received = s.bytes_received /\ t.reads = s.reads
  /\ ReceiveOK(t, w)

LEMMA WroteKeeps ==
  ASSUME NEW s, NEW read, NEW w, NEW w2, SlotOK(s, read, w), s.state \notin Opening,
         NEW t, WroteOK(t, s, w2)
  PROVE  SlotOK(t, read, w2)
<1>1. SendOK(t, read)
  BY DEF SlotOK, SendOK, WroteOK
<1>2. OpeningOK(t, read, w2) /\ FinOK(t)
  BY DEF SlotOK, OpeningOK, FinOK, WroteOK
<1>3. QED
  BY <1>1, <1>2 DEF SlotOK, WroteOK

\* The slot after n bytes of its write, and after all of it.
Rest(s, n) == SubSeq(s.buffers_write, n + 1, Len(s.buffers_write))

Partly(s, n) == [s EXCEPT !.writes = @ - 1, !.buffers_write = Rest(s, n)]

Wholly(s, n) ==
  [Partly(s, n) EXCEPT !.seq_in = @ + Partly(s, n).to_send, !.to_send = 0, !.accept_more = TRUE]

LEMMA Wrote ==
  ASSUME NEW s, IsSocket(s), NEW w \in 0 .. MacBytes, NEW n \in Nat, n <= Len(s.buffers_write),
         NEW read, SlotOK(s, read, w), s.writes > 0
  PROVE  /\ s.state \notin Opening /\ s.writes = 1
         /\ SubSeq(s.buffers_write, 1, n) = Bytes(w + 1, n) /\ w + n <= MacBytes
         /\ WroteOK(Partly(s, n), s, w + n) /\ WroteOK(Writing(Partly(s, n)), s, w + n)
         /\ Rest(s, n) = <<>> => /\ WroteOK(Wholly(s, n), s, w + n)
                                 /\ Wholly(s, n).seq_in = w + n + 1 + Fin(s)
<1> DEFINE l == Len(s.buffers_write)
           rest == Rest(s, n)
           u == Partly(s, n)
           done == Wholly(s, n)
<1>a. /\ rest = SubSeq(s.buffers_write, n + 1, Len(s.buffers_write))
      /\ u = [s EXCEPT !.writes = @ - 1, !.buffers_write = rest]
      /\ done = [u EXCEPT !.seq_in = @ + u.to_send, !.to_send = 0, !.accept_more = TRUE]
  BY DEF Rest, Partly, Wholly
<1> HIDE DEF rest, u, done
<1>1. s.writes = 1 /\ l \in Nat /\ s.seq_in \in Nat /\ s.to_send \in Nat /\ w \in Nat
      /\ MacBytes \in Nat
  BY LenProperties, RouterTCPAssumption DEF IsSocket
<1>2. /\ s.state \notin Opening /\ ~ s.accept_more
      /\ s.seq_in + s.to_send = w + l + 1 + Fin(s)
      /\ s.buffers_write = Bytes(w + 1, l) /\ w + l <= MacBytes
      /\ s.seq_in <= w + 1 + Fin(s)
  BY <1>1 DEF SlotOK, OpeningOK, ReceiveOK
<1>3. Fin(s) \in {0, 1}
  BY DEF Fin
<1>4. n \in 0 .. l /\ n <= l /\ w + 1 \in Nat \ {0}
  BY <1>1
<1> HIDE DEF l
<1>5. rest = Bytes(w + 1 + n, l - n)
  <2>1. n + 1 \in 1 .. l + 1 /\ l \in 0 .. l /\ n + 1 <= l + 1
    BY <1>1, <1>4
  <2>2. SubSeq(Bytes(w + 1, l), n + 1, l) = Bytes(w + 1 + (n + 1) - 1, l - (n + 1) + 1)
    BY <1>1, <1>4, <2>1, PartOfBytes
  <2>3. w + 1 + (n + 1) - 1 = w + 1 + n /\ l - (n + 1) + 1 = l - n
    BY <1>1
  <2>4. QED
    BY <1>a, <1>2, <2>2, <2>3 DEF l
<1>6. SubSeq(s.buffers_write, 1, n) = Bytes(w + 1, n)
  <2>1. 1 \in 1 .. l + 1 /\ 1 <= n + 1
    BY <1>1
  <2>2. SubSeq(Bytes(w + 1, l), 1, n) = Bytes(w + 1 + 1 - 1, n - 1 + 1)
    BY <1>1, <1>4, <2>1, PartOfBytes
  <2>3. w + 1 + 1 - 1 = w + 1 /\ n - 1 + 1 = n
    BY <1>1
  <2>4. QED
    BY <1>2, <2>2, <2>3
<1>7. l - n \in Nat /\ w + 1 + n \in Nat \ {0} /\ w + n <= MacBytes /\ w + n + (l - n) = w + l
  <2>1. w + l <= MacBytes
    BY <1>2
  <2>2. QED
    BY <1>1, <1>4, <2>1
<1>8. rest \in Seq(Nat) /\ Len(rest) = l - n
  BY <1>5, <1>7, BytesFacts
<1>9. /\ IsSocket(u) /\ u.in_use = s.in_use /\ u.state = s.state /\ u.seq_out = s.seq_out
      /\ u.last_seq_out = s.last_seq_out /\ u.stalled = s.stalled /\ u.time_wait = s.time_wait
      /\ u.shut = s.shut /\ u.bytes_received = s.bytes_received /\ u.reads = s.reads
      /\ u.writes = 0 /\ ~ u.accept_more /\ u.seq_in = s.seq_in /\ u.to_send = s.to_send
      /\ u.buffers_write = rest /\ u.open = s.open /\ u.mac_ack = s.mac_ack
  <2>1. s.writes - 1 = 0
    BY <1>1
  <2>2. QED
    BY <1>2, <1>8, <1>a, <2>1 DEF IsSocket, SocketFields
<1>10. s.seq_in <= w + n + 1 + Fin(s)
  BY <1>1, <1>2, <1>3
<1>11. WroteOK(u, s, w + n)
  <2>1. Fin(u) = Fin(s)
    BY <1>9 DEF Fin
  <2>2. ReceiveOK(u, w + n)
    BY <1>9, <1>10, <2>1 DEF ReceiveOK
  <2>3. QED
    BY <1>9, <2>2 DEF WroteOK
<1>12. WroteOK(Writing(u), s, w + n)
  <2> DEFINE t == [u EXCEPT !.writes = @ + 1]
  <2>1. Writing(u) = u \/ Writing(u) = t
    BY DEF Writing
  <2>2. /\ IsSocket(t) /\ t.in_use = s.in_use /\ t.state = s.state /\ t.seq_out = s.seq_out
        /\ t.last_seq_out = s.last_seq_out /\ t.stalled = s.stalled /\ t.time_wait = s.time_wait
        /\ t.shut = s.shut /\ t.bytes_received = s.bytes_received /\ t.reads = s.reads
        /\ t.writes = 1 /\ ~ t.accept_more /\ t.seq_in = s.seq_in /\ t.to_send = s.to_send
        /\ t.buffers_write = rest
    <3>1. u.writes + 1 = 1
      BY <1>9
    <3>2. QED
      BY <1>9, <3>1 DEF IsSocket, SocketFields
  <2> HIDE DEF t
  <2>3. Fin(t) = Fin(s)
    BY <2>2 DEF Fin
  <2>4. t.seq_in + t.to_send = (w + n) + Len(t.buffers_write) + 1 + Fin(t)
    BY <1>1, <1>2, <1>3, <1>7, <1>8, <2>2, <2>3
  <2>5. t.buffers_write = Bytes((w + n) + 1, Len(t.buffers_write))
    <3>1. w + 1 + n = (w + n) + 1
      BY <1>1
    <3>2. QED
      BY <1>5, <1>8, <2>2, <3>1
  <2>6. (w + n) + Len(t.buffers_write) <= MacBytes
    BY <1>1, <1>2, <1>7, <1>8, <2>2
  <2>7. ReceiveOK(t, w + n)
    BY <1>10, <2>2, <2>3, <2>4, <2>5, <2>6 DEF ReceiveOK
  <2>8. WroteOK(t, s, w + n)
    BY <2>2, <2>7 DEF WroteOK
  <2>9. QED
    BY <1>11, <2>1, <2>8
<1>13. ASSUME rest = <<>>
       PROVE  WroteOK(done, s, w + n) /\ done.seq_in = w + n + 1 + Fin(s)
  <2>1. l = n
    <3>1. Len(rest) = 0
      BY <1>13, EmptySeq
    <3>2. QED
      BY <1>1, <1>8, <3>1
  <2>2. s.seq_in + s.to_send = w + n + 1 + Fin(s) /\ s.seq_in + s.to_send \in 0 .. MacBytes + 2
    BY <1>1, <1>2, <1>3, <1>7, <2>1
  <2>3. /\ IsSocket(done) /\ done.in_use = s.in_use /\ done.state = s.state
        /\ done.seq_out = s.seq_out /\ done.last_seq_out = s.last_seq_out
        /\ done.stalled = s.stalled /\ done.time_wait = s.time_wait
        /\ done.shut = s.shut /\ done.bytes_received = s.bytes_received /\ done.reads = s.reads
        /\ done.writes = 0 /\ done.accept_more /\ done.seq_in = s.seq_in + s.to_send
    BY <1>9, <1>a, <2>2 DEF IsSocket, SocketFields
  <2>4. Fin(done) = Fin(s)
    BY <2>3 DEF Fin
  <2>5. ReceiveOK(done, w + n)
    BY <1>1, <1>3, <2>2, <2>3, <2>4 DEF ReceiveOK
  <2>6. QED
    BY <2>2, <2>3, <2>5 DEF WroteOK
<1>14. QED
  BY <1>1, <1>2, <1>6, <1>7, <1>11, <1>12, <1>13 DEF rest, u, done

\* A write that is finished, or was in error.
LEMMA WriteDoneKeeps ==
  ASSUME IInv, NEW n \in 0 .. Segment, WriteDone(n)
  PROVE  IInv'
<1> DEFINE w == Len(written)
           rest == Rest(sock, n)
           u == Partly(sock, n)
           done == Wholly(sock, n)
           p == Reply(done, {"ACK"})
<1>1. /\ sock.in_use /\ sock.writes > 0 /\ n <= Len(sock.buffers_write)
      /\ written' = written \o SubSeq(sock.buffers_write, 1, n)
      /\ UNCHANGED <<host, early_fin, mac, fromMac>>
  BY DEF WriteDone
<1>2. \/ sock' = u /\ toMac' = toMac
      \/ rest = <<>> /\ sock' = done /\ toMac' = Enqueued(toMac, <<p>>)
      \/ sock' = Writing(u) /\ toMac' = toMac
  BY DEF WriteDone, AllWritten, Rest, Partly, Wholly
<1>3. /\ IsSocket(sock) /\ SlotOK(sock, host.read, w) /\ IsHost(host)
      /\ w \in 0 .. MacBytes /\ Acked \in Nat /\ AllToMac(toMac, host, Acked)
      /\ n \in Nat
  BY <1>1, SlotLimit
<1>4. written \in Seq(Nat) /\ \A i \in 1 .. Len(written) : written[i] = i
  BY DEF IInv, Types, Ends
<1> HIDE DEF w
<1>5. /\ sock.state \notin Opening /\ sock.writes = 1
      /\ SubSeq(sock.buffers_write, 1, n) = Bytes(w + 1, n) /\ w + n <= MacBytes
      /\ WroteOK(u, sock, w + n) /\ WroteOK(Writing(u), sock, w + n)
      /\ rest = <<>> => WroteOK(done, sock, w + n) /\ done.seq_in = w + n + 1 + Fin(sock)
  BY <1>1, <1>3, Wrote
<1>6. /\ written' \in Seq(Nat) /\ Len(written') = w + n
      /\ \A i \in 1 .. Len(written') : written'[i] = i
  BY <1>1, <1>3, <1>4, <1>5, WrittenGrows DEF w
<1> HIDE DEF rest, u, done
<1>7. WroteOK(sock', sock, w + n)
  BY <1>2, <1>5
<1>8. SlotOK(sock', host.read, w + n)
  BY <1>3, <1>5, <1>7, WroteKeeps
<1>9. /\ IsSocket(sock') /\ sock'.in_use /\ sock'.state = sock.state /\ sock'.shut = sock.shut
      /\ sock'.last_seq_out = sock.last_seq_out
  BY <1>1, <1>7 DEF WroteOK
<1>10. w + n \in Nat /\ w \in Nat /\ w <= w + n
  BY <1>3, RouterTCPAssumption
<1>11. Types'
  BY <1>1, <1>6, <1>9 DEF IInv, Types
<1>12. Ends'
  <2>1. Len(written') <= MacBytes
    BY <1>5, <1>6
  <2>2. QED
    BY <1>1, <1>6, <1>9, <2>1 DEF IInv, Ends
<1>13. Slot'
  BY <1>1, <1>6, <1>8 DEF Slot
<1>14. SynsFirst' /\ (Fresh' <=> Fresh) /\ AllFromMac(fromMac', mac'.fin)
  BY <1>1, MacSame
<1>15. Excused => Excused'
  <2>1. FinDone => FinDone'
    <3>1. mac.fin \in 0 .. MacBytes + 1
      BY DEF IInv, Types, IsMac
    <3>2. FinDone => mac.fin # 0 /\ mac.fin <= w + 1
      BY DEF FinDone, w
    <3>3. FinDone' <=> mac.fin # 0 /\ mac.fin <= w + n + 1
      BY <1>1, <1>6 DEF FinDone
    <3>4. QED
      BY <1>10, <3>1, <3>2, <3>3, RouterTCPAssumption
  <2>2. QED
    BY <1>1, <2>1 DEF Excused
<1>16. Acked <= Acked' /\ Acked' \in Nat /\ w + n + 1 <= Acked' /\ (Excused' => Acked' = MacBytes + 2)
  <2>1. Acked' = IF Excused' THEN MacBytes + 2 ELSE w + n + 1
    BY <1>6 DEF Acked
  <2>2. Acked = IF Excused THEN MacBytes + 2 ELSE w + 1
    BY DEF Acked, w
  <2>3. QED
    BY <1>5, <1>10, <1>15, <2>1, <2>2, RouterTCPAssumption
<1>17. AcksOK'
  <2>1. mac.una <= Acked /\ mac.una \in 0 .. MacBytes + 2
    BY DEF IInv, AcksOK, Types, IsMac
  <2>2. mac'.una <= Acked'
    BY <1>1, <1>3, <1>16, <2>1, RouterTCPAssumption
  <2>3. sock'.in_use /\ sock'.shut => Excused'
    BY <1>1, <1>9, <1>15 DEF IInv, AcksOK
  <2>4. QED
    BY <2>2, <2>3 DEF AcksOK
<1>18. AllToMac(toMac, host', Acked')
  <2>1. IsHost(host') /\ host.sent <= host'.sent /\ host'.sent = host.sent
    BY <1>1, <1>3 DEF IsHost
  <2>2. QED
    BY <1>1, <1>3, <1>16, <2>1, ToMacLasts
<1>19. Packets'
  <2>1. CASE toMac' = toMac
    BY <1>14, <1>18, <2>1 DEF Packets
  <2>2. CASE rest = <<>> /\ sock' = done /\ toMac' = Enqueued(toMac, <<p>>)
    <3>1. IsSocket(done)
      BY <1>9, <2>2
    <3>2. /\ p \in Packet /\ p.seq <= RemoteBytes + 3 /\ p.ack = done.seq_in
          /\ p.flags = {"ACK"} /\ p.data = <<>>
      <4>1. {"ACK"} \in SUBSET Flags
        BY DEF Flags
      <4>2. QED
        BY <3>1, <4>1, AnyReply
    <3>3. p.ack <= Acked'
      <4>1. p.ack = w + n + 1 + Fin(sock) /\ p.ack \in 0 .. MacBytes + 2
        BY <1>5, <2>2, <3>1, <3>2 DEF IsSocket
      <4>2. CASE sock.shut
        <5>1. Excused'
          BY <1>1, <1>9, <1>17, <4>2 DEF AcksOK
        <5>2. QED
          BY <1>16, <4>1, <5>1
      <4>3. CASE ~ sock.shut
        BY <1>10, <1>16, <4>1, <4>3 DEF Fin
      <4>4. QED
        BY <4>2, <4>3
    <3> HIDE DEF p
    <3>4. ToMacOK(p, host', Acked')
      BY <3>2, <3>3, EmptyReplyOK
    <3>5. AllToMac(toMac', host', Acked')
      BY <1>18, <2>2, <3>2, <3>4, OneAdded
    <3>6. QED
      BY <1>14, <3>5 DEF Packets
  <2>3. QED
    BY <1>2, <2>1, <2>2
<1>20. FreshOK'
  <2>1. ~ Fresh
    BY <1>1, <1>5 DEF IInv, FreshOK
  <2>2. QED
    BY <1>14, <2>1 DEF FreshOK
<1>21. Before' /\ Called'
  BY <1>1, <1>5, <1>9 DEF IInv, Before, Called, Opening
<1>22. QED
  BY <1>11, <1>12, <1>13, <1>14, <1>17, <1>19, <1>20, <1>21 DEF IInv

-----------------------------------------------------------------------------
(* Events and timeouts.                                                    *)

\* FD_CONNECT: the router answers the Mac's SYN.
LEMMA EventConnects ==
  ASSUME IInv, Event, "FD_CONNECT" \in host.event, host.conn = "up", sock.state = "LISTEN"
  PROVE  IInv'
<1> DEFINE t == [sock EXCEPT !.seq_out = @ + 1, !.state = "SYN_RCVD"]
           p == Reply(sock, {"SYN", "ACK"})
<1>1. /\ sock.in_use /\ sock' = t /\ toMac' = Enqueued(toMac, <<p>>)
      /\ host' = [host EXCEPT !.event = {}] /\ UNCHANGED <<written, early_fin, mac, fromMac>>
  BY DEF Event
<1>2. /\ IsSocket(sock) /\ SlotOK(sock, host.read, Len(written)) /\ IsHost(host)
      /\ host.read <= host.sent
      /\ sock.seq_in <= Acked /\ Acked \in Nat /\ AllToMac(toMac, host, Acked)
  BY <1>1, SlotLimit
<1>3. /\ host.read = 0 /\ Len(written) = 0 /\ sock.reads = 0 /\ sock.writes = 0
      /\ ~ sock.accept_more /\ ~ sock.stalled /\ sock.seq_in = 1 /\ sock.seq_out = 1
      /\ ~ sock.time_wait /\ sock.last_seq_out = 0
  BY <1>2 DEF SlotOK, OpeningOK, SendOK, Opening, IsSocket
<1>4. 2 \in 0 .. RemoteBytes + 3 /\ sock.seq_out + 1 = 2
  BY <1>3, RouterTCPAssumption
<1>5. /\ IsSocket(t) /\ t.in_use = sock.in_use /\ t.state = "SYN_RCVD"
      /\ t.accept_more = sock.accept_more /\ t.seq_in = sock.seq_in /\ t.seq_out = 2
      /\ t.last_seq_out = sock.last_seq_out /\ t.shut = sock.shut /\ t.reads = sock.reads
      /\ t.writes = sock.writes /\ t.time_wait = sock.time_wait /\ t.stalled = sock.stalled
      /\ t.mac_ack = sock.mac_ack
  BY <1>2, <1>4 DEF IsSocket, SocketFields, States
<1> HIDE DEF t
<1>6. SlotOK(t, host.read, Len(written))
  BY <1>1, <1>2, <1>3, <1>5 DEF SlotOK, OpeningOK, SendOK, FinOK, ReceiveOK, Fin, Opening
<1>7. /\ IsHost(host') /\ host'.sent = host.sent /\ host'.closed = host.closed
      /\ host'.conn = host.conn /\ host'.read = host.read
  BY <1>1, <1>2 DEF IsHost
<1>8. AllToMac(toMac', host, Acked)
  <2>1. {"SYN", "ACK"} \in SUBSET Flags
    BY DEF Flags
  <2>2. /\ p \in Packet /\ p.seq = 1 /\ p.ack = 1 /\ p.seq <= RemoteBytes + 3 /\ p.ack <= Acked
        /\ p.flags = {"SYN", "ACK"} /\ p.data = <<>>
    BY <1>2, <1>3, <2>1, AnyReply
  <2> HIDE DEF p
  <2>3. ToMacOK(p, host, Acked)
    BY <2>2, EmptyReplyOK
  <2>4. QED
    BY <1>1, <1>2, <2>2, <2>3, OneAdded
<1>9. /\ Types' /\ AcksOK' /\ Packets' /\ Ends' /\ SynsFirst' /\ (Fresh' <=> Fresh) /\ Before'
  BY <1>1, <1>2, <1>3, <1>5, <1>7, <1>8, SlotFrame
<1>10. Slot' /\ Called'
  BY <1>1, <1>5, <1>6, <1>7 DEF Slot, Called
<1>11. FreshOK'
  BY <1>1, <1>3, <1>5, <1>7, <1>9 DEF IInv, FreshOK, Opening
<1>12. QED
  BY <1>9, <1>10, <1>11 DEF IInv

LEMMA EventKeeps ==
  ASSUME IInv, Event
  PROVE  IInv'
<1>1. CASE "FD_CONNECT" \in host.event /\ host.conn = "up" /\ sock.state = "LISTEN"
  BY <1>1, EventConnects
<1>2. CASE ~ ("FD_CONNECT" \in host.event /\ host.conn = "up" /\ sock.state = "LISTEN")
  <2>1. /\ sock.in_use /\ toMac' = toMac /\ host' = [host EXCEPT !.event = {}]
        /\ UNCHANGED <<written, early_fin, mac, fromMac>>
        /\ sock' = sock \/ sock' = [sock EXCEPT !.remote_closed = TRUE]
    BY <1>2 DEF Event
  <2>2. /\ IsSocket(sock) /\ SlotOK(sock, host.read, Len(written)) /\ IsHost(host)
        /\ host.read <= host.sent /\ AllToMac(toMac, host, Acked)
        /\ (sock.last_seq_out # 0 => host.read > 0)
    BY <2>1, SlotLimit DEF IInv, Ends
  <2>3. /\ IsSocket(sock')
        /\ sock'.in_use = sock.in_use /\ sock'.state = sock.state
        /\ sock'.accept_more = sock.accept_more
        /\ sock'.seq_in = sock.seq_in /\ sock'.seq_out = sock.seq_out
        /\ sock'.last_seq_out = sock.last_seq_out /\ sock'.shut = sock.shut
        /\ sock'.reads = sock.reads /\ sock'.writes = sock.writes
        /\ sock'.time_wait = sock.time_wait /\ sock'.stalled = sock.stalled
        /\ sock'.mac_ack = sock.mac_ack /\ sock'.bytes_received = sock.bytes_received
        /\ sock'.to_send = sock.to_send /\ sock'.buffers_write = sock.buffers_write
    BY <2>1, <2>2 DEF IsSocket, SocketFields
  <2>4. SlotOK(sock', host.read, Len(written))
    <3>1. SendOK(sock', host.read)
      BY <2>2, <2>3 DEF SlotOK, SendOK
    <3>2. ReceiveOK(sock', Len(written))
      BY <2>2, <2>3 DEF SlotOK, ReceiveOK, Fin
    <3>3. OpeningOK(sock', host.read, Len(written)) /\ FinOK(sock')
      BY <2>2, <2>3 DEF SlotOK, OpeningOK, FinOK
    <3>4. QED
      BY <2>2, <2>3, <3>1, <3>2, <3>3 DEF SlotOK
  <2>5. /\ IsHost(host') /\ host'.sent = host.sent /\ host'.closed = host.closed
        /\ host'.conn = host.conn /\ host'.read = host.read
    BY <2>1, <2>2 DEF IsHost
  <2>6. AllToMac(toMac', host, Acked)
    BY <2>1, <2>2
  <2>7. /\ Types' /\ AcksOK' /\ Packets' /\ Ends' /\ SynsFirst' /\ (Fresh' <=> Fresh) /\ Before'
    BY <2>1, <2>2, <2>3, <2>5, <2>6, SlotFrame
  <2>8. Slot'
    BY <2>1, <2>4, <2>5 DEF Slot
  <2>9. Called' /\ FreshOK'
    BY <2>1, <2>3, <2>5, <2>7 DEF IInv, Called, FreshOK
  <2>10. QED
    BY <2>7, <2>8, <2>9 DEF IInv
<1>3. QED
  BY <1>1, <1>2

\* The last data again; the slot is what it was.
LEMMA ResendKeeps ==
  ASSUME IInv, ResendTimeout, sock.state = "ESTABLISHED"
  PROVE  IInv'
<1> DEFINE s == [sock EXCEPT !.seq_out = sock.last_seq_out]
           d == Sent(s)
           p == d.packet
           data == sock.bytes_received
           t == d.s
<1>1. /\ sock.in_use /\ sock.stalled /\ sock.last_seq_out # 0
      /\ sock' = t /\ toMac' = Enqueued(toMac, <<p>>)
      /\ UNCHANGED <<host, written, early_fin, mac, fromMac>>
  BY DEF ResendTimeout, Resent
<1>2. /\ IsSocket(sock) /\ SlotOK(sock, host.read, Len(written)) /\ IsHost(host)
      /\ host.read \in Nat /\ host.sent \in Nat /\ host.read <= host.sent
      /\ sock.seq_in <= Acked /\ Acked \in Nat /\ AllToMac(toMac, host, Acked)
      /\ (sock.last_seq_out # 0 => host.read > 0)
  BY <1>1, SlotLimit DEF IInv, Ends
<1>3. /\ sock.last_seq_out + Len(data) = sock.seq_out /\ Len(data) <= Segment
      /\ \A i \in 1 .. Len(data) : data[i] = sock.last_seq_out + i - 2
      /\ sock.last_seq_out >= 2 /\ sock.seq_out = host.read + 2
  BY <1>1, <1>2 DEF SlotOK, SendOK
<1>4. /\ data \in Seq(Nat) /\ sock.last_seq_out \in 0 .. RemoteBytes + 3
      /\ sock.seq_in \in 0 .. MacBytes + 2
  BY <1>2 DEF IsSocket
<1>5. /\ s.seq_out = sock.last_seq_out /\ s.bytes_received = data /\ s.seq_in = sock.seq_in
  BY <1>2 DEF IsSocket, SocketFields
<1>6. /\ t = [s EXCEPT !.last_seq_out = s.seq_out, !.seq_out = @ + Len(s.bytes_received)]
      /\ p = [flags |-> {"ACK"}, seq |-> sock.last_seq_out, ack |-> sock.seq_in, data |-> data]
  BY <1>5 DEF Sent
<1>7. s.seq_out + Len(s.bytes_received) = sock.seq_out
  BY <1>3, <1>5
<1> HIDE DEF data, d, t, p
<1>8. /\ IsSocket(t) /\ t.in_use = sock.in_use /\ t.state = sock.state
      /\ t.accept_more = sock.accept_more /\ t.seq_in = sock.seq_in /\ t.seq_out = sock.seq_out
      /\ t.last_seq_out = sock.last_seq_out /\ t.shut = sock.shut /\ t.reads = sock.reads
      /\ t.writes = sock.writes /\ t.time_wait = sock.time_wait /\ t.stalled = sock.stalled
      /\ t.mac_ack = sock.mac_ack /\ t.bytes_received = sock.bytes_received
      /\ t.to_send = sock.to_send /\ t.buffers_write = sock.buffers_write
  BY <1>2, <1>5, <1>6, <1>7 DEF IsSocket, SocketFields
<1> HIDE DEF s
<1>9. SlotOK(t, host.read, Len(written))
  <2>1. SendOK(t, host.read)
    BY <1>2, <1>8 DEF SlotOK, SendOK
  <2>2. ReceiveOK(t, Len(written))
    BY <1>2, <1>8 DEF SlotOK, ReceiveOK, Fin
  <2>3. OpeningOK(t, host.read, Len(written)) /\ FinOK(t)
    BY <1>2, <1>8 DEF SlotOK, OpeningOK, FinOK
  <2>4. QED
    BY <1>2, <1>8, <2>1, <2>2, <2>3 DEF SlotOK
<1>10. AllToMac(toMac', host, Acked)
  <2>1. /\ {"ACK"} \in SUBSET Flags /\ sock.last_seq_out \in 0 .. MacBytes + RemoteBytes + 3
        /\ sock.seq_in \in 0 .. MacBytes + RemoteBytes + 3
        /\ sock.last_seq_out <= RemoteBytes + 3
    BY <1>4, RouterTCPAssumption DEF Flags
  <2>2. /\ p \in Packet /\ p.seq = sock.last_seq_out /\ p.ack = sock.seq_in
        /\ p.flags = {"ACK"} /\ p.data = data
    BY <1>4, <1>6, <2>1 DEF Packet
  <2>3. Len(data) \in Nat
    BY <1>4, LenProperties
  <2>4. p.seq + Len(p.data) <= host.sent + 2
    BY <1>2, <1>3, <2>2
  <2>5. ToMacOK(p, host, Acked)
    BY <1>2, <1>3, <2>1, <2>2, <2>4 DEF ToMacOK
  <2>6. QED
    BY <1>1, <1>2, <2>2, <2>5, OneAdded
<1>11. /\ Types' /\ AcksOK' /\ Packets' /\ Ends' /\ SynsFirst' /\ (Fresh' <=> Fresh) /\ Before'
  BY <1>1, <1>2, <1>8, <1>10, SlotFrame
<1>12. Slot' /\ Called'
  BY <1>1, <1>8, <1>9 DEF Slot, Called
<1>13. FreshOK'
  BY <1>1, <1>8, <1>11 DEF IInv, FreshOK
<1>14. QED
  BY <1>11, <1>12, <1>13 DEF IInv

\* Outside of ESTABLISHED the stall is ended.
LEMMA StallEnds ==
  ASSUME IInv, ResendTimeout, sock.state # "ESTABLISHED"
  PROVE  IInv'
<1> DEFINE t == [sock EXCEPT !.stalled = FALSE]
<1>1. /\ sock.in_use /\ sock' = t /\ toMac' = toMac
      /\ UNCHANGED <<host, written, early_fin, mac, fromMac>>
  BY DEF ResendTimeout
<1>2. /\ IsSocket(sock) /\ SlotOK(sock, host.read, Len(written)) /\ IsHost(host)
      /\ host.read <= host.sent /\ AllToMac(toMac, host, Acked)
      /\ (sock.last_seq_out # 0 => host.read > 0)
  BY <1>1, SlotLimit DEF IInv, Ends
<1>3. /\ IsSocket(t) /\ t.in_use = sock.in_use /\ t.state = sock.state
      /\ t.accept_more = sock.accept_more /\ t.seq_in = sock.seq_in /\ t.seq_out = sock.seq_out
      /\ t.last_seq_out = sock.last_seq_out /\ t.shut = sock.shut /\ t.reads = sock.reads
      /\ t.writes = sock.writes /\ t.time_wait = sock.time_wait /\ ~ t.stalled
      /\ t.mac_ack = sock.mac_ack /\ t.bytes_received = sock.bytes_received
      /\ t.to_send = sock.to_send /\ t.buffers_write = sock.buffers_write
  BY <1>2 DEF IsSocket, SocketFields
<1> HIDE DEF t
<1>4. SlotOK(t, host.read, Len(written))
  <2>1. SendOK(t, host.read)
    BY <1>2, <1>3 DEF SlotOK, SendOK
  <2>2. ReceiveOK(t, Len(written))
    BY <1>2, <1>3 DEF SlotOK, ReceiveOK, Fin
  <2>3. OpeningOK(t, host.read, Len(written)) /\ FinOK(t)
    BY <1>2, <1>3 DEF SlotOK, OpeningOK, FinOK
  <2>4. QED
    BY <1>2, <1>3, <2>1, <2>2, <2>3 DEF SlotOK
<1>5. /\ Types' /\ AcksOK' /\ Packets' /\ Ends' /\ SynsFirst' /\ (Fresh' <=> Fresh) /\ Before'
  BY <1>1, <1>2, <1>3, SlotFrame
<1>6. Slot' /\ Called'
  BY <1>1, <1>3, <1>4 DEF IInv, Slot, Called
<1>7. FreshOK'
  BY <1>1, <1>3, <1>5 DEF IInv, FreshOK
<1>8. QED
  BY <1>5, <1>6, <1>7 DEF IInv

\* A remote host connects to the Mac.
LEMMA AcceptKeeps ==
  ASSUME IInv, tcp_accept_callback
  PROVE  IInv'
<1> DEFINE s0 == alloc_socket(sock)
           s == [s0 EXCEPT !.mac_ack = 1]
           t == [s EXCEPT !.seq_out = 2, !.state = "SYN_SENT", !.time_wait = TRUE]
           p == Reply(s, {"SYN"})
<1>1. /\ mac.st = "listen" /\ host.conn = "none" /\ sock' = t
      /\ toMac' = Enqueued(toMac, <<p>>) /\ host' = [host EXCEPT !.conn = "up"]
      /\ UNCHANGED <<written, early_fin, mac, fromMac>>
  BY DEF tcp_accept_callback
<1>2. /\ IsSocket(sock) /\ IsHost(host) /\ host.read <= host.sent
      /\ AllToMac(toMac, host, Acked) /\ Acked \in Nat /\ Len(written) + 1 <= Acked
      /\ Len(written) \in Nat
      /\ (sock.last_seq_out # 0 => host.read > 0) /\ host.read \in Nat /\ host.sent \in Nat
  BY Limit, RouterTCPAssumption DEF IInv, Types, Ends, Packets, IsHost
<1>3. /\ ~ sock.in_use /\ toMac = <<>> /\ host.sent = 0 /\ host.read = 0
      /\ fromMac = <<>> /\ sock.last_seq_out = 0
  BY <1>1, <1>2 DEF IInv, Before, Ends
<1>4. Fresh /\ written = <<>> /\ Len(written) = 0
  <2>1. Fresh
    BY <1>1 DEF Fresh, NotOpenYet
  <2>2. QED
    BY <2>1, EmptySeq DEF IInv, FreshOK
<1>5. 1 \in 0 .. RemoteBytes + 3 /\ 2 \in 0 .. RemoteBytes + 3
  BY RouterTCPAssumption
<1>6. /\ IsSocket(s0) /\ s0.in_use /\ s0.last_seq_out = 0 /\ ~ s0.stalled /\ ~ s0.accept_more
      /\ ~ s0.shut /\ s0.reads = 0 /\ s0.writes = 0 /\ s0.seq_in = 0 /\ s0.seq_out = 1
  BY <1>2, <1>3, AllocFacts
<1> HIDE DEF s0
<1>7. /\ IsSocket(s) /\ s.in_use /\ s.last_seq_out = 0 /\ ~ s.stalled /\ ~ s.accept_more
      /\ ~ s.shut /\ s.reads = 0 /\ s.writes = 0 /\ s.seq_in = 0 /\ s.seq_out = 1 /\ s.mac_ack = 1
  BY <1>5, <1>6 DEF IsSocket, SocketFields
<1> HIDE DEF s
<1>8. /\ IsSocket(t) /\ t.in_use /\ t.last_seq_out = 0 /\ ~ t.stalled /\ ~ t.accept_more
      /\ ~ t.shut /\ t.reads = 0 /\ t.writes = 0 /\ t.seq_in = 0 /\ t.seq_out = 2 /\ t.mac_ack = 1
      /\ t.state = "SYN_SENT"
  BY <1>5, <1>7 DEF IsSocket, SocketFields, States
<1> HIDE DEF t
<1>9. SlotOK(t, 0, 0)
  BY <1>8 DEF SlotOK, OpeningOK, SendOK, FinOK, ReceiveOK, Fin
<1>10. /\ IsHost(host') /\ host'.sent = host.sent /\ host'.closed = host.closed
       /\ host'.conn = "up" /\ host'.read = host.read
  BY <1>1, <1>2 DEF IsHost
<1>11. SynsFirst' /\ (Fresh' <=> Fresh) /\ AllFromMac(fromMac', mac'.fin)
  BY <1>1, MacSame
<1>12. Types' /\ Ends'
  BY <1>1, <1>2, <1>3, <1>8, <1>10 DEF IInv, Types, Ends
<1>13. (Excused' <=> Excused) /\ Acked' = Acked
  BY <1>1 DEF Acked, Excused, FinDone
<1>14. AcksOK'
  BY <1>1, <1>8, <1>13 DEF IInv, AcksOK
<1>15. p \in Packet /\ p.flags = {"SYN"} /\ ToMacOK(p, host', Acked')
  <2>1. {"SYN"} \in SUBSET Flags
    BY DEF Flags
  <2>2. /\ p \in Packet /\ p.seq = 1 /\ p.ack = 0 /\ p.seq <= RemoteBytes + 3
        /\ p.flags = {"SYN"} /\ p.data = <<>>
    BY <1>7, <2>1, AnyReply
  <2> HIDE DEF p
  <2>3. "FIN" \notin p.flags /\ "ACK" \notin p.flags
    BY <2>2
  <2>4. p.ack <= Acked'
    BY <1>2, <1>13, <2>2
  <2>5. QED
    BY <2>2, <2>3, <2>4, EmptyReplyOK
<1>16. Packets'
  <2>1. host.sent <= host'.sent /\ Acked <= Acked' /\ Acked' \in Nat
    BY <1>2, <1>10, <1>13
  <2>2. AllToMac(toMac, host', Acked')
    BY <1>2, <1>10, <2>1, ToMacLasts
  <2> HIDE DEF p
  <2>3. AllToMac(toMac', host', Acked')
    BY <1>1, <1>15, <2>2, OneAdded
  <2>4. QED
    BY <1>11, <2>3 DEF Packets
<1>17. Slot'
  BY <1>1, <1>3, <1>4, <1>9, <1>10 DEF Slot
<1>18. FreshOK'
  BY <1>1, <1>3, <1>4, <1>8, <1>10 DEF FreshOK, Opening
<1>19. Before'
  BY <1>10 DEF Before
<1>20. Called'
  <2>1. \A i \in 1 .. Len(toMac') : toMac'[i].flags = {"SYN"}
    <3> DEFINE out == <<p>>
               none == <<>>
    <3>1. out \in Seq(Packet) /\ Len(out) = 1 /\ out[1] = p
      BY <1>15
    <3>2. none \in Seq(Packet) /\ Len(none) = 0
      OBVIOUS
    <3>3. toMac' = Enqueued(none, out)
      BY <1>1, <1>3
    <3> HIDE DEF p, out, none
    <3>4. \A i \in 1 .. Len(Enqueued(none, out)) :
            \/ \E j \in 1 .. Len(none) : Enqueued(none, out)[i] = none[j]
            \/ \E j \in 1 .. Len(out) : Enqueued(none, out)[i] = out[j]
      BY <3>1, <3>2, EnqueuedFacts
    <3>5. \A i \in 1 .. Len(Enqueued(none, out)) : Enqueued(none, out)[i] = p
      BY <3>1, <3>2, <3>4
    <3>6. QED
      BY <1>15, <3>3, <3>5
  <2>2. Len(fromMac') = 0
    BY <1>1, <1>3, EmptySeq
  <2>3. \A i \in 1 .. Len(fromMac') : fromMac'[i].flags = {"SYN", "ACK"}
    BY <2>2
  <2>4. QED
    BY <1>1, <2>1, <2>3 DEF Called
<1>21. QED
  BY <1>11, <1>12, <1>14, <1>16, <1>17, <1>18, <1>19, <1>20 DEF IInv

-----------------------------------------------------------------------------
(* The remote host.                                                        *)

LEMMA RemoteKeeps ==
  ASSUME IInv, UNCHANGED <<sock, written, early_fin, mac, toMac, fromMac>>,
         IsHost(host'), host'.read = host.read, host'.conn # "none",
         host.sent <= host'.sent, host.closed => host'.closed /\ host'.sent = host.sent
  PROVE  IInv'
<1>1. /\ IsHost(host) /\ Acked \in Nat /\ AllToMac(toMac, host, Acked)
  BY Limit DEF IInv, Types, Packets
<1>2. Types'
  BY DEF IInv, Types
<1>3. Ends'
  <2>1. /\ host.read \in Nat /\ host.sent \in Nat /\ host'.sent \in Nat /\ mac.rcv \in Nat
        /\ host.read <= host.sent /\ mac.rcv <= host.sent + 3
    BY <1>1, RouterTCPAssumption DEF IInv, Types, Ends, IsHost, IsMac
  <2>2. host'.read <= host'.sent /\ mac'.rcv <= host'.sent + 3
    BY <2>1
  <2>3. QED
    BY <2>2 DEF IInv, Ends
<1>4. (Excused' <=> Excused) /\ Acked' = Acked
  BY DEF Acked, Excused, FinDone
<1>5. AcksOK'
  BY <1>4 DEF IInv, AcksOK
<1>6. SynsFirst' /\ (Fresh' <=> Fresh) /\ AllFromMac(fromMac', mac'.fin)
  BY MacSame
<1>7. Packets'
  <2>1. Acked <= Acked' /\ Acked' \in Nat
    BY <1>1, <1>4
  <2>2. AllToMac(toMac, host', Acked')
    BY <1>1, <2>1, ToMacLasts
  <2>3. QED
    BY <1>6, <2>2 DEF Packets
<1>8. Slot' /\ Called'
  BY DEF IInv, Slot, Called
<1>9. FreshOK' /\ Before'
  BY <1>6 DEF IInv, FreshOK, Before
<1>10. QED
  BY <1>2, <1>3, <1>5, <1>6, <1>7, <1>8, <1>9 DEF IInv

LEMMA RemoteSteps ==
  ASSUME IInv, Remote
  PROVE  IInv'
<1>1. IsHost(host) /\ host.sent \in Nat /\ host.sent <= RemoteBytes
  BY RouterTCPAssumption DEF IInv, Types, IsHost
<1>2. CASE Connected
  <2>1. PICK conn \in {"up", "failed"} : host' = [host EXCEPT !.conn = conn, !.event = {"FD_CONNECT"}]
    BY <1>2 DEF Connected
  <2>2. /\ IsHost(host') /\ host'.read = host.read /\ host'.conn # "none"
        /\ host'.sent = host.sent /\ host'.closed = host.closed
    BY <1>1, <2>1 DEF IsHost
  <2>3. host.sent <= host'.sent /\ UNCHANGED <<sock, written, early_fin, mac, toMac, fromMac>>
    BY <1>1, <1>2, <2>2 DEF Connected
  <2>4. QED
    BY <2>2, <2>3, RemoteKeeps
<1>3. CASE RemoteSends
  <2>1. /\ host.conn = "up" /\ ~ host.closed /\ host.sent < RemoteBytes
        /\ host' = [host EXCEPT !.sent = @ + 1]
        /\ UNCHANGED <<sock, written, early_fin, mac, toMac, fromMac>>
    BY <1>3 DEF RemoteSends
  <2>2. host.sent + 1 \in 0 .. RemoteBytes /\ host.sent <= host.sent + 1
    BY <1>1, <2>1, RouterTCPAssumption
  <2>3. /\ IsHost(host') /\ host'.read = host.read /\ host'.conn = "up"
        /\ host'.sent = host.sent + 1
    BY <1>1, <2>1, <2>2 DEF IsHost
  <2>4. QED
    BY <2>1, <2>2, <2>3, RemoteKeeps
<1>4. CASE RemoteCloses
  <2>1. PICK conn \in {"up", "reset"} :
          host' = [host EXCEPT !.closed = TRUE, !.conn = conn, !.event = @ \union {"FD_CLOSE"}]
    BY <1>4 DEF RemoteCloses
  <2>2. host.event \union {"FD_CLOSE"} \subseteq {"FD_CONNECT", "FD_CLOSE"}
    BY <1>1 DEF IsHost
  <2>3. /\ IsHost(host') /\ host'.read = host.read /\ host'.conn # "none"
        /\ host'.sent = host.sent /\ host'.closed
    BY <1>1, <2>1, <2>2 DEF IsHost
  <2>4. host.sent <= host'.sent /\ UNCHANGED <<sock, written, early_fin, mac, toMac, fromMac>>
    BY <1>1, <1>4, <2>3 DEF RemoteCloses
  <2>5. QED
    BY <2>3, <2>4, RemoteKeeps
<1>5. QED
  BY <1>2, <1>3, <1>4 DEF Remote

-----------------------------------------------------------------------------
(* The Mac.                                                                *)

LEMMA AppendFacts ==
  ASSUME NEW q \in Seq(Packet), NEW p \in Packet
  PROVE  /\ Append(q, p) \in Seq(Packet) /\ Len(Append(q, p)) = Len(q) + 1 /\ Len(q) \in Nat
         /\ \A i \in 1 .. Len(q) : Append(q, p)[i] = q[i]
         /\ Append(q, p)[Len(q) + 1] = p
BY AppendProperties, LenProperties

LEMMA MacSendsKeeps ==
  ASSUME IInv, NEW p \in Packet, Len(fromMac) < Queue, fromMac' = Append(fromMac, p),
         UNCHANGED <<sock, host, written, early_fin, toMac>>, IsMac(mac'), Ends',
         FromMacOK(p, mac'.fin), mac'.una = mac.una, mac'.fin = mac.fin \/ mac.fin = 0,
         "SYN" \in p.flags => mac.st \in NotOpenYet,
         mac'.st \in NotOpenYet => "SYN" \in p.flags,
         sock.in_use /\ sock.state = "SYN_SENT" =>
           mac'.st \in {"listen", "synrcvd"} /\ p.flags = {"SYN", "ACK"},
         host.conn = "none" => mac'.st \in {"idle", "listen", "syn"}
  PROVE  IInv'
<1>0. PICK n \in Nat : n = Len(fromMac)
  BY LenProperties DEF IInv, Packets, AllFromMac
<1>1. fromMac \in Seq(Packet) /\ \A i \in 1 .. n : FromMacOK(fromMac[i], mac.fin)
  BY <1>0 DEF IInv, Packets, AllFromMac
<1>2. /\ fromMac' \in Seq(Packet) /\ Len(fromMac') = n + 1 /\ n \in Nat
      /\ \A i \in 1 .. n : fromMac'[i] = fromMac[i]
      /\ fromMac'[n + 1] = p
  BY <1>0, <1>1, AppendFacts
<1>3. \A i \in 1 .. n : HasSyn(i)' <=> HasSyn(i)
  BY <1>2 DEF HasSyn
<1>4. HasSyn(n + 1)' <=> "SYN" \in p.flags
  BY <1>2 DEF HasSyn
<1>5. \A i \in 1 .. n + 1 : i \in 1 .. n \/ i = n + 1
  BY <1>2
<1>6. mac.st \in NotOpenYet => \A i \in 1 .. n : HasSyn(i)
  BY <1>0 DEF IInv, SynsFirst
<1>7. Fresh' => Fresh
  <2>1. ASSUME NEW i \in 1 .. n + 1, HasSyn(i)'
        PROVE  Fresh
    BY <1>3, <1>4, <1>5, <2>1, <1>0 DEF Fresh
  <2>2. mac'.st \in NotOpenYet => Fresh
    BY DEF Fresh
  <2>3. QED
    BY <1>2, <2>1, <2>2 DEF Fresh
<1>8. SynsFirst'
  <2>1. ASSUME mac'.st \in NotOpenYet, NEW i \in 1 .. n + 1
        PROVE  HasSyn(i)'
    BY <1>3, <1>4, <1>5, <1>6, <2>1
  <2>2. ASSUME NEW j \in 1 .. n + 1, HasSyn(j)', NEW i \in 1 .. j
        PROVE  HasSyn(i)'
    <3>1. CASE j = n + 1
      <4>1. "SYN" \in p.flags /\ \A k \in 1 .. n : HasSyn(k)
        BY <1>4, <1>6, <2>2, <3>1
      <4>2. i \in 1 .. n \/ i = n + 1
        BY <1>5, <3>1
      <4>3. QED
        BY <1>3, <1>4, <4>1, <4>2
    <3>2. CASE j # n + 1
      <4>1. j \in 1 .. n /\ i \in 1 .. n
        BY <1>2, <3>2
      <4>2. HasSyn(j) /\ i \in 1 .. j
        BY <1>3, <2>2, <4>1
      <4>3. HasSyn(i)
        BY <4>1, <4>2, <1>0 DEF IInv, SynsFirst
      <4>4. QED
        BY <1>3, <4>1, <4>3
    <3>3. QED
      BY <3>1, <3>2
  <2>3. QED
    BY <1>2, <2>1, <2>2 DEF SynsFirst
<1>9. AllFromMac(fromMac', mac'.fin)
  <2>1. ASSUME NEW i \in 1 .. n
        PROVE  FromMacOK(fromMac'[i], mac'.fin)
    <3>1. FromMacOK(fromMac[i], mac.fin) /\ fromMac'[i] = fromMac[i]
      BY <1>1, <1>0, <1>2
    <3>2. CASE mac'.fin = mac.fin
      BY <3>1, <3>2
    <3>3. CASE mac.fin = 0
      <4>1. "FIN" \notin fromMac[i].flags
        BY <3>1, <3>3 DEF FromMacOK
      <4>2. QED
        BY <3>1, <4>1 DEF FromMacOK
    <3>4. QED
      BY <3>2, <3>3
  <2>2. \A i \in 1 .. n + 1 : FromMacOK(fromMac'[i], mac'.fin)
    BY <1>2, <1>5, <2>1
  <2>3. n + 1 <= Queue
    BY <1>2, <1>0, RouterTCPAssumption
  <2>4. QED
    BY <1>2, <2>2, <2>3 DEF AllFromMac
<1>10. Types'
  BY DEF IInv, Types
<1>11. Excused => Excused'
  BY DEF Excused, FinDone
<1>12. Acked <= Acked' /\ Acked' \in Nat /\ Acked \in Nat
  <2>1. Acked \in Nat /\ Acked <= MacBytes + 2 /\ Len(written) + 1 <= Acked /\ Len(written) \in Nat
    BY Limit DEF IInv
  <2>2. Acked' = IF Excused' THEN MacBytes + 2 ELSE Len(written) + 1
    BY DEF Acked
  <2>3. Acked = IF Excused THEN MacBytes + 2 ELSE Len(written) + 1
    BY DEF Acked
  <2>4. QED
    BY <1>11, <2>1, <2>2, <2>3, RouterTCPAssumption
<1>13. AcksOK'
  <2>1. mac.una <= Acked /\ mac.una \in 0 .. MacBytes + 2
    BY DEF IInv, AcksOK, Types, IsMac
  <2>2. mac'.una <= Acked'
    BY <1>12, <2>1, RouterTCPAssumption
  <2>3. sock'.in_use /\ sock'.shut => Excused'
    BY <1>11 DEF IInv, AcksOK
  <2>4. QED
    BY <2>2, <2>3 DEF AcksOK
<1>14. Packets'
  <2>1. IsHost(host) /\ AllToMac(toMac, host, Acked) /\ host.sent <= host.sent
    BY RouterTCPAssumption DEF IInv, Types, Packets, IsHost
  <2>2. AllToMac(toMac, host, Acked')
    BY <1>12, <2>1, ToMacLasts
  <2>3. QED
    BY <1>9, <2>2 DEF Packets
<1>15. Slot' /\ FreshOK'
  BY <1>7 DEF IInv, Slot, FreshOK
<1>16. Before'
  BY DEF IInv, Before
<1>17. Called'
  <2> SUFFICES ASSUME sock.in_use, sock.state = "SYN_SENT"
               PROVE  Called'
    BY DEF Called
  <2>1. /\ \A i \in 1 .. Len(toMac) : toMac[i].flags = {"SYN"}
        /\ \A i \in 1 .. n : fromMac[i].flags = {"SYN", "ACK"}
    BY <1>0 DEF IInv, Called
  <2>2. \A i \in 1 .. n + 1 : fromMac'[i].flags = {"SYN", "ACK"}
    BY <1>2, <1>5, <2>1
  <2>3. QED
    BY <1>2, <2>1, <2>2 DEF Called
<1>18. QED
  BY <1>8, <1>10, <1>13, <1>14, <1>15, <1>16, <1>17 DEF IInv

\* The packet of an action MacSends.
LEMMA MacPacketFacts ==
  ASSUME IInv, NEW flags \in SUBSET Flags, NEW seq \in 0 .. MacBytes + 2, NEW data \in Seq(Nat)
  PROVE  /\ MacPacket(flags, seq, data) \in Packet /\ MacPacket(flags, seq, data).flags = flags
         /\ MacPacket(flags, seq, data).seq = seq /\ MacPacket(flags, seq, data).data = data
         /\ MacPacket(flags, seq, data).ack = mac.rcv /\ mac.rcv <= RemoteBytes + 3
<1>1. mac.rcv \in 0 .. RemoteBytes + 3
  BY DEF IInv, Types, IsMac
<1>2. /\ mac.rcv \in 0 .. MacBytes + RemoteBytes + 3 /\ mac.rcv <= RemoteBytes + 3
      /\ seq \in 0 .. MacBytes + RemoteBytes + 3
  BY <1>1, RouterTCPAssumption
<1>3. QED
  BY <1>2 DEF MacPacket, Packet

\* An open Mac's packet without data: an acknowledgement, FIN or reset.
LEMMA EmptyFromMacOK ==
  ASSUME NEW p \in Packet, NEW fin, p.data = <<>>, p.seq <= MacBytes + 2,
         p.ack <= RemoteBytes + 3,
         "SYN" \in p.flags => p.seq = 0 /\ p.ack <= 2 /\ "FIN" \notin p.flags /\ "RST" \notin p.flags,
         "FIN" \in p.flags => fin # 0 /\ p.seq = fin
  PROVE  FromMacOK(p, fin)
<1>1. Len(p.data) = 0 /\ p.seq \in Nat
  BY EmptySeq, RouterTCPAssumption DEF Packet
<1>2. p.data = Bytes(p.seq, Len(p.data))
  BY <1>1, NoBytes
<1>3. QED
  BY <1>1, <1>2, RouterTCPAssumption DEF FromMacOK

\* The Mac's numbers after a packet that it sends.
LEMMA MacEnds ==
  ASSUME Ends, IsMac(mac), UNCHANGED <<sock, host, written>>,
         mac'.una = mac.una, mac'.rcv = mac.rcv, mac'.una <= mac'.nxt,
         mac'.fin # 0 => mac'.nxt = mac'.fin + 1,
         mac'.fin = 0 => mac'.nxt <= MacBytes + 1,
         mac'.st \notin {"idle", "listen"},
         mac'.st = "syn" => mac'.nxt = 1 /\ mac'.una = 0 /\ mac'.rcv = 0 /\ mac'.fin = 0,
         mac'.st = "synrcvd" => mac'.nxt = 1 /\ mac'.una = 0 /\ mac'.rcv = 2 /\ mac'.fin = 0,
         mac'.st = "open" =>
           /\ mac'.una >= 1
           /\ (IF mac'.fin = 0 THEN mac'.nxt ELSE mac'.fin) - mac'.una <= Segment
  PROVE  Ends'
BY DEF Ends

LEMMA MacOpensKeeps ==
  ASSUME IInv, MacOpens
  PROVE  IInv'
<1> DEFINE p == MacPacket({"SYN"}, 0, <<>>)
<1>1. /\ mac.st = "idle" /\ Len(fromMac) < Queue /\ fromMac' = Append(fromMac, p)
      /\ mac' = [[mac EXCEPT !.st = "syn", !.nxt = 1] EXCEPT !.ackdue = FALSE]
      /\ UNCHANGED <<sock, host, written, early_fin, toMac>>
  BY DEF MacOpens, MacSends
<1>2. IsMac(mac) /\ Ends
  BY DEF IInv, Types
<1>3. mac.nxt = 0 /\ mac.rcv = 0 /\ mac.fin = 0 /\ mac.una = 0
  BY <1>1, <1>2 DEF Ends, IsMac
<1>4. 1 \in 0 .. MacBytes + 2 /\ 0 \in 0 .. MacBytes + 2 /\ <<>> \in Seq(Nat)
      /\ {"SYN"} \in SUBSET Flags
  BY RouterTCPAssumption DEF Flags
<1>5. /\ IsMac(mac') /\ mac'.st = "syn" /\ mac'.nxt = 1 /\ mac'.una = 0 /\ mac'.rcv = 0
      /\ mac'.fin = 0
  BY <1>1, <1>2, <1>3, <1>4 DEF IsMac
<1>6. Ends'
  BY <1>1, <1>2, <1>3, <1>5, RouterTCPAssumption, MacEnds
<1>7. /\ p \in Packet /\ p.flags = {"SYN"} /\ p.seq = 0 /\ p.data = <<>> /\ p.ack = 0
  <2> DEFINE flags == {"SYN"}
             data == <<>>
  <2>1. flags \in SUBSET Flags /\ data \in Seq(Nat) /\ p = MacPacket(flags, 0, data)
    BY <1>4
  <2> HIDE DEF flags, data
  <2>2. p \in Packet /\ p.flags = flags /\ p.seq = 0 /\ p.data = data /\ p.ack = mac.rcv
    <3> HIDE DEF p
    <3>1. QED
      BY <1>4, <2>1, MacPacketFacts
  <2>3. QED
    BY <1>3, <2>2 DEF flags, data
<1> HIDE DEF p
<1>8. FromMacOK(p, mac'.fin)
  BY <1>7, RouterTCPAssumption, EmptyFromMacOK
<1>9. ~ (sock.in_use /\ sock.state = "SYN_SENT")
  BY <1>1 DEF IInv, Called
<1>10. QED
  BY <1>1, <1>3, <1>5, <1>6, <1>7, <1>8, <1>9, MacSendsKeeps DEF NotOpenYet

\* The Mac's end of an open connection: it is not being opened.
LEMMA OpenFacts ==
  ASSUME IInv, mac.st = "open"
  PROVE  /\ IsMac(mac) /\ Ends /\ mac.una >= 1 /\ mac.una <= mac.nxt
         /\ mac.una \in Nat /\ mac.nxt \in Nat /\ mac.nxt <= MacBytes + 2
         /\ mac.fin # 0 => mac.nxt = mac.fin + 1
         /\ mac.fin = 0 => mac.nxt <= MacBytes + 1
         /\ (IF mac.fin = 0 THEN mac.nxt ELSE mac.fin) - mac.una <= Segment
         /\ ~ (sock.in_use /\ sock.state = "SYN_SENT") /\ host.conn # "none"
         /\ mac.st \notin NotOpenYet
<1>1. IsMac(mac) /\ Ends
  BY DEF IInv, Types
<1>2. mac.una \in Nat /\ mac.nxt \in Nat /\ mac.nxt <= MacBytes + 2
  BY <1>1, RouterTCPAssumption DEF IsMac
<1>3. /\ mac.una >= 1 /\ mac.una <= mac.nxt
      /\ mac.fin # 0 => mac.nxt = mac.fin + 1
      /\ mac.fin = 0 => mac.nxt <= MacBytes + 1
      /\ (IF mac.fin = 0 THEN mac.nxt ELSE mac.fin) - mac.una <= Segment
  BY <1>1 DEF Ends
<1>4. /\ ~ (sock.in_use /\ sock.state = "SYN_SENT") /\ host.conn # "none"
      /\ mac.st \notin NotOpenYet
  BY DEF IInv, Called, Before, NotOpenYet
<1>5. QED
  BY <1>1, <1>2, <1>3, <1>4

LEMMA MacSendsDataKeeps ==
  ASSUME IInv, MacSendsData
  PROVE  IInv'
<1>1. mac.st = "open" /\ mac.fin = 0
  BY DEF MacSendsData
<1>2. PICK n \in 1 .. Segment, fin \in BOOLEAN :
        /\ mac.nxt + n <= MacBytes + 1
        /\ mac.nxt + n - mac.una <= Segment
        /\ MacSends(MacPacket(IF fin THEN {"ACK", "FIN"} ELSE {"ACK"}, mac.nxt,
                              Bytes(mac.nxt, n)),
                    [mac EXCEPT !.nxt = @ + n + (IF fin THEN 1 ELSE 0),
                                !.fin = IF fin THEN mac.nxt + n ELSE 0])
  BY DEF MacSendsData
<1> DEFINE flags == IF fin THEN {"ACK", "FIN"} ELSE {"ACK"}
           data == Bytes(mac.nxt, n)
           p == MacPacket(flags, mac.nxt, data)
           nxt == mac.nxt + n + (IF fin THEN 1 ELSE 0)
           end == IF fin THEN mac.nxt + n ELSE 0
<1>3. /\ Len(fromMac) < Queue /\ fromMac' = Append(fromMac, p)
      /\ mac' = [[mac EXCEPT !.nxt = nxt, !.fin = end] EXCEPT !.ackdue = FALSE]
      /\ UNCHANGED <<sock, host, written, early_fin, toMac>>
  <2>1. IsMac(mac)
    BY <1>1, OpenFacts
  <2>2. QED
    BY <1>2, <2>1 DEF MacSends, IsMac
<1>4. /\ IsMac(mac) /\ Ends /\ mac.una >= 1 /\ mac.una <= mac.nxt
      /\ mac.una \in Nat /\ mac.nxt \in Nat
      /\ ~ (sock.in_use /\ sock.state = "SYN_SENT") /\ host.conn # "none"
      /\ mac.st \notin NotOpenYet
  BY <1>1, OpenFacts
<1>5. n \in Nat \ {0} /\ n <= Segment /\ mac.nxt \in Nat \ {0}
  BY <1>4, RouterTCPAssumption
<1>6. /\ nxt \in 0 .. MacBytes + 2 /\ end \in 0 .. MacBytes + 1 /\ mac.una <= nxt
      /\ end # 0 => nxt = end + 1 /\ end - mac.una <= Segment
      /\ end = 0 => nxt <= MacBytes + 1 /\ nxt - mac.una <= Segment
      /\ (fin => end # 0) /\ mac.nxt <= MacBytes + 2
      /\ mac.nxt \in 0 .. MacBytes + 2
  <2>1. CASE fin
    BY <1>2, <1>4, <1>5, <2>1, RouterTCPAssumption
  <2>2. CASE ~ fin
    BY <1>2, <1>4, <1>5, <2>2, RouterTCPAssumption
  <2>3. QED
    BY <2>1, <2>2
<1>7. data \in Seq(Nat) /\ Len(data) = n /\ data # <<>>
  BY <1>5, BytesFacts
<1>8. flags \in SUBSET Flags /\ "SYN" \notin flags /\ ("FIN" \in flags => fin)
  BY DEF Flags
<1>9. /\ p \in Packet /\ p.flags = flags /\ p.seq = mac.nxt /\ p.data = data
      /\ p.ack <= RemoteBytes + 3
  <2> HIDE DEF flags, data
  <2>1. QED
    BY <1>6, <1>7, <1>8, MacPacketFacts
<1> HIDE DEF p, flags, nxt, end
<1>10. /\ IsMac(mac') /\ mac'.st = "open" /\ mac'.nxt = nxt /\ mac'.una = mac.una
       /\ mac'.rcv = mac.rcv /\ mac'.fin = end
  BY <1>1, <1>3, <1>4, <1>6 DEF IsMac
<1>11. Ends'
  BY <1>3, <1>4, <1>6, <1>10, MacEnds
<1>12. FromMacOK(p, mac'.fin)
  <2>1. p.data = Bytes(p.seq, Len(p.data)) /\ Len(p.data) <= Segment
    BY <1>5, <1>7, <1>9
  <2>2. p.seq >= 1 /\ p.seq + Len(p.data) <= MacBytes + 1 /\ p.seq <= MacBytes + 2
    BY <1>2, <1>5, <1>6, <1>7, <1>9
  <2>3. "SYN" \notin p.flags /\ ("FIN" \in p.flags => mac'.fin # 0) /\ p.data # <<>>
    BY <1>6, <1>7, <1>8, <1>9, <1>10
  <2>4. QED
    BY <1>9, <2>1, <2>2, <2>3 DEF FromMacOK
<1>13. QED
  BY <1>1, <1>3, <1>4, <1>8, <1>9, <1>10, <1>11, <1>12, MacSendsKeeps DEF NotOpenYet

\* A packet without data.
LEMMA EmptyPacket ==
  ASSUME IInv, NEW flags \in SUBSET Flags, NEW seq \in 0 .. MacBytes + 2
  PROVE  /\ MacPacket(flags, seq, <<>>) \in Packet /\ MacPacket(flags, seq, <<>>).flags = flags
         /\ MacPacket(flags, seq, <<>>).seq = seq /\ MacPacket(flags, seq, <<>>).data = <<>>
         /\ MacPacket(flags, seq, <<>>).ack = mac.rcv /\ mac.rcv <= RemoteBytes + 3
<1> DEFINE data == <<>>
<1>1. data \in Seq(Nat)
  OBVIOUS
<1> HIDE DEF data
<1>2. /\ MacPacket(flags, seq, data) \in Packet /\ MacPacket(flags, seq, data).flags = flags
      /\ MacPacket(flags, seq, data).seq = seq /\ MacPacket(flags, seq, data).data = data
      /\ MacPacket(flags, seq, data).ack = mac.rcv /\ mac.rcv <= RemoteBytes + 3
  BY <1>1, MacPacketFacts
<1>3. QED
  BY <1>2 DEF data

LEMMA MacSendsFinKeeps ==
  ASSUME IInv, MacSendsFin
  PROVE  IInv'
<1> DEFINE flags == {"ACK", "FIN"}
           p == MacPacket(flags, mac.nxt, <<>>)
<1>1. /\ mac.st = "open" /\ mac.fin = 0 /\ Len(fromMac) < Queue /\ fromMac' = Append(fromMac, p)
      /\ mac' = [[mac EXCEPT !.fin = mac.nxt, !.nxt = @ + 1] EXCEPT !.ackdue = FALSE]
      /\ UNCHANGED <<sock, host, written, early_fin, toMac>>
  BY DEF MacSendsFin, MacSends
<1>2. /\ IsMac(mac) /\ Ends /\ mac.una >= 1 /\ mac.una <= mac.nxt
      /\ mac.una \in Nat /\ mac.nxt \in Nat /\ mac.nxt <= MacBytes + 1
      /\ (IF mac.fin = 0 THEN mac.nxt ELSE mac.fin) - mac.una <= Segment
      /\ ~ (sock.in_use /\ sock.state = "SYN_SENT") /\ host.conn # "none"
      /\ mac.st \notin NotOpenYet
  BY <1>1, OpenFacts
<1>3. mac.nxt + 1 \in 0 .. MacBytes + 2 /\ mac.nxt \in 0 .. MacBytes + 1 /\ mac.nxt # 0
      /\ mac.nxt \in 0 .. MacBytes + 2 /\ mac.nxt - mac.una <= Segment /\ mac.una <= mac.nxt + 1
  BY <1>1, <1>2, RouterTCPAssumption
<1>4. /\ IsMac(mac') /\ mac'.st = "open" /\ mac'.nxt = mac.nxt + 1 /\ mac'.una = mac.una
      /\ mac'.rcv = mac.rcv /\ mac'.fin = mac.nxt
  BY <1>1, <1>2, <1>3 DEF IsMac
<1>5. Ends'
  BY <1>1, <1>2, <1>3, <1>4, MacEnds
<1>6. flags \in SUBSET Flags /\ "SYN" \notin flags
  BY DEF Flags
<1> HIDE DEF flags
<1>7. /\ p \in Packet /\ p.flags = flags /\ p.seq = mac.nxt /\ p.data = <<>>
      /\ p.ack <= RemoteBytes + 3
  BY <1>3, <1>6, EmptyPacket
<1> HIDE DEF p
<1>8. p.seq <= MacBytes + 2 /\ p.seq = mac'.fin /\ mac'.fin # 0
  BY <1>3, <1>4, <1>7
<1>9. FromMacOK(p, mac'.fin)
  BY <1>6, <1>7, <1>8, EmptyFromMacOK
<1>10. QED
  BY <1>1, <1>2, <1>4, <1>5, <1>6, <1>7, <1>9, MacSendsKeeps DEF NotOpenYet

\* An acknowledgement, or a reset.
LEMMA MacAnswers ==
  ASSUME IInv, NEW flags \in SUBSET {"ACK", "RST"}, mac.st = "open", Len(fromMac) < Queue,
         fromMac' = Append(fromMac, MacPacket(flags, mac.nxt, <<>>)),
         UNCHANGED <<sock, host, written, early_fin, toMac>>,
         NEW st \in {"open", "reset"}, mac' = [[mac EXCEPT !.st = st] EXCEPT !.ackdue = FALSE]
  PROVE  IInv'
<1> DEFINE p == MacPacket(flags, mac.nxt, <<>>)
<1>1. /\ IsMac(mac) /\ Ends /\ mac.una >= 1 /\ mac.una <= mac.nxt
      /\ mac.una \in Nat /\ mac.nxt \in Nat /\ mac.nxt <= MacBytes + 2
      /\ mac.fin # 0 => mac.nxt = mac.fin + 1
      /\ mac.fin = 0 => mac.nxt <= MacBytes + 1
      /\ (IF mac.fin = 0 THEN mac.nxt ELSE mac.fin) - mac.una <= Segment
      /\ ~ (sock.in_use /\ sock.state = "SYN_SENT") /\ host.conn # "none"
      /\ mac.st \notin NotOpenYet
  BY OpenFacts
<1>2. /\ IsMac(mac') /\ mac'.st = st /\ mac'.nxt = mac.nxt /\ mac'.una = mac.una
      /\ mac'.rcv = mac.rcv /\ mac'.fin = mac.fin
  BY <1>1 DEF IsMac
<1>3. Ends'
  BY <1>1, <1>2, MacEnds
<1>4. flags \in SUBSET Flags /\ "SYN" \notin flags /\ "FIN" \notin flags
      /\ mac.nxt \in 0 .. MacBytes + 2
  <2>1. flags \in SUBSET Flags /\ "SYN" \notin flags /\ "FIN" \notin flags
    BY DEF Flags
  <2>2. mac.nxt \in 0 .. MacBytes + 2
    BY <1>1, RouterTCPAssumption
  <2>3. QED
    BY <2>1, <2>2
<1>5. /\ p \in Packet /\ p.flags = flags /\ p.seq = mac.nxt /\ p.data = <<>>
      /\ p.ack <= RemoteBytes + 3
  BY <1>4, EmptyPacket
<1> HIDE DEF p
<1>6. FromMacOK(p, mac'.fin)
  BY <1>1, <1>4, <1>5, EmptyFromMacOK
<1>7. QED
  BY <1>1, <1>2, <1>3, <1>4, <1>5, <1>6, MacSendsKeeps DEF NotOpenYet, p

LEMMA MacAcksKeeps ==
  ASSUME IInv, MacAcks
  PROVE  IInv'
<1> DEFINE flags == {"ACK"}
           st == "open"
<1>1. /\ mac.st = "open" /\ Len(fromMac) < Queue
      /\ fromMac' = Append(fromMac, MacPacket(flags, mac.nxt, <<>>))
      /\ UNCHANGED <<sock, host, written, early_fin, toMac>>
      /\ mac' = [mac EXCEPT !.ackdue = FALSE]
  BY DEF MacAcks, MacSends
<1>2. IsMac(mac) /\ flags \in SUBSET {"ACK", "RST"} /\ st \in {"open", "reset"}
  BY DEF IInv, Types
<1>3. mac' = [[mac EXCEPT !.st = st] EXCEPT !.ackdue = FALSE]
  BY <1>1, <1>2 DEF IsMac
<1> HIDE DEF flags, st
<1>4. QED
  BY <1>1, <1>2, <1>3, MacAnswers

LEMMA MacResetsKeeps ==
  ASSUME IInv, MacResets
  PROVE  IInv'
<1> DEFINE flags == {"RST"}
           st == "reset"
<1>1. /\ mac.st = "open" /\ Len(fromMac) < Queue
      /\ fromMac' = Append(fromMac, MacPacket(flags, mac.nxt, <<>>))
      /\ UNCHANGED <<sock, host, written, early_fin, toMac>>
      /\ mac' = [[mac EXCEPT !.st = st] EXCEPT !.ackdue = FALSE]
  BY DEF MacResets, MacSends
<1>2. flags \in SUBSET {"ACK", "RST"} /\ st \in {"open", "reset"}
  OBVIOUS
<1> HIDE DEF flags, st
<1>3. QED
  BY <1>1, <1>2, MacAnswers

\* What the Mac repeats: its SYN, its data or its FIN.
LEMMA MacRepeatsKeeps ==
  ASSUME IInv, MacRepeats
  PROVE  IInv'
<1> DEFINE end == IF mac.fin = 0 THEN mac.nxt ELSE mac.fin
           syn == IF mac.st = "syn" THEN {"SYN"} ELSE {"SYN", "ACK"}
           fin == {"ACK", "FIN"}
           data == Bytes(mac.una, end - mac.una)
           ack == {"ACK"}
<1>1. /\ mac.una < mac.nxt /\ mac.st \in {"syn", "synrcvd", "open"}
      /\ Len(fromMac) < Queue /\ mac' = [mac EXCEPT !.ackdue = FALSE]
      /\ UNCHANGED <<sock, host, written, early_fin, toMac>>
      /\ \/ mac.una = 0 /\ fromMac' = Append(fromMac, MacPacket(syn, 0, <<>>))
         \/ mac.una > 0 /\ mac.una < end /\ fromMac' = Append(fromMac, MacPacket(ack, mac.una, data))
         \/ /\ mac.una # 0 /\ ~ (mac.una > 0 /\ mac.una < end)
            /\ fromMac' = Append(fromMac, MacPacket(fin, mac.una, <<>>))
  BY DEF MacRepeats, MacSends
<1>2. IsMac(mac) /\ Ends
  BY DEF IInv, Types
<1>3. /\ IsMac(mac') /\ mac'.st = mac.st /\ mac'.nxt = mac.nxt /\ mac'.una = mac.una
      /\ mac'.rcv = mac.rcv /\ mac'.fin = mac.fin
  BY <1>1, <1>2 DEF IsMac
<1>4. /\ mac.una \in Nat /\ mac.nxt \in Nat /\ mac.nxt <= MacBytes + 2 /\ mac.fin \in Nat
      /\ mac.fin <= MacBytes + 1 /\ mac.una \in 0 .. MacBytes + 2
  BY <1>2, RouterTCPAssumption DEF IsMac
<1>5. Ends'
  <2>1. /\ mac.una <= mac.nxt
        /\ mac.fin # 0 => mac.nxt = mac.fin + 1
        /\ mac.fin = 0 => mac.nxt <= MacBytes + 1
        /\ mac.st = "syn" => mac.nxt = 1 /\ mac.una = 0 /\ mac.rcv = 0 /\ mac.fin = 0
        /\ mac.st = "synrcvd" => mac.nxt = 1 /\ mac.una = 0 /\ mac.rcv = 2 /\ mac.fin = 0
        /\ mac.st = "open" =>
             /\ mac.una >= 1
             /\ (IF mac.fin = 0 THEN mac.nxt ELSE mac.fin) - mac.una <= Segment
    BY <1>2 DEF Ends
  <2>2. QED
    BY <1>1, <1>2, <1>3, <2>1, MacEnds
<1>6. sock.in_use /\ sock.state = "SYN_SENT" => mac.st = "synrcvd"
  BY <1>1 DEF IInv, Called
<1>7. host.conn = "none" => mac'.st \in {"idle", "listen", "syn"}
  BY <1>3 DEF IInv, Before
<1>8. CASE mac.una = 0 /\ fromMac' = Append(fromMac, MacPacket(syn, 0, <<>>))
  <2> DEFINE p == MacPacket(syn, 0, <<>>)
  <2>1. mac.st \in {"syn", "synrcvd"} /\ mac.rcv <= 2
    BY <1>1, <1>2, <1>8 DEF Ends
  <2>2. /\ syn \in SUBSET Flags /\ "SYN" \in syn /\ "FIN" \notin syn /\ "RST" \notin syn
        /\ 0 \in 0 .. MacBytes + 2
        /\ (mac.st = "synrcvd" => syn = {"SYN", "ACK"})
    BY RouterTCPAssumption DEF Flags
  <2> HIDE DEF syn
  <2>3. p \in Packet /\ p.flags = syn /\ p.seq = 0 /\ p.data = <<>> /\ p.ack = mac.rcv
        /\ mac.rcv <= RemoteBytes + 3
    BY <2>2, EmptyPacket
  <2> HIDE DEF p
  <2>4. FromMacOK(p, mac'.fin)
    BY <1>4, <2>1, <2>2, <2>3, RouterTCPAssumption, EmptyFromMacOK
  <2>5. /\ sock.in_use /\ sock.state = "SYN_SENT" =>
             mac'.st \in {"listen", "synrcvd"} /\ p.flags = {"SYN", "ACK"}
        /\ "SYN" \in p.flags => mac.st \in NotOpenYet
        /\ mac'.st \in NotOpenYet => "SYN" \in p.flags
    BY <1>3, <1>6, <2>1, <2>2, <2>3 DEF NotOpenYet
  <2>6. fromMac' = Append(fromMac, p)
    BY <1>8 DEF p
  <2>7. QED
    BY <1>1, <1>3, <1>5, <1>7, <2>3, <2>4, <2>5, <2>6, MacSendsKeeps
<1>9. CASE mac.una > 0 /\ mac.una < end /\ fromMac' = Append(fromMac, MacPacket(ack, mac.una, data))
  <2> DEFINE p == MacPacket(ack, mac.una, data)
             n == end - mac.una
  <2>1. mac.st = "open"
    BY <1>1, <1>2, <1>4, <1>9 DEF Ends
  <2>2. end \in Nat /\ end <= MacBytes + 1 /\ end - mac.una <= Segment
    BY <1>2, <1>4, <2>1 DEF Ends
  <2> HIDE DEF end
  <2>3. /\ n \in Nat \ {0} /\ n <= Segment /\ mac.una \in Nat \ {0} /\ mac.una + n = end
        /\ mac.una <= MacBytes + 2
    BY <1>4, <1>9, <2>2, RouterTCPAssumption
  <2>4. data = Bytes(mac.una, n) /\ data \in Seq(Nat) /\ Len(data) = n /\ data # <<>>
    BY <2>3, BytesFacts
  <2>5. ack \in SUBSET Flags /\ "SYN" \notin ack /\ "FIN" \notin ack
    BY DEF Flags
  <2> HIDE DEF ack, data, n
  <2>6. p \in Packet /\ p.flags = ack /\ p.seq = mac.una /\ p.data = data
        /\ p.ack <= RemoteBytes + 3
    BY <1>4, <2>4, <2>5, MacPacketFacts
  <2> HIDE DEF p
  <2>7. FromMacOK(p, mac'.fin)
    <3>1. p.data = Bytes(p.seq, Len(p.data)) /\ Len(p.data) <= Segment
      BY <2>3, <2>4, <2>6
    <3>2. p.seq >= 1 /\ p.seq + Len(p.data) <= MacBytes + 1 /\ p.seq <= MacBytes + 2
      BY <2>2, <2>3, <2>4, <2>6
    <3>3. QED
      BY <2>5, <2>6, <3>1, <3>2 DEF FromMacOK
  <2>8. fromMac' = Append(fromMac, p)
    BY <1>9 DEF p
  <2>9. /\ "SYN" \in p.flags => mac.st \in NotOpenYet
        /\ mac'.st \in NotOpenYet => "SYN" \in p.flags
        /\ ~ (sock.in_use /\ sock.state = "SYN_SENT")
    BY <1>3, <1>6, <2>1, <2>5, <2>6 DEF NotOpenYet
  <2>10. QED
    BY <1>1, <1>3, <1>5, <1>7, <2>6, <2>7, <2>8, <2>9, MacSendsKeeps
<1>10. CASE /\ mac.una # 0 /\ ~ (mac.una > 0 /\ mac.una < end)
            /\ fromMac' = Append(fromMac, MacPacket(fin, mac.una, <<>>))
  <2> DEFINE p == MacPacket(fin, mac.una, <<>>)
  <2>1. mac.st = "open"
    BY <1>1, <1>2, <1>10 DEF Ends
  <2>2. mac.fin # 0 /\ mac.una = mac.fin
    <3>1. mac.una > 0 /\ ~ (mac.una < end)
      BY <1>4, <1>10
    <3>2. mac.fin # 0 => mac.nxt = mac.fin + 1
      BY <1>2 DEF Ends
    <3>3. CASE mac.fin = 0
      BY <1>1, <3>1, <3>3
    <3>4. CASE mac.fin # 0
      BY <1>1, <1>4, <3>1, <3>2, <3>4
    <3>5. QED
      BY <3>3, <3>4
  <2>3. fin \in SUBSET Flags /\ "SYN" \notin fin
    BY DEF Flags
  <2> HIDE DEF fin
  <2>4. p \in Packet /\ p.flags = fin /\ p.seq = mac.una /\ p.data = <<>>
        /\ p.ack <= RemoteBytes + 3
    BY <1>4, <2>3, EmptyPacket
  <2> HIDE DEF p
  <2>5. FromMacOK(p, mac'.fin)
    BY <1>3, <1>4, <2>2, <2>3, <2>4, EmptyFromMacOK
  <2>6. fromMac' = Append(fromMac, p)
    BY <1>10 DEF p
  <2>7. /\ "SYN" \in p.flags => mac.st \in NotOpenYet
        /\ mac'.st \in NotOpenYet => "SYN" \in p.flags
        /\ ~ (sock.in_use /\ sock.state = "SYN_SENT")
    BY <1>3, <1>6, <2>1, <2>3, <2>4 DEF NotOpenYet
  <2>8. QED
    BY <1>1, <1>3, <1>5, <1>7, <2>4, <2>5, <2>6, <2>7, MacSendsKeeps
<1>11. QED
  BY <1>1, <1>8, <1>9, <1>10

-----------------------------------------------------------------------------
(* The Mac takes a packet.                                                 *)

LEMMA ToMacTail ==
  ASSUME NEW h, NEW acked, NEW q, AllToMac(q, h, acked), q # <<>>
  PROVE  /\ AllToMac(Tail(q), h, acked) /\ Head(q) \in Packet /\ ToMacOK(Head(q), h, acked)
         /\ Head(q) = q[1] /\ Len(q) \in Nat /\ Len(q) >= 1 /\ Len(Tail(q)) = Len(q) - 1
         /\ \A i \in 1 .. Len(Tail(q)) : Tail(q)[i] = q[i + 1]
<1>1. q \in Seq(Packet) /\ Len(q) \in Nat /\ Len(q) # 0 /\ Len(q) <= Ring
      /\ \A i \in 1 .. Len(q) : ToMacOK(q[i], h, acked)
  BY LenProperties, EmptySeq DEF AllToMac
<1>2. /\ Head(q) \in Packet /\ Tail(q) \in Seq(Packet) /\ Len(Tail(q)) = Len(q) - 1
      /\ \A i \in 1 .. Len(Tail(q)) : Tail(q)[i] = q[i + 1]
  BY <1>1, HeadTailProperties
<1>3. Head(q) = q[1]
  BY <1>1
<1>4. \A i \in 1 .. Len(Tail(q)) : ToMacOK(Tail(q)[i], h, acked)
  BY <1>1, <1>2
<1>5. QED
  BY <1>1, <1>2, <1>3, <1>4, RouterTCPAssumption DEF AllToMac

LEMMA MacTakesKeeps ==
  ASSUME IInv, toMac # <<>>, toMac' = Tail(toMac),
         UNCHANGED <<sock, host, written, early_fin, fromMac>>,
         IsMac(mac'), Ends', mac'.fin = mac.fin, mac'.una <= Acked,
         mac'.st \in NotOpenYet => mac.st \in NotOpenYet,
         sock.in_use /\ sock.state = "SYN_SENT" => mac'.st \in {"listen", "synrcvd"}
  PROVE  IInv'
<1>1. AllToMac(toMac, host, Acked) /\ AllFromMac(fromMac, mac.fin)
  BY DEF IInv, Packets
<1>2. /\ AllToMac(toMac', host, Acked) /\ Len(toMac) \in Nat /\ Len(toMac') = Len(toMac) - 1
      /\ \A i \in 1 .. Len(toMac') : toMac'[i] = toMac[i + 1]
  BY <1>1, ToMacTail
<1>3. \A i : HasSyn(i)' <=> HasSyn(i)
  BY DEF HasSyn
<1>4. (Fresh' => Fresh) /\ SynsFirst'
  BY <1>3 DEF Fresh, SynsFirst, IInv
<1>5. Types'
  BY DEF IInv, Types
<1>6. (Excused' <=> Excused) /\ Acked' = Acked
  BY DEF Acked, Excused, FinDone
<1>7. AcksOK' /\ Packets'
  BY <1>1, <1>2, <1>6 DEF IInv, AcksOK, Packets
<1>8. Slot' /\ FreshOK'
  BY <1>4 DEF IInv, Slot, FreshOK
<1>9. Before'
  BY DEF IInv, Before
<1>10. Called'
  <2> SUFFICES ASSUME sock.in_use, sock.state = "SYN_SENT"
               PROVE  Called'
    BY DEF Called
  <2>1. /\ \A i \in 1 .. Len(toMac) : toMac[i].flags = {"SYN"}
        /\ \A i \in 1 .. Len(fromMac) : fromMac[i].flags = {"SYN", "ACK"}
    BY DEF IInv, Called
  <2>2. \A i \in 1 .. Len(toMac') : i + 1 \in 1 .. Len(toMac)
    BY <1>2
  <2>3. \A i \in 1 .. Len(toMac') : toMac'[i].flags = {"SYN"}
    BY <1>2, <2>1, <2>2
  <2>4. QED
    BY <2>1, <2>3 DEF Called
<1>11. QED
  BY <1>4, <1>5, <1>7, <1>8, <1>9, <1>10 DEF IInv

LEMMA MacReceivesKeeps ==
  ASSUME IInv, MacReceives
  PROVE  IInv'
<1> DEFINE p == Head(toMac)
           acked == IF "ACK" \in p.flags /\ p.ack > mac.una /\ p.ack <= mac.nxt
                    THEN p.ack ELSE mac.una
           fin == p.seq = mac.rcv /\ "FIN" \in p.flags
           rcv == IF p.seq = mac.rcv THEN mac.rcv + Len(p.data) + (IF fin THEN 1 ELSE 0)
                  ELSE mac.rcv
           rfin == mac.rfin \/ fin
           due == mac.ackdue \/ p.data # <<>> \/ p.flags # {"ACK"}
<1>1. /\ toMac # <<>> /\ toMac' = Tail(toMac)
      /\ UNCHANGED <<sock, host, written, early_fin, fromMac>>
  BY DEF MacReceives
<1>2. /\ IsMac(mac) /\ Ends /\ IsHost(host) /\ AllToMac(toMac, host, Acked) /\ Acked \in Nat
      /\ Len(written) + 1 <= Acked /\ Len(written) \in Nat
  BY Limit DEF IInv, Types, Packets
<1>3. p \in Packet /\ ToMacOK(p, host, Acked)
  BY <1>1, <1>2, ToMacTail
<1>4. \/ "RST" \in p.flags /\ mac' = [mac EXCEPT !.st = "reset"]
      \/ /\ mac.st = "syn" /\ p.flags = {"SYN", "ACK"}
         /\ mac' = [mac EXCEPT !.st = "open", !.una = acked, !.rcv = p.seq + 1, !.ackdue = TRUE]
      \/ /\ mac.st = "listen" /\ p.flags = {"SYN"}
         /\ mac' = [mac EXCEPT !.st = "synrcvd", !.nxt = 1, !.rcv = p.seq + 1]
      \/ /\ mac.st = "open" \/ (mac.st = "synrcvd" /\ acked > 0)
         /\ mac' = [mac EXCEPT !.st = "open", !.una = acked, !.rcv = rcv, !.rfin = rfin,
                               !.ackdue = due]
      \/ mac' = mac
  <2>1. IsMac(mac)
    BY <1>2
  <2>2. QED
    BY <2>1 DEF MacReceives, IsMac
<1>5. /\ mac.una \in Nat /\ mac.nxt \in Nat /\ mac.nxt <= MacBytes + 2 /\ mac.una <= MacBytes + 2
      /\ mac.rcv \in Nat /\ mac.rcv <= RemoteBytes + 3 /\ host.sent \in Nat
      /\ host.sent <= RemoteBytes /\ p.seq \in Nat /\ p.ack \in Nat /\ p.ack <= Acked
      /\ Len(p.data) \in Nat
  <2>1. p.data \in Seq(Nat)
    BY <1>3 DEF Packet
  <2>2. /\ mac.una \in Nat /\ mac.nxt \in Nat /\ mac.nxt <= MacBytes + 2
        /\ mac.una <= MacBytes + 2 /\ mac.rcv \in Nat /\ mac.rcv <= RemoteBytes + 3
    BY <1>2, RouterTCPAssumption DEF IsMac
  <2>3. host.sent \in Nat /\ host.sent <= RemoteBytes
    BY <1>2, RouterTCPAssumption DEF IsHost
  <2>4. p.seq \in Nat /\ p.ack \in Nat
    BY <1>3, RouterTCPAssumption DEF Packet
  <2>5. p.ack <= Acked
    BY <1>3 DEF ToMacOK
  <2>6. Len(p.data) \in Nat
    BY <2>1, LenProperties
  <2>7. QED
    BY <2>2, <2>3, <2>4, <2>5, <2>6
<1>6. sock.in_use /\ sock.state = "SYN_SENT" =>
        mac.st \in {"listen", "synrcvd"} /\ p.flags = {"SYN"}
  <2>1. p = toMac[1] /\ Len(toMac) \in Nat /\ Len(toMac) >= 1
    BY <1>1, <1>2, ToMacTail
  <2>2. QED
    BY <2>1 DEF IInv, Called
<1>7. mac.una <= mac.nxt /\ mac.una <= Acked /\ mac.rcv <= host.sent + 3
  BY DEF IInv, Ends, AcksOK
<1>8. acked \in Nat /\ mac.una <= acked /\ acked <= mac.nxt /\ acked <= Acked
      /\ (acked # mac.una => "ACK" \in p.flags)
  BY <1>5, <1>7
<1>9. rcv \in Nat /\ rcv <= host.sent + 3
  <2>1. CASE p.seq = mac.rcv
    <3>1. Len(p.data) = 0 \/ p.data # <<>>
      BY EmptySeq, <1>3 DEF Packet
    <3>2. CASE p.data # <<>>
      <4>1. p.seq + Len(p.data) <= host.sent + 2 /\ ~ fin
        BY <1>3, <3>2 DEF ToMacOK
      <4>2. rcv = p.seq + Len(p.data)
        BY <1>5, <2>1, <4>1
      <4>3. QED
        BY <1>5, <4>1, <4>2
    <3>3. CASE Len(p.data) = 0
      <4>1. fin => p.seq = host.sent + 2
        BY <1>3 DEF ToMacOK
      <4>2. rcv = mac.rcv + (IF fin THEN 1 ELSE 0)
        BY <1>5, <2>1, <3>3
      <4>3. QED
        BY <1>5, <1>7, <2>1, <4>1, <4>2
    <3>4. QED
      BY <3>1, <3>2, <3>3
  <2>2. CASE p.seq # mac.rcv
    BY <1>5, <1>7, <2>2
  <2>3. QED
    BY <2>1, <2>2
<1>10. rfin \in BOOLEAN /\ due \in BOOLEAN
  BY <1>2 DEF IsMac
<1> HIDE DEF p, acked, rcv, fin, rfin, due
<1>11. acked \in 0 .. MacBytes + 2 /\ rcv \in 0 .. RemoteBytes + 3
  BY <1>5, <1>8, <1>9, RouterTCPAssumption
<1>12. CASE "RST" \in p.flags /\ mac' = [mac EXCEPT !.st = "reset"]
  <2>1. /\ IsMac(mac') /\ mac'.st = "reset" /\ mac'.nxt = mac.nxt /\ mac'.una = mac.una
        /\ mac'.rcv = mac.rcv /\ mac'.fin = mac.fin
    BY <1>2, <1>12 DEF IsMac
  <2>2. Ends'
    BY <1>1, <1>2, <2>1 DEF Ends
  <2>3. ~ (sock.in_use /\ sock.state = "SYN_SENT")
    BY <1>6, <1>12
  <2>4. QED
    BY <1>1, <1>7, <2>1, <2>2, <2>3, MacTakesKeeps DEF NotOpenYet
<1>13. CASE /\ mac.st = "syn" /\ p.flags = {"SYN", "ACK"}
            /\ mac' = [mac EXCEPT !.st = "open", !.una = acked, !.rcv = p.seq + 1, !.ackdue = TRUE]
  <2>1. p.seq = 1 /\ p.ack = 1 /\ mac.nxt = 1 /\ mac.una = 0 /\ mac.fin = 0 /\ p.seq + 1 = 2
    BY <1>2, <1>3, <1>13 DEF ToMacOK, Ends
  <2>2. acked = 1 /\ 2 \in 0 .. RemoteBytes + 3
    BY <1>13, <2>1, RouterTCPAssumption DEF acked
  <2>3. /\ IsMac(mac') /\ mac'.st = "open" /\ mac'.nxt = 1 /\ mac'.una = 1
        /\ mac'.rcv = 2 /\ mac'.fin = 0
    BY <1>2, <1>11, <1>13, <2>1, <2>2 DEF IsMac
  <2>4. Ends'
    <3>1. 2 <= host.sent + 3 /\ 1 <= MacBytes + 1 /\ 1 - 1 <= Segment
      BY <1>5, RouterTCPAssumption
    <3>2. QED
      BY <1>1, <1>2, <2>3, <3>1 DEF Ends
  <2>5. ~ (sock.in_use /\ sock.state = "SYN_SENT") /\ mac'.una <= Acked
    BY <1>6, <1>8, <1>13, <2>2, <2>3
  <2>6. QED
    BY <1>1, <2>1, <2>3, <2>4, <2>5, MacTakesKeeps DEF NotOpenYet
<1>14. CASE /\ mac.st = "listen" /\ p.flags = {"SYN"}
            /\ mac' = [mac EXCEPT !.st = "synrcvd", !.nxt = 1, !.rcv = p.seq + 1]
  <2>1. p.seq = 1 /\ mac.nxt = 0 /\ mac.una = 0 /\ mac.fin = 0 /\ p.seq + 1 = 2
    BY <1>2, <1>3, <1>5, <1>7, <1>14 DEF ToMacOK, Ends
  <2>2. 1 \in 0 .. MacBytes + 2 /\ 2 \in 0 .. RemoteBytes + 3
    BY RouterTCPAssumption
  <2>3. /\ IsMac(mac') /\ mac'.st = "synrcvd" /\ mac'.nxt = 1 /\ mac'.una = 0
        /\ mac'.rcv = 2 /\ mac'.fin = 0
    BY <1>2, <1>14, <2>1, <2>2 DEF IsMac
  <2>4. Ends'
    <3>1. 2 <= host.sent + 3 /\ 1 <= MacBytes + 1
      BY <1>5, RouterTCPAssumption
    <3>2. QED
      BY <1>1, <1>2, <2>3, <3>1 DEF Ends
  <2>5. mac'.una <= Acked
    BY <1>2, <2>3
  <2>6. QED
    BY <1>1, <1>14, <2>1, <2>3, <2>4, <2>5, MacTakesKeeps DEF NotOpenYet
<1>15. CASE /\ mac.st = "open" \/ (mac.st = "synrcvd" /\ acked > 0)
            /\ mac' = [mac EXCEPT !.st = "open", !.una = acked, !.rcv = rcv, !.rfin = rfin,
                                  !.ackdue = due]
  <2>1. /\ IsMac(mac') /\ mac'.st = "open" /\ mac'.nxt = mac.nxt /\ mac'.una = acked
        /\ mac'.rcv = rcv /\ mac'.fin = mac.fin
    BY <1>2, <1>10, <1>11, <1>15 DEF IsMac
  <2>2. /\ acked >= 1
        /\ (IF mac.fin = 0 THEN mac.nxt ELSE mac.fin) - acked <= Segment
    <3>1. mac.fin \in Nat
      BY <1>2, RouterTCPAssumption DEF IsMac
    <3>2. CASE mac.st = "open"
      <4>1. mac.una >= 1 /\ (IF mac.fin = 0 THEN mac.nxt ELSE mac.fin) - mac.una <= Segment
        BY <1>2, <3>2 DEF Ends
      <4>2. QED
        BY <1>5, <1>8, <3>1, <4>1, RouterTCPAssumption
    <3>3. CASE mac.st = "synrcvd" /\ acked > 0
      <4>1. mac.nxt = 1 /\ mac.fin = 0
        BY <1>2, <3>3 DEF Ends
      <4>2. QED
        BY <1>8, <3>3, <4>1, RouterTCPAssumption
    <3>4. QED
      BY <1>15, <3>2, <3>3
  <2>3. Ends'
    BY <1>1, <1>2, <1>8, <1>9, <2>1, <2>2 DEF Ends
  <2>4. ~ (sock.in_use /\ sock.state = "SYN_SENT")
    <3>1. ASSUME sock.in_use, sock.state = "SYN_SENT"
          PROVE  FALSE
      <4>1. mac.st \in {"listen", "synrcvd"} /\ "ACK" \notin p.flags
        BY <1>6, <3>1
      <4>2. mac.st = "synrcvd" => mac.una = 0
        BY <1>2 DEF Ends
      <4>3. QED
        BY <1>8, <1>15, <4>1, <4>2
    <3>2. QED
      BY <3>1
  <2>5. mac'.una <= Acked
    BY <1>8, <2>1
  <2>6. QED
    BY <1>1, <2>1, <2>3, <2>4, <2>5, MacTakesKeeps DEF NotOpenYet
<1>16. CASE mac' = mac
  <2>1. Ends' /\ IsMac(mac') /\ mac'.una <= Acked
    BY <1>1, <1>2, <1>7, <1>16 DEF Ends
  <2>2. sock.in_use /\ sock.state = "SYN_SENT" => mac'.st \in {"listen", "synrcvd"}
    BY <1>6, <1>16
  <2>3. QED
    BY <1>1, <1>16, <2>1, <2>2, MacTakesKeeps
<1>17. QED
  BY <1>4, <1>12, <1>13, <1>14, <1>15, <1>16

-----------------------------------------------------------------------------
(* The invariant.                                                          *)

LEMMA InitKeeps ==
  ASSUME Init
  PROVE  IInv
<1>1. written = <<>> /\ toMac = <<>> /\ fromMac = <<>> /\ early_fin = FALSE
  BY DEF Init
<1>2. IsSocket(sock) /\ ~ sock.in_use /\ sock.last_seq_out = 0
  BY RouterTCPAssumption DEF Init, IsSocket, SocketFields, States
<1>3. IsHost(host) /\ host.sent = 0 /\ host.read = 0
  BY RouterTCPAssumption DEF Init, IsHost
<1>4. /\ IsMac(mac) /\ mac.st \in {"idle", "listen"} /\ mac.una = 0 /\ mac.nxt = 0
      /\ mac.rcv = 0 /\ mac.fin = 0
  BY RouterTCPAssumption DEF Init, IsMac
<1>5. Len(written) = 0 /\ Len(toMac) = 0 /\ Len(fromMac) = 0
  BY <1>1
<1>6. written \in Seq(Nat) /\ toMac \in Seq(Packet) /\ fromMac \in Seq(Packet)
  BY <1>1
<1>7. Types
  BY <1>1, <1>2, <1>3, <1>4, <1>6 DEF Types
<1>8. Acked \in Nat /\ Acked >= 0
  BY <1>5, RouterTCPAssumption DEF Acked
<1>9. AcksOK
  BY <1>2, <1>4, <1>8 DEF AcksOK
<1>10. Slot
  BY <1>2 DEF Slot
<1>11. Packets
  BY <1>5, <1>6, RouterTCPAssumption DEF Packets, AllToMac, AllFromMac
<1>12. Ends
  BY <1>1, <1>2, <1>3, <1>4, <1>5, RouterTCPAssumption DEF Ends
<1>13. SynsFirst
  BY <1>5 DEF SynsFirst
<1>14. FreshOK /\ Called
  BY <1>1, <1>2, <1>3 DEF FreshOK, Called
<1>15. Before
  BY <1>1, <1>2, <1>3, <1>4 DEF Before
<1>16. QED
  BY <1>7, <1>9, <1>10, <1>11, <1>12, <1>13, <1>14, <1>15 DEF IInv

LEMMA StutterKeeps ==
  ASSUME IInv, UNCHANGED vars
  PROVE  IInv'
<1>1. /\ sock' = sock /\ host' = host /\ written' = written /\ early_fin' = early_fin
      /\ mac' = mac /\ toMac' = toMac /\ fromMac' = fromMac
  BY DEF vars
<1>2. Excused' = Excused
  BY <1>1 DEF Excused, FinDone
<1>3. Acked' = Acked
  BY <1>1, <1>2 DEF Acked
<1>4. Types' /\ AcksOK' /\ Slot'
  BY <1>1, <1>2, <1>3 DEF IInv, Types, AcksOK, Slot
<1>5. Packets' /\ Ends'
  BY <1>1, <1>3 DEF IInv, Packets, Ends
<1>6. SynsFirst'
  BY <1>1 DEF IInv, SynsFirst, HasSyn
<1>7. FreshOK'
  BY <1>1 DEF IInv, FreshOK, Fresh, HasSyn
<1>8. Before' /\ Called'
  BY <1>1 DEF IInv, Before, Called
<1>9. QED
  BY <1>4, <1>5, <1>6, <1>7, <1>8 DEF IInv

LEMMA NextKeeps ==
  ASSUME IInv, [Next]_vars
  PROVE  IInv'
<1>1. CASE write_tcp
  BY <1>1, WriteTcp
<1>2. CASE Completion
  <2>1. CASE ReadFailed
    BY <2>1, ReadFails
  <2>2. ASSUME NEW n \in 0 .. Segment, ReadDone(n)
        PROVE  IInv'
    <3>1. n = 0 \/ n > 0
      BY RouterTCPAssumption
    <3>2. QED
      BY <2>2, <3>1, ReadsData, ReadsEnd
  <2>3. QED
    BY <1>2, <2>1, <2>2 DEF Completion
<1>3. CASE WriteCompletion
  BY <1>3, WriteDoneKeeps DEF WriteCompletion
<1>4. CASE Event
  BY <1>4, EventKeeps
<1>5. CASE ResendTimeout
  <2>1. CASE sock.state = "ESTABLISHED"
    BY <1>5, <2>1, ResendKeeps
  <2>2. CASE sock.state # "ESTABLISHED"
    BY <1>5, <2>2, StallEnds
  <2>3. QED
    BY <2>1, <2>2
<1>6. CASE TimeWaitExpired
  BY <1>6, TimeWaitExpires
<1>7. CASE tcp_accept_callback
  BY <1>7, AcceptKeeps
<1>8. CASE Remote
  BY <1>8, RemoteSteps
<1>9. CASE Mac
  BY <1>9, MacOpensKeeps, MacSendsDataKeeps, MacSendsFinKeeps, MacAcksKeeps, MacRepeatsKeeps,
     MacResetsKeeps, MacReceivesKeeps DEF Mac
<1>10. CASE UNCHANGED vars
  BY <1>10, StutterKeeps
<1>11. QED
  BY <1>1, <1>2, <1>3, <1>4, <1>5, <1>6, <1>7, <1>8, <1>9, <1>10 DEF Next, Router

\* Every reachable state satisfies the invariant: what a slot of tcp.cpp says of
\* the connection agrees with what was read, written, sent and acknowledged.
THEOREM Invariance == Spec => []IInv
<1>1. Init => IInv
  BY InitKeeps
<1>2. IInv /\ [Next]_vars => IInv'
  BY NextKeeps
<1>3. QED
  BY <1>1, <1>2, PTL DEF Spec

\* A slot of tcp.cpp has at most one read and one write under way, with
\* segments, acknowledgements and completions in any order.
THEOREM OneTransferEachWayHolds == Spec => []OneTransferEachWay
<1>1. IInv => OneTransferEachWay
  BY DEF IInv, Types, IsSocket, OneTransferEachWay
<1>2. QED
  BY <1>1, Invariance, PTL

LEMMA AckedBytesAreWritten ==
  ASSUME IInv
  PROVE  AckedIsWritten
<1>1. written \in Seq(Nat) /\ Len(written) \in Nat /\ DOMAIN written = 1 .. Len(written)
  BY LenProperties DEF IInv, Types
<1>2. \A i \in DOMAIN written : written[i] = i
  BY <1>1 DEF IInv, Ends
<1>3. mac.una \in Nat /\ mac.fin \in Nat /\ mac.una <= Acked
  BY RouterTCPAssumption DEF IInv, Types, IsMac, AcksOK
<1>4. CASE ~ early_fin
  <2>1. CASE FinDone
    BY <1>1, <1>2, <1>3, <2>1 DEF FinDone, AckedIsWritten, Smaller
  <2>2. CASE ~ FinDone
    <3>1. mac.una <= Len(written) + 1
      BY <1>3, <1>4, <2>2 DEF Acked, Excused
    <3>2. QED
      BY <1>1, <1>2, <1>3, <3>1 DEF AckedIsWritten, Smaller
  <2>3. QED
    BY <2>1, <2>2
<1>5. QED
  BY <1>2, <1>4 DEF AckedIsWritten

\* The remote host gets the Mac's bytes in order and once, and what write_tcp()
\* has acknowledged has been handed over, unless it took a FIN too early.
THEOREM AckedIsWrittenHolds == Spec => []AckedIsWritten
<1>1. IInv => AckedIsWritten
  BY AckedBytesAreWritten
<1>2. QED
  BY <1>1, Invariance, PTL

LEMMA RangeIsElements ==
  ASSUME NEW q \in Seq(Packet), NEW p \in Range(q)
  PROVE  p \in Packet /\ \E i \in 1 .. Len(q) : p = q[i]
<1>1. PICK i \in DOMAIN q : p = q[i]
  BY DEF Range
<1>2. i \in 1 .. Len(q)
  BY LenProperties
<1>3. QED
  BY <1>1, <1>2, ElementOfSeq

LEMMA SegmentsHoldTheirBytes ==
  ASSUME IInv
  PROVE  SegmentsMatchSequence
<1> SUFFICES ASSUME NEW p \in Range(toMac)
             PROVE  /\ \A i \in DOMAIN p.data : p.data[i] = p.seq + i - 2
                    /\ "FIN" \in p.flags => p.seq = host.sent + 2
  BY DEF SegmentsMatchSequence
<1>1. toMac \in Seq(Packet) /\ \A i \in 1 .. Len(toMac) : ToMacOK(toMac[i], host, Acked)
  BY DEF IInv, Packets, AllToMac
<1>2. p \in Packet /\ ToMacOK(p, host, Acked)
  BY <1>1, RangeIsElements
<1>3. DOMAIN p.data = 1 .. Len(p.data)
  BY <1>2, LenProperties DEF Packet
<1>4. QED
  BY <1>2, <1>3 DEF ToMacOK

\* What send_buffer() sends, new or again, holds the bytes its number says, and
\* the router's FIN comes after all the data of the remote host.
THEOREM SegmentsMatchSequenceHolds == Spec => []SegmentsMatchSequence
<1>1. IInv => SegmentsMatchSequence
  BY SegmentsHoldTheirBytes
<1>2. QED
  BY <1>1, Invariance, PTL

-----------------------------------------------------------------------------
(* The type invariant.                                                     *)

LEMMA ToMacIsPacket ==
  ASSUME NEW p \in Packet, NEW acked, IsHost(host), ToMacOK(p, host, acked)
  PROVE  IsPacket(p)
<1>1. /\ p.data \in Seq(Nat) /\ Len(p.data) \in Nat /\ DOMAIN p.data = 1 .. Len(p.data)
      /\ p.seq \in Nat /\ host.sent \in Nat /\ host.sent <= RemoteBytes
  BY LenProperties, RouterTCPAssumption DEF Packet, IsHost
<1>2. ASSUME NEW i \in 1 .. Len(p.data)
      PROVE  p.data[i] \in 1 .. MacBytes + RemoteBytes
  <2>1. p.data # <<>>
    BY <1>1, EmptySeq
  <2>2. p.data[i] = p.seq + i - 2 /\ p.seq + Len(p.data) <= host.sent + 2 /\ p.seq >= 2
    BY <2>1 DEF ToMacOK
  <2> DEFINE n == Len(p.data)
             x == p.seq
             sent == host.sent
  <2>3. n \in Nat /\ x \in Nat /\ sent \in Nat /\ i \in 1 .. n /\ x + n <= sent + 2 /\ x >= 2
        /\ sent <= RemoteBytes
    BY <1>1, <2>2
  <2> HIDE DEF n, x, sent
  <2>4. x + i - 2 \in 1 .. MacBytes + RemoteBytes
    BY <2>3, RouterTCPAssumption
  <2>5. QED
    BY <2>2, <2>4 DEF x
<1>3. Range(p.data) \subseteq 1 .. MacBytes + RemoteBytes
  BY <1>1, <1>2 DEF Range
<1>4. Len(p.data) <= Segment
  BY <1>1, EmptySeq, RouterTCPAssumption DEF ToMacOK
<1>5. QED
  BY <1>3, <1>4, RouterTCPAssumption DEF IsPacket, Packet

LEMMA FromMacIsPacket ==
  ASSUME NEW p \in Packet, NEW fin, FromMacOK(p, fin)
  PROVE  IsPacket(p)
<1>1. /\ p.data \in Seq(Nat) /\ Len(p.data) \in Nat /\ DOMAIN p.data = 1 .. Len(p.data)
      /\ p.seq \in Nat
  BY LenProperties, RouterTCPAssumption DEF Packet
<1>2. ASSUME NEW i \in 1 .. Len(p.data)
      PROVE  p.data[i] \in 1 .. MacBytes + RemoteBytes
  <2>1. p.data # <<>>
    BY <1>1, EmptySeq
  <2>2. p.data = Bytes(p.seq, Len(p.data)) /\ p.seq >= 1 /\ p.seq + Len(p.data) <= MacBytes + 1
    BY <2>1 DEF FromMacOK
  <2> DEFINE n == Len(p.data)
             x == p.seq
  <2>3. n \in Nat /\ x \in Nat \ {0} /\ i \in 1 .. n /\ x + n <= MacBytes + 1
    BY <1>1, <2>2
  <2>4. p.data = Bytes(x, n)
    BY <2>2
  <2> HIDE DEF n, x
  <2>5. p.data[i] = x + i - 1
    BY <2>3, <2>4, BytesFacts
  <2>6. x + i - 1 \in 1 .. MacBytes + RemoteBytes
    BY <2>3, RouterTCPAssumption
  <2>7. QED
    BY <2>5, <2>6
<1>3. Range(p.data) \subseteq 1 .. MacBytes + RemoteBytes
  BY <1>1, <1>2 DEF Range
<1>4. Len(p.data) <= Segment
  BY DEF FromMacOK
<1>5. QED
  BY <1>3, <1>4, RouterTCPAssumption DEF IsPacket, Packet

\* The fields of a slot, and the packets each way, keep their types and sizes.
THEOREM TypeCorrect == Spec => []TypeOK
<1>1. IInv => TypeOK
  <2> SUFFICES ASSUME IInv
               PROVE  TypeOK
    OBVIOUS
  <2>1. IsSocket(sock) /\ IsHost(host)
    BY DEF IInv, Types
  <2>2. AllToMac(toMac, host, Acked) /\ AllFromMac(fromMac, mac.fin)
    BY DEF IInv, Packets
  <2>3. ASSUME NEW p \in Range(toMac)
        PROVE  IsPacket(p)
    <3>1. p \in Packet /\ ToMacOK(p, host, Acked)
      BY <2>2, RangeIsElements DEF AllToMac
    <3>2. QED
      BY <2>1, <3>1, ToMacIsPacket
  <2>4. ASSUME NEW p \in Range(fromMac)
        PROVE  IsPacket(p)
    <3>1. p \in Packet /\ FromMacOK(p, mac.fin)
      BY <2>2, RangeIsElements DEF AllFromMac
    <3>2. QED
      BY <3>1, FromMacIsPacket
  <2>5. Len(toMac) <= Ring /\ Len(fromMac) <= Queue
    BY <2>2 DEF AllToMac, AllFromMac
  <2>6. QED
    BY <2>1, <2>3, <2>4, <2>5 DEF IsSocket, TypeOK
<1>2. QED
  BY <1>1, Invariance, PTL
=============================================================================
