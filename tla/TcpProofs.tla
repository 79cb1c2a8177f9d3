------------------------------ MODULE TcpProofs -----------------------------
(***************************************************************************)
(* Theorems about a TCP connection (Tcp), for any sizes of the buffers and *)
(* of a segment, any number of retries, any range of sequence numbers that *)
(* is larger than the send buffer, any initial sequence numbers and any    *)
(* amount of data: wraparound is included.                                 *)
(*                                                                         *)
(* TcpInv, each slot by itself, gives the types and the retransmission     *)
(* buffer.  StreamInv, which relates the two slots and the segments under  *)
(* way, gives the streams; it needs FreshNumbers, that no connection runs  *)
(* through the sequence numbers of another one.                            *)
(***************************************************************************)
EXTENDS Tcp, TLAPS

SeqNo == 0 .. SeqMod - 1
Chars == Seq(Byte)

\* A slot of the connection table: its fields keep to their ranges.
Conn ==
  [active : BOOLEAN, state : State, iss : SeqNo, snd_una : SeqNo, snd_nxt : SeqNo,
   snd_wnd : 0 .. RecvSize, rcv_nxt : SeqNo, recv : Chars, send : Chars,
   retries : 0 .. MaxRetries, app : {"none", "held", "closed"}, sent : Nat, got : Chars]
Fit(c) == c \in Conn /\ Len(c.recv) <= RecvSize /\ Len(c.send) <= SendSize

\* The bytes in flight are those of the retransmission buffer.
Exact(c) ==
  /\ Minus(c.snd_nxt, c.snd_una) = Len(c.send)
  /\ \A i \in 1 .. Len(c.send) : c.send[i] = [iss |-> c.iss, pos |-> c.sent - Len(c.send) + i]

Opening == {"SYN_SENT", "SYN_RECEIVED"}

\* A connection that is being opened has sent no data yet; an established one
\* is exact unless a retransmission was given up half way.
Clean(c, cut) ==
  /\ c.state \in Opening => c.send = <<>>
  /\ c.state = "ESTABLISHED" /\ c.iss \notin cut => Exact(c)

TcpInv ==
  /\ conn \in [Host -> Conn] /\ \A h \in Host : Fit(conn[h])
  /\ \A h \in Host : Clean(conn[h], cuts)
  /\ opens \in [Host -> Nat] /\ listening \in BOOLEAN
  /\ net \subseteq Segment /\ cuts \subseteq SeqNo
-----------------------------------------------------------------------------
(* Sequence numbers. *)

\* The remainder, within one turn of the modulus either way.
LEMMA Modulo ==
  /\ \A x \in Int : x % SeqMod \in SeqNo
  /\ \A x \in SeqNo : x % SeqMod = x
  /\ \A x \in Int : -SeqMod <= x /\ x < 0 => x % SeqMod = x + SeqMod
  /\ \A x \in Int : SeqMod <= x /\ x < 2 * SeqMod => x % SeqMod = x - SeqMod
<1>1. SeqMod \in Nat \ {0} BY TcpAssumption
<1>2. ASSUME NEW x \in Int PROVE x % SeqMod \in SeqNo BY <1>1 DEF SeqNo
<1>3. ASSUME NEW x \in SeqNo PROVE x % SeqMod = x
  <2>1. x \in 0 .. SeqMod - 1 BY DEF SeqNo
  <2> QED BY <1>1, <2>1
<1>4. ASSUME NEW x \in Int, -SeqMod <= x, x < 0 PROVE x % SeqMod = x + SeqMod
  BY <1>1, <1>4
<1>5. ASSUME NEW x \in Int, SeqMod <= x, x < 2 * SeqMod PROVE x % SeqMod = x - SeqMod
  BY <1>1, <1>5
<1> QED BY <1>2, <1>3, <1>4, <1>5

\* Plus and Minus stay in the range, and 0 changes nothing.
LEMMA SeqNoTypes ==
  /\ \A a \in SeqNo, n \in Nat : Plus(a, n) \in SeqNo
  /\ \A a, b \in SeqNo : Minus(a, b) \in SeqNo /\ Minus(a, b) \in Nat
  /\ \A a \in SeqNo : Minus(a, 1) \in SeqNo
  /\ \A a \in SeqNo : Plus(a, 0) = a /\ Minus(a, a) = 0
  /\ 0 \in SeqNo
<1>1. SeqMod \in Nat \ {0} BY TcpAssumption
<1>2. \A a \in SeqNo : a \in Nat /\ a \in Int BY <1>1 DEF SeqNo
<1>3. 0 \in SeqNo BY <1>1 DEF SeqNo
<1>4. \A a \in SeqNo, n \in Nat : Plus(a, n) \in SeqNo BY <1>2, Modulo DEF Plus
<1>5. \A a, b \in SeqNo : Minus(a, b) \in SeqNo /\ Minus(a, b) \in Nat BY <1>2, Modulo DEF Minus
<1>6. \A a \in SeqNo : Minus(a, 1) \in SeqNo BY <1>2, Modulo DEF Minus
<1>7. \A a \in SeqNo : Plus(a, 0) = a /\ Minus(a, a) = 0
  <2> SUFFICES ASSUME NEW a \in SeqNo PROVE Plus(a, 0) = a /\ Minus(a, a) = 0 OBVIOUS
  <2>1. a + 0 = a /\ a - a = 0 BY <1>2
  <2> QED BY <2>1, <1>3, Modulo DEF Plus, Minus
<1> QED BY <1>3, <1>4, <1>5, <1>6, <1>7

\* A difference of sequence numbers, without a remainder.
LEMMA MinusIs ==
  ASSUME NEW a \in SeqNo, NEW b \in SeqNo
  PROVE  (a < b => Minus(a, b) = a - b + SeqMod) /\ (a >= b => Minus(a, b) = a - b)
<1>1. SeqMod \in Nat /\ a \in 0..SeqMod-1 /\ b \in 0..SeqMod-1 BY TcpAssumption DEF SeqNo
<1>2. a - b \in Int BY <1>1
<1>3. CASE a < b
  <2>1. -SeqMod <= a - b /\ a - b < 0 BY <1>1, <1>3
  <2> QED BY <1>1, <1>2, <1>3, <2>1, Modulo DEF Minus
<1>4. CASE a >= b
  <2>1. a - b \in SeqNo BY <1>1, <1>4 DEF SeqNo
  <2> QED BY <1>1, <1>4, <2>1, Modulo DEF Minus
<1> QED BY <1>1, <1>3, <1>4

\* A sum, without a remainder.
LEMMA PlusIs ==
  ASSUME NEW a \in SeqNo, NEW n \in 0 .. SeqMod - 1
  PROVE  /\ a + n < SeqMod => Plus(a, n) = a + n
         /\ a + n >= SeqMod => Plus(a, n) = a + n - SeqMod
<1>1. SeqMod \in Nat /\ a \in 0..SeqMod-1 BY TcpAssumption DEF SeqNo
<1>2. a + n \in Int BY <1>1
<1>3. CASE a + n < SeqMod
  <2>1. a + n \in SeqNo BY <1>1, <1>3 DEF SeqNo
  <2> QED BY <1>1, <1>3, <2>1, Modulo DEF Plus
<1>4. CASE a + n >= SeqMod
  <2>1. SeqMod <= a + n /\ a + n < 2 * SeqMod BY <1>1, <1>4
  <2> QED BY <1>1, <1>2, <1>4, <2>1, Modulo DEF Plus
<1> QED BY <1>1, <1>3, <1>4

\* Sending n more: so much more in flight, if it is less than a whole turn.
LEMMA MinusPlus ==
  ASSUME NEW a \in SeqNo, NEW b \in SeqNo, NEW n \in Nat, Minus(a, b) + n < SeqMod
  PROVE  Minus(Plus(a, n), b) = Minus(a, b) + n
<1>1. SeqMod \in Nat /\ a \in 0..SeqMod-1 /\ b \in 0..SeqMod-1 BY TcpAssumption DEF SeqNo
<1>2. (a < b => Minus(a, b) = a - b + SeqMod) /\ (a >= b => Minus(a, b) = a - b)
  BY MinusIs
<1>3. n \in 0 .. SeqMod - 1
  <2>1. Minus(a, b) \in Nat BY SeqNoTypes
  <2> QED BY <1>1, <2>1
<1>4. (a + n < SeqMod => Plus(a, n) = a + n) /\ (a + n >= SeqMod => Plus(a, n) = a + n - SeqMod)
  BY <1>3, PlusIs
<1>5. Plus(a, n) \in SeqNo /\ Plus(a, n) \in 0..SeqMod-1 BY SeqNoTypes DEF SeqNo
<1> DEFINE p == Plus(a, n)
<1>6. (p < b => Minus(p, b) = p - b + SeqMod) /\ (p >= b => Minus(p, b) = p - b)
  BY <1>5, MinusIs
<1> QED BY <1>1, <1>2, <1>3, <1>4, <1>5, <1>6

\* Adding what is in flight to the first unacknowledged number.
LEMMA PlusMinus ==
  ASSUME NEW a \in SeqNo, NEW b \in SeqNo PROVE Plus(b, Minus(a, b)) = a
<1>1. SeqMod \in Nat /\ a \in 0..SeqMod-1 /\ b \in 0..SeqMod-1 BY TcpAssumption DEF SeqNo
<1>2. (a < b => Minus(a, b) = a - b + SeqMod) /\ (a >= b => Minus(a, b) = a - b)
  BY MinusIs
<1> DEFINE n == Minus(a, b)
<1>3. n \in 0 .. SeqMod - 1 BY SeqNoTypes DEF SeqNo
<1>4. (b + n < SeqMod => Plus(b, n) = b + n) /\ (b + n >= SeqMod => Plus(b, n) = b + n - SeqMod)
  BY <1>3, PlusIs
<1> QED BY <1>1, <1>2, <1>3, <1>4

\* The chunks of a retransmission end within it, and the last at its end.
LEMMA ChunkBounds ==
  ASSUME NEW n \in Nat
  PROVE  /\ \A i \in Nat : ChunkEnd(i, n) \in 0 .. n
         /\ Chunks(n) \in Nat /\ ChunkEnd(Chunks(n), n) = n
<1>1. Mss \in Nat \ {0} BY TcpAssumption
<1>2. \A i \in Nat : i * Mss \in Nat BY <1>1
<1>3. \A i \in Nat : ChunkEnd(i, n) \in 0 .. n BY <1>2 DEF ChunkEnd
<1>4. Chunks(n) \in Nat /\ n <= Chunks(n) * Mss BY <1>1 DEF Chunks
<1>5. ChunkEnd(Chunks(n), n) = n BY <1>2, <1>4 DEF ChunkEnd
<1> QED BY <1>3, <1>4, <1>5

\* A part of a sequence.
LEMMA Part ==
  ASSUME NEW s \in Chars, NEW m \in 1 .. Len(s) + 1, NEW n \in 0 .. Len(s)
  PROVE  /\ SubSeq(s, m, n) \in Chars
         /\ Len(SubSeq(s, m, n)) = IF m <= n THEN n - m + 1 ELSE 0
         /\ \A i \in 1 .. Len(SubSeq(s, m, n)) : SubSeq(s, m, n)[i] = s[m + i - 1]
BY DEF Chars
-----------------------------------------------------------------------------
(* Segments and connections. *)

\* The other host.
LEMMA PeerIsHost == \A h \in Host : Peer(h) \in Host
<1> SUFFICES ASSUME NEW h \in Host PROVE Peer(h) \in Host OBVIOUS
<1>1. \E p \in Host : p # h BY DEF Host
<1> QED BY <1>1 DEF Peer

\* What a connection that fits puts into a segment.
LEMMA SegType ==
  ASSUME NEW h \in Host, NEW c, Fit(c), NEW flags \in SUBSET Flag, NEW data \in Chars
  PROVE  Seg(h, c, flags, data) \in Segment
<1>1. c.snd_nxt \in SeqNo /\ c.rcv_nxt \in SeqNo BY DEF Fit, Conn
<1>2. rcv_wnd(c) \in 0 .. RecvSize
  <2>1. Len(c.recv) \in Nat /\ Len(c.recv) <= RecvSize BY DEF Fit, Conn, Chars
  <2> QED BY <2>1, TcpAssumption DEF rcv_wnd
<1> QED BY <1>1, <1>2, PeerIsHost DEF Seg, Segment, SeqNo, Chars

\* So does a reset.
LEMMA RstType == \A h \in Host : Rst(h) \in Segment
<1> SUFFICES ASSUME NEW h \in Host PROVE Rst(h) \in Segment OBVIOUS
<1>1. 0 \in 0 .. SeqMod - 1 /\ 0 \in 0 .. RecvSize BY TcpAssumption
<1>2. <<>> \in Seq(Byte) /\ {"RST", "ACK"} \in SUBSET Flag BY DEF Flag
<1> QED BY <1>1, <1>2, PeerIsHost DEF Rst, Segment

\* Sending only moves snd_nxt; without data, SYN or FIN not even that.
LEMMA SentFits ==
  ASSUME NEW c, Fit(c), NEW flags, NEW data \in Chars
  PROVE  /\ Fit(Sent(c, flags, data))
         /\ Sent(c, flags, data) = [c EXCEPT !.snd_nxt = Sent(c, flags, data).snd_nxt]
         /\ flags \cap {"SYN", "FIN"} = {}
              => Sent(c, flags, data).snd_nxt = Plus(c.snd_nxt, Len(data))
<1> DEFINE one == IF flags \cap {"SYN", "FIN"} # {} THEN 1 ELSE 0
           n == Plus(c.snd_nxt, Len(data) + one)
<1>1. Len(data) \in Nat /\ Len(data) + one \in Nat BY DEF Chars
<1>2. c \in Conn /\ c.snd_nxt \in SeqNo BY DEF Fit, Conn
<1>3. n \in SeqNo BY <1>1, <1>2, SeqNoTypes
<1>4. Sent(c, flags, data) = [c EXCEPT !.snd_nxt = n] BY DEF Sent
<1>5. flags \cap {"SYN", "FIN"} = {} => n = Plus(c.snd_nxt, Len(data)) BY <1>1
<1> HIDE DEF n
<1>6. Fit([c EXCEPT !.snd_nxt = n]) BY <1>3 DEF Fit, Conn
<1>7. [c EXCEPT !.snd_nxt = n].snd_nxt = n BY <1>2 DEF Conn
<1> QED BY <1>4, <1>5, <1>6, <1>7

\* A slot as tcp_alloc_conn() leaves it.
LEMMA NewFits == Fit(NewConn) /\ Fit(Freed(NewConn))
<1>1. RecvSize \in Nat /\ SendSize \in Nat /\ MaxRetries \in Nat /\ 0 \in SeqNo
  BY TcpAssumption, SeqNoTypes
<1>2. Len(<<>>) = 0 /\ <<>> \in Chars BY DEF Chars
<1>3. RecvSize \in 0 .. RecvSize /\ 0 \in 0 .. MaxRetries BY <1>1
<1>4. NewConn \in Conn BY <1>1, <1>2, <1>3 DEF NewConn, Conn, State
<1>5. Fit(NewConn) BY <1>1, <1>2, <1>4 DEF Fit, NewConn
<1> QED BY <1>5 DEF Fit, Conn, Freed, State

\* Giving a slot back ends what Clean asks of it.
LEMMA FreedIs ==
  ASSUME NEW c, Fit(c), NEW cut PROVE Fit(Freed(c)) /\ Clean(Freed(c), cut)
BY DEF Fit, Conn, Freed, State, Clean, Opening

\* The connection an open starts from.
LEMMA OpenedIs ==
  ASSUME TcpInv, NEW h \in Host, MayOpen(h), NEW state \in State
  PROVE  /\ Fit(Opened(h, state)) /\ Opened(h, state).send = <<>>
         /\ Opened(h, state).state = state
<1> DEFINE iss == Isn[listening][h][opens[h] + 1]
<1>1. iss \in SeqNo
  <2>1. listening \in BOOLEAN /\ opens[h] \in Nat BY DEF TcpInv
  <2>2. Isn[listening][h] \in Seq(SeqNo) BY <2>1, TcpAssumption DEF SeqNo
  <2>3. opens[h] + 1 \in 1 .. Len(Isn[listening][h]) BY <2>1, <2>2 DEF MayOpen
  <2> QED BY <2>2, <2>3
<1>2. Opened(h, state) = [NewConn EXCEPT !.iss = iss, !.snd_una = iss, !.snd_nxt = iss,
                                         !.state = state]
  BY DEF Opened
<1> HIDE DEF iss
<1>3. NewConn \in Conn /\ Len(NewConn.recv) <= RecvSize /\ Len(NewConn.send) <= SendSize
  BY NewFits DEF Fit
<1>4. NewConn.send = <<>> BY DEF NewConn
<1> QED BY <1>1, <1>2, <1>3, <1>4 DEF Fit, Conn

\* The bytes an application sends next.
LEMMA NextBytesAre ==
  ASSUME NEW c, Fit(c), NEW n \in Nat
  PROVE  /\ NextBytes(c, n) \in Chars /\ Len(NextBytes(c, n)) = n
         /\ \A i \in 1 .. n : NextBytes(c, n)[i] = [iss |-> c.iss, pos |-> c.sent + i]
<1>1. c.iss \in 0 .. SeqMod - 1 /\ c.sent \in Nat BY DEF Fit, Conn, SeqNo
<1>2. \A i \in 1 .. n : [iss |-> c.iss, pos |-> c.sent + i] \in Byte BY <1>1 DEF Byte
<1> QED BY <1>2 DEF NextBytes, Chars

\* An acknowledgement only takes bytes off the front of the buffer.
LEMMA AckedFits ==
  ASSUME NEW c, Fit(c), NEW s \in Segment
  PROVE  /\ Fit(Acked(c, s)) /\ Acked(c, s).state = c.state /\ Acked(c, s).iss = c.iss
         /\ Exact(c) => Exact(Acked(c, s))
<1>1. c \in Conn /\ c.send \in Chars /\ Len(c.send) \in Nat /\ Len(c.send) <= SendSize
  BY DEF Fit, Conn, Chars
<1>2. s.ack \in SeqNo /\ s.wnd \in 0 .. RecvSize BY DEF Segment, SeqNo
<1>3. CASE ~("ACK" \in s.flags /\ s.ack > c.snd_una /\ s.ack <= c.snd_nxt)
  <2>1. Acked(c, s) = c BY <1>3 DEF Acked
  <2> QED BY <2>1
<1>4. CASE "ACK" \in s.flags /\ s.ack > c.snd_una /\ s.ack <= c.snd_nxt
  <2> DEFINE acked == s.ack - c.snd_una
             rest == IF acked <= Len(c.send) THEN SubSeq(c.send, acked + 1, Len(c.send))
                     ELSE <<>>
             d == [c EXCEPT !.snd_una = s.ack, !.snd_wnd = s.wnd, !.retries = 0, !.send = rest]
  <2>1. Acked(c, s) = d BY <1>1, <1>4 DEF Acked, Conn
  <2>2. c.snd_una \in SeqNo /\ c.snd_nxt \in SeqNo /\ c.snd_una \in Nat /\ c.snd_nxt \in Nat
        /\ s.ack \in Nat
    BY <1>1, <1>2, TcpAssumption DEF Conn, SeqNo
  <2>3. acked \in Nat \ {0} BY <1>4, <2>2
  <2>4. rest \in Chars /\ Len(rest) = (IF acked <= Len(c.send) THEN Len(c.send) - acked ELSE 0)
        /\ (acked <= Len(c.send) => \A i \in 1 .. Len(rest) : rest[i] = c.send[acked + i])
    <3>1. CASE acked <= Len(c.send)
      <4>1. acked + 1 \in 1 .. Len(c.send) + 1 /\ Len(c.send) \in 0 .. Len(c.send)
        BY <1>1, <2>3, <3>1
      <4> QED BY SMTT(30), <1>1, <2>3, <3>1, <4>1, Part
    <3>2. CASE ~(acked <= Len(c.send))
      <4>1. Len(<<>>) = 0 /\ <<>> \in Chars BY DEF Chars
      <4> QED BY <3>2, <4>1
    <3> QED BY <3>1, <3>2
  <2> HIDE DEF rest, acked
  <2>5. 0 \in 0 .. MaxRetries BY TcpAssumption
  <2>6. d \in Conn BY <1>1, <1>2, <2>4, <2>5 DEF Conn
  <2>7. d.send = rest /\ d.recv = c.recv /\ d.state = c.state /\ d.iss = c.iss
        /\ d.sent = c.sent /\ d.snd_una = s.ack /\ d.snd_nxt = c.snd_nxt
    BY <1>1 DEF Conn
  <2>8. Fit(d)
    <3>1. Len(rest) <= SendSize BY <1>1, <2>3, <2>4, TcpAssumption
    <3> QED BY <2>6, <2>7, <3>1 DEF Fit
  <2>9. Exact(c) => Exact(d)
    <3> SUFFICES ASSUME Exact(c) PROVE Exact(d) OBVIOUS
    <3>1. Minus(c.snd_nxt, c.snd_una) = c.snd_nxt - c.snd_una
      BY <1>4, <2>2, MinusIs
    <3>2. Minus(c.snd_nxt, s.ack) = c.snd_nxt - s.ack BY <1>2, <1>4, <2>2, MinusIs
    <3>3. acked = s.ack - c.snd_una BY DEF acked
    <3>4. acked <= Len(c.send) /\ Len(rest) = Len(c.send) - acked
          /\ Minus(d.snd_nxt, d.snd_una) = Len(rest)
      BY <1>4, <2>2, <2>4, <2>7, <3>1, <3>2, <3>3 DEF Exact
    <3>5. ASSUME NEW i \in 1 .. Len(d.send)
          PROVE  d.send[i] = [iss |-> d.iss, pos |-> d.sent - Len(d.send) + i]
      <4>1. i \in 1 .. Len(rest) /\ acked + i \in 1 .. Len(c.send)
        BY <1>1, <2>3, <2>7, <3>4
      <4>2. c.send[acked + i] = [iss |-> c.iss, pos |-> c.sent - Len(c.send) + (acked + i)]
        BY <4>1 DEF Exact
      <4>3. c.sent \in Nat BY <1>1 DEF Conn
      <4>4. c.sent - Len(c.send) + (acked + i) = c.sent - Len(rest) + i
        BY <1>1, <2>3, <3>4, <4>3
      <4> QED BY <2>4, <2>7, <3>4, <4>1, <4>2, <4>4
    <3> QED BY <2>7, <3>4, <3>5 DEF Exact
  <2> HIDE DEF d
  <2> QED BY <2>1, <2>7, <2>8, <2>9
<1> QED BY <1>3, <1>4

\* Data goes into the receive buffer as far as it fits, and nowhere else.
LEMMA TookFits ==
  ASSUME NEW c, Fit(c), NEW s \in Segment
  PROVE  /\ Fit(Took(c, s)) /\ Took(c, s).state = c.state /\ Took(c, s).iss = c.iss
         /\ Exact(c) => Exact(Took(c, s))
<1> DEFINE n == IF Len(s.data) <= rcv_wnd(c) THEN Len(s.data) ELSE rcv_wnd(c)
           more == SubSeq(s.data, 1, n)
           d == [c EXCEPT !.recv = @ \o more, !.rcv_nxt = Plus(@, n)]
<1>1. c \in Conn /\ c.recv \in Chars /\ Len(c.recv) \in Nat /\ Len(c.recv) <= RecvSize
  BY DEF Fit, Conn, Chars
<1>2. s.data \in Chars /\ Len(s.data) \in Nat BY DEF Segment, Chars
<1>3. rcv_wnd(c) \in Nat BY <1>1, TcpAssumption DEF rcv_wnd
<1>4. n \in Nat /\ n \in 0 .. Len(s.data) /\ n <= RecvSize - Len(c.recv)
  BY <1>1, <1>2, <1>3, TcpAssumption DEF rcv_wnd
<1>5. Took(c, s) = IF s.seq = c.rcv_nxt THEN d ELSE c BY DEF Took
<1> HIDE DEF n
<1>6. more \in Chars /\ Len(more) = n
  <2>1. 1 \in 1 .. Len(s.data) + 1 BY <1>2
  <2> QED BY <1>2, <1>4, <2>1, Part
<1> HIDE DEF more
<1>7. c.recv \o more \in Chars /\ Len(c.recv \o more) <= RecvSize
  BY <1>1, <1>4, <1>6, TcpAssumption DEF Chars
<1>8. Plus(c.rcv_nxt, n) \in SeqNo
  <2>1. c.rcv_nxt \in SeqNo BY <1>1 DEF Conn
  <2> QED BY <1>4, <2>1, SeqNoTypes
<1>9. d \in Conn BY <1>1, <1>7, <1>8 DEF Conn
<1>10. /\ d.recv = c.recv \o more /\ d.send = c.send /\ d.state = c.state /\ d.iss = c.iss
       /\ d.sent = c.sent /\ d.snd_una = c.snd_una /\ d.snd_nxt = c.snd_nxt
  BY <1>1 DEF Conn
<1> HIDE DEF d
<1>11. Fit(d) BY <1>7, <1>9, <1>10 DEF Fit
<1>12. Exact(c) => Exact(d) BY <1>10 DEF Exact
<1> QED BY <1>5, <1>10, <1>11, <1>12
-----------------------------------------------------------------------------
(* One host at a time. *)

\* Only the two ends of a connection's life are asked anything.
LEMMA CleanIf ==
  ASSUME NEW c, NEW cut,
         c.state \in Opening => c.send = <<>>,
         c.state = "ESTABLISHED" => Exact(c) \/ c.iss \in cut
  PROVE  Clean(c, cut)
BY DEF Clean

\* A segment without data, SYN and FIN leaves the connection as it is; with
\* them it matters only to an established one.
LEMMA SentClean ==
  ASSUME NEW c, Fit(c), NEW cut, Clean(c, cut), NEW flags,
         c.state = "ESTABLISHED" => flags \cap {"SYN", "FIN"} = {}
  PROVE  Fit(Sent(c, flags, <<>>)) /\ Clean(Sent(c, flags, <<>>), cut)
<1> DEFINE d == Sent(c, flags, <<>>)
<1>1. <<>> \in Chars /\ Len(<<>>) = 0 BY DEF Chars
<1>2. Fit(d) /\ d = [c EXCEPT !.snd_nxt = d.snd_nxt]
      /\ (flags \cap {"SYN", "FIN"} = {} => d.snd_nxt = Plus(c.snd_nxt, 0))
  BY <1>1, SentFits
<1>3. c \in Conn /\ c.snd_nxt \in SeqNo BY DEF Fit, Conn
<1> HIDE DEF d
<1>4. d.state = c.state /\ d.send = c.send /\ d.iss = c.iss /\ d.sent = c.sent
      /\ d.snd_una = c.snd_una
  <2>1. \A x : [c EXCEPT !.snd_nxt = x].state = c.state
             /\ [c EXCEPT !.snd_nxt = x].send = c.send
             /\ [c EXCEPT !.snd_nxt = x].iss = c.iss
             /\ [c EXCEPT !.snd_nxt = x].sent = c.sent
             /\ [c EXCEPT !.snd_nxt = x].snd_una = c.snd_una
    BY <1>3 DEF Conn
  <2> QED BY <1>2, <2>1
<1>5. c.state = "ESTABLISHED" => d.snd_nxt = c.snd_nxt BY <1>2, <1>3, SeqNoTypes
<1>6. Clean(d, cut) BY <1>4, <1>5 DEF Clean, Exact
<1>7. Fit(d) /\ Clean(d, cut) BY <1>2, <1>6
<1> QED BY <1>7 DEF d

\* A step that changes one connection, adds segments and cuts, and no more
\* than counts an open.
LEMMA OneHost ==
  ASSUME TcpInv, NEW h \in Host, NEW c, conn' = [conn EXCEPT ![h] = c],
         Fit(c), Clean(c, cuts'), net' \subseteq Segment,
         cuts \subseteq cuts', cuts' \subseteq SeqNo,
         opens' \in [Host -> Nat], listening' = listening
  PROVE  TcpInv'
<1>1. c \in Conn BY DEF Fit
<1>2. conn' \in [Host -> Conn] BY <1>1 DEF TcpInv
<1>3. \A x \in Host : conn'[x] = IF x = h THEN c ELSE conn[x] BY DEF TcpInv
<1>4. \A x \in Host : Fit(conn'[x])
  <2> SUFFICES ASSUME NEW x \in Host PROVE Fit(conn'[x]) OBVIOUS
  <2>1. Fit(conn[x]) BY DEF TcpInv
  <2> QED BY <1>3, <2>1
<1>5. \A x \in Host : Clean(conn'[x], cuts')
  <2> SUFFICES ASSUME NEW x \in Host PROVE Clean(conn'[x], cuts') OBVIOUS
  <2>1. Clean(conn[x], cuts) BY DEF TcpInv
  <2>2. Clean(conn[x], cuts') BY <2>1 DEF Clean
  <2> QED BY <1>3, <2>2
<1> QED BY <1>2, <1>4, <1>5 DEF TcpInv

\* A step that sends a segment without data.
LEMMA Answers ==
  ASSUME TcpInv, NEW h \in Host, NEW c, Fit(c), Clean(c, cuts), NEW flags \in SUBSET Flag,
         tcp_send_segment(h, c, flags, <<>>),
         c.state = "ESTABLISHED" => flags \cap {"SYN", "FIN"} = {},
         opens' \in [Host -> Nat], UNCHANGED <<listening, cuts>>
  PROVE  TcpInv'
<1> DEFINE d == Sent(c, flags, <<>>)
<1>1. Fit(d) /\ Clean(d, cuts) BY SentClean
<1>2. Seg(h, c, flags, <<>>) \in Segment
  <2>1. <<>> \in Chars BY DEF Chars
  <2> QED BY <2>1, SegType
<1>3. conn' = [conn EXCEPT ![h] = d] /\ net' = net \cup {Seg(h, c, flags, <<>>)}
  BY DEF tcp_send_segment
<1> HIDE DEF d
<1>4. net' \subseteq Segment /\ cuts' = cuts /\ cuts \subseteq SeqNo /\ listening' = listening
  BY <1>2, <1>3 DEF TcpInv
<1> QED BY <1>1, <1>3, <1>4, OneHost

\* A step that sends nothing.
LEMMA Becomes ==
  ASSUME TcpInv, NEW h \in Host, NEW c, Fit(c), Clean(c, cuts), Become(h, c),
         UNCHANGED <<opens, listening, cuts>>
  PROVE  TcpInv'
<1>1. conn' = [conn EXCEPT ![h] = c] /\ net' = net BY DEF Become
<1>2. net' \subseteq Segment /\ cuts' = cuts /\ cuts \subseteq SeqNo /\ listening' = listening
      /\ opens' \in [Host -> Nat]
  BY <1>1 DEF TcpInv
<1> QED BY <1>1, <1>2, OneHost

\* A step that only answers with a reset.
LEMMA Resets ==
  ASSUME TcpInv, NEW h \in Host, net' = net \cup {Rst(h)}, UNCHANGED <<conn, opens, listening, cuts>>
  PROVE  TcpInv'
<1>1. net' \subseteq Segment BY RstType DEF TcpInv
<1> QED BY <1>1 DEF TcpInv

-----------------------------------------------------------------------------
(* The application's calls. *)

\* Initially both slots are free.
LEMMA TcpStart == Init => TcpInv
<1> SUFFICES ASSUME Init PROVE TcpInv OBVIOUS
<1>1. Fit(Freed(NewConn)) /\ Freed(NewConn) \in Conn BY NewFits DEF Fit
<1>2. Clean(Freed(NewConn), cuts) BY NewFits, FreedIs
<1>3. \A h \in Host : conn[h] = Freed(NewConn) BY DEF Init
<1>4. conn \in [Host -> Conn] BY <1>1 DEF Init
<1>5. \A h \in Host : Fit(conn[h]) /\ Clean(conn[h], cuts) BY <1>1, <1>2, <1>3
<1> QED BY <1>4, <1>5 DEF Init, TcpInv

\* tcp_connect() opens with a SYN and no data.
LEMMA ConnectStep == ASSUME TcpInv, NEW h \in Host, tcp_connect(h) PROVE TcpInv'
<1> DEFINE c == [Opened(h, "SYN_SENT") EXCEPT !.app = "held"]
<1>1. "SYN_SENT" \in State /\ {"SYN"} \in SUBSET Flag BY DEF State, Flag
<1>2. Fit(Opened(h, "SYN_SENT")) /\ Opened(h, "SYN_SENT").send = <<>>
      /\ Opened(h, "SYN_SENT").state = "SYN_SENT"
  BY <1>1, OpenedIs DEF tcp_connect
<1>3. Fit(c) /\ c.send = <<>> /\ c.state = "SYN_SENT" BY <1>2 DEF Fit, Conn
<1>4. tcp_send_segment(h, c, {"SYN"}, <<>>) /\ opens' = [opens EXCEPT ![h] = @ + 1]
      /\ UNCHANGED <<listening, cuts>>
  BY DEF tcp_connect
<1> HIDE DEF c
<1>5. Clean(c, cuts) BY <1>3, CleanIf
<1>6. opens' \in [Host -> Nat] BY <1>4 DEF TcpInv
<1> QED BY <1>1, <1>3, <1>4, <1>5, <1>6, Answers

\* The listener takes a SYN.
LEMMA PassiveStep == ASSUME TcpInv, NEW s \in Segment, PassiveOpen(s) PROVE TcpInv'
<1> DEFINE o == Opened("server", "SYN_RECEIVED")
           c == [o EXCEPT !.rcv_nxt = Plus(s.seq, 1), !.snd_wnd = s.wnd]
<1>1. "SYN_RECEIVED" \in State /\ {"SYN", "ACK"} \in SUBSET Flag /\ "server" \in Host
  BY DEF State, Flag, Host
<1>2. Fit(o) /\ o.send = <<>> /\ o.state = "SYN_RECEIVED" BY <1>1, OpenedIs DEF PassiveOpen
<1>3. Plus(s.seq, 1) \in SeqNo /\ s.wnd \in 0 .. RecvSize
  BY SeqNoTypes DEF Segment, SeqNo
<1>4. tcp_send_segment("server", c, {"SYN", "ACK"}, <<>>)
      /\ opens' = [opens EXCEPT !["server"] = @ + 1] /\ UNCHANGED <<listening, cuts>>
  BY DEF PassiveOpen
<1> HIDE DEF o
<1>5. Fit(c) /\ c.send = <<>> /\ c.state = "SYN_RECEIVED" BY <1>2, <1>3 DEF Fit, Conn
<1> HIDE DEF c
<1>6. Clean(c, cuts) BY <1>5, CleanIf
<1>7. opens' \in [Host -> Nat] BY <1>1, <1>4 DEF TcpInv
<1> QED BY <1>1, <1>4, <1>5, <1>6, <1>7, Answers

\* Accepting and closing leave the streams alone.
LEMMA AcceptStep == ASSUME TcpInv, tcp_accept PROVE TcpInv'
<1> DEFINE c == [conn["server"] EXCEPT !.app = "held"]
<1>1. "server" \in Host BY DEF Host
<1>2. Fit(conn["server"]) /\ Clean(conn["server"], cuts) BY <1>1 DEF TcpInv
<1>3. Become("server", c) /\ UNCHANGED <<opens, listening, cuts>> BY DEF tcp_accept
<1>4. Fit(c) /\ Clean(c, cuts) BY <1>2 DEF Fit, Conn, Clean, Exact
<1> HIDE DEF c
<1> QED BY <1>1, <1>3, <1>4, Becomes

\* Closing: the slot is freed, or a FIN goes out and no data after it.
LEMMA CloseStep == ASSUME TcpInv, NEW h \in Host, tcp_close(h) PROVE TcpInv'
<1> DEFINE c == [conn[h] EXCEPT !.app = "closed"]
<1>1. Fit(conn[h]) BY DEF TcpInv
<1>2. Fit(c) /\ c.state = conn[h].state BY <1>1 DEF Fit, Conn
<1>3. UNCHANGED <<opens, listening, cuts>> /\ opens' \in [Host -> Nat] BY DEF tcp_close, TcpInv
<1>4. {"FIN", "ACK"} \in SUBSET Flag BY DEF Flag
<1>5. CASE Become(h, Freed(c))
  <2> HIDE DEF c
  <2>1. Fit(Freed(c)) /\ Clean(Freed(c), cuts) BY <1>2, FreedIs
  <2> QED BY <1>3, <1>5, <2>1, Becomes
<1>6. ASSUME NEW st \in {"FIN_WAIT_1", "LAST_ACK"},
             tcp_send_segment(h, [c EXCEPT !.state = st], {"FIN", "ACK"}, <<>>)
      PROVE  TcpInv'
  <2> HIDE DEF c
  <2>1. Fit([c EXCEPT !.state = st]) /\ [c EXCEPT !.state = st].state = st
    BY <1>2 DEF Fit, Conn, State
  <2>2. Clean([c EXCEPT !.state = st], cuts) BY <2>1, CleanIf DEF Opening
  <2> QED BY <1>3, <1>4, <1>6, <2>1, <2>2, Answers
<1>7. \/ Become(h, Freed(c))
      \/ tcp_send_segment(h, [c EXCEPT !.state = "FIN_WAIT_1"], {"FIN", "ACK"}, <<>>)
      \/ tcp_send_segment(h, [c EXCEPT !.state = "LAST_ACK"], {"FIN", "ACK"}, <<>>)
  BY DEF tcp_close
<1> QED BY <1>5, <1>6, <1>7

\* One sequence after another.
LEMMA Joined ==
  ASSUME NEW s \in Chars, NEW t \in Chars
  PROVE  /\ s \o t \in Chars /\ Len(s \o t) = Len(s) + Len(t)
         /\ \A i \in 1 .. Len(s) + Len(t) :
              (s \o t)[i] = IF i <= Len(s) THEN s[i] ELSE t[i - Len(s)]
BY DEF Chars

\* tcp_send() puts the same bytes into the buffer and into flight.
LEMMA SendStep ==
  ASSUME TcpInv, NEW h \in Host, NEW n \in 1 .. Mss, tcp_send(h, n) PROVE TcpInv'
<1> DEFINE b == conn[h]
           data == NextBytes(b, n)
           c == [b EXCEPT !.send = @ \o data, !.sent = @ + n]
           d == Sent(c, {"ACK"}, data)
<1>1. Fit(b) /\ Clean(b, cuts) /\ b \in Conn BY DEF TcpInv, Fit
<1>2. n \in Nat BY TcpAssumption
<1>3. data \in Chars /\ Len(data) = n
      /\ \A i \in 1 .. n : data[i] = [iss |-> b.iss, pos |-> b.sent + i]
  BY <1>1, <1>2, NextBytesAre
<1>4. /\ b.state \in {"ESTABLISHED", "CLOSE_WAIT"} /\ Len(b.send) + n <= SendSize
      /\ tcp_send_segment(h, c, {"ACK"}, data) /\ UNCHANGED <<opens, listening, cuts>>
  BY DEF tcp_send, Fits
<1> HIDE DEF data
<1>5. b.send \in Chars /\ b.sent \in Nat /\ Len(b.send) \in Nat BY <1>1 DEF Conn, Chars
<1>6. b.send \o data \in Chars /\ Len(b.send \o data) = Len(b.send) + n
      /\ \A i \in 1 .. Len(b.send) + n :
           (b.send \o data)[i] = IF i <= Len(b.send) THEN b.send[i] ELSE data[i - Len(b.send)]
  BY <1>3, <1>5, Joined
<1> DEFINE longer == b.send \o data
           more == b.sent + n
<1>7. c \in Conn /\ c.send = b.send \o data /\ c.sent = b.sent + n /\ c.state = b.state
      /\ c.iss = b.iss /\ c.recv = b.recv /\ c.snd_una = b.snd_una /\ c.snd_nxt = b.snd_nxt
  <2>1. longer \in Chars /\ more \in Nat BY <1>2, <1>5, <1>6
  <2>2. c = [b EXCEPT !.send = longer, !.sent = more] BY <1>1 DEF Conn
  <2> HIDE DEF longer, more, c
  <2>3. c \in Conn BY <1>1, <2>1, <2>2 DEF Conn
  <2>4. c.send = longer /\ c.sent = more /\ c.state = b.state /\ c.iss = b.iss
        /\ c.recv = b.recv /\ c.snd_una = b.snd_una /\ c.snd_nxt = b.snd_nxt
    BY <1>1, <2>2 DEF Conn
  <2> QED BY <2>3, <2>4 DEF longer, more
<1> HIDE DEF c, longer, more
<1>8. Fit(c) BY <1>1, <1>4, <1>6, <1>7 DEF Fit
<1>9. {"ACK"} \in SUBSET Flag /\ {"ACK"} \cap {"SYN", "FIN"} = {} BY DEF Flag
<1>10. Fit(d) /\ d = [c EXCEPT !.snd_nxt = Plus(c.snd_nxt, n)]
  BY <1>3, <1>8, <1>9, SentFits
<1>11. Seg(h, c, {"ACK"}, data) \in Segment BY <1>3, <1>8, <1>9, SegType
<1>12. conn' = [conn EXCEPT ![h] = d] /\ net' = net \cup {Seg(h, c, {"ACK"}, data)}
  BY <1>4 DEF tcp_send_segment
<1> HIDE DEF d
<1>13. d.state = b.state /\ d.send = b.send \o data /\ d.iss = b.iss /\ d.sent = b.sent + n
       /\ d.snd_una = b.snd_una /\ d.snd_nxt = Plus(b.snd_nxt, n)
  BY <1>7, <1>10 DEF Conn
<1>14. ASSUME Exact(b) PROVE Exact(d)
  <2>1. b.snd_nxt \in SeqNo /\ b.snd_una \in SeqNo BY <1>1 DEF Conn
  <2>2. Minus(b.snd_nxt, b.snd_una) = Len(b.send) BY <1>14 DEF Exact
  <2>3. Len(b.send) + n < SeqMod BY <1>2, <1>4, <1>5, TcpAssumption
  <2>4. Minus(d.snd_nxt, d.snd_una) = Len(b.send) + n
    BY <1>2, <1>13, <2>1, <2>2, <2>3, MinusPlus
  <2>5. ASSUME NEW i \in 1 .. Len(d.send)
        PROVE  d.send[i] = [iss |-> d.iss, pos |-> d.sent - Len(d.send) + i]
    <3>1. i \in 1 .. Len(b.send) + n /\ Len(d.send) = Len(b.send) + n BY <1>6, <1>13
    <3>2. d.sent - Len(d.send) + i = b.sent - Len(b.send) + i
      BY <1>2, <1>5, <1>13, <3>1
    <3>3. CASE i <= Len(b.send)
      <4>1. i \in 1 .. Len(b.send) BY <1>2, <1>5, <3>1, <3>3
      <4>2. b.send[i] = [iss |-> b.iss, pos |-> b.sent - Len(b.send) + i]
        BY <1>14, <4>1 DEF Exact
      <4> QED BY <1>6, <1>13, <3>1, <3>2, <3>3, <4>2
    <3>4. CASE ~(i <= Len(b.send))
      <4>1. i - Len(b.send) \in 1 .. n BY <1>2, <1>5, <3>1, <3>4
      <4>2. b.sent + (i - Len(b.send)) = b.sent - Len(b.send) + i BY <1>5, <3>1
      <4> QED BY <1>3, <1>6, <1>13, <3>1, <3>2, <3>4, <4>1, <4>2
    <3> QED BY <3>3, <3>4
  <2> QED BY <1>6, <1>13, <2>4, <2>5 DEF Exact
<1>15. Clean(d, cuts) BY <1>1, <1>4, <1>13, <1>14 DEF Clean, Opening
<1>16. net' \subseteq Segment /\ cuts' = cuts /\ cuts \subseteq SeqNo /\ listening' = listening
       /\ opens' \in [Host -> Nat]
  BY <1>4, <1>11, <1>12 DEF TcpInv
<1> QED BY <1>10, <1>12, <1>15, <1>16, OneHost

\* tcp_recv() moves bytes from the buffer to the application.
LEMMA RecvStep ==
  ASSUME TcpInv, NEW h \in Host, NEW n \in 1 .. RecvSize, tcp_recv(h, n) PROVE TcpInv'
<1> DEFINE b == conn[h]
           rest == SubSeq(b.recv, n + 1, Len(b.recv))
           out == SubSeq(b.recv, 1, n)
           d == [b EXCEPT !.recv = SubSeq(@, n + 1, Len(@)), !.got = @ \o SubSeq(b.recv, 1, n)]
<1>1. Fit(b) /\ Clean(b, cuts) /\ b \in Conn BY DEF TcpInv, Fit
<1>2. b.recv \in Chars /\ Len(b.recv) \in Nat /\ b.got \in Chars /\ Len(b.recv) <= RecvSize
  BY <1>1 DEF Fit, Conn, Chars
<1>3. n \in 1 .. Len(b.recv) BY DEF tcp_recv
<1>4. rest \in Chars /\ Len(rest) <= RecvSize
  <2>1. n + 1 \in 1 .. Len(b.recv) + 1 /\ Len(b.recv) \in 0 .. Len(b.recv) BY <1>2, <1>3
  <2> QED BY SMTT(30), <1>2, <1>3, <2>1, Part, TcpAssumption
<1>5. out \in Chars
  <2>1. 1 \in 1 .. Len(b.recv) + 1 /\ n \in 0 .. Len(b.recv) BY <1>2, <1>3
  <2> QED BY <1>2, <2>1, Part
<1>6. b.got \o out \in Chars BY <1>2, <1>5 DEF Chars
<1>7. \/ tcp_send_segment(h, d, {"ACK"}, <<>>)
      \/ Become(h, d)
  BY DEF tcp_recv
<1>8. UNCHANGED <<opens, listening, cuts>> /\ opens' \in [Host -> Nat] BY DEF tcp_recv, TcpInv
<1>9. d = [b EXCEPT !.recv = rest, !.got = @ \o out] OBVIOUS
<1> HIDE DEF rest, out, d
<1>10. d.state = b.state /\ d.send = b.send /\ d.recv = rest /\ d.iss = b.iss
       /\ d.sent = b.sent /\ d.snd_una = b.snd_una /\ d.snd_nxt = b.snd_nxt
  BY <1>1, <1>9 DEF Conn
<1>11. Fit(d)
  <2>1. d \in Conn BY <1>1, <1>4, <1>6, <1>9 DEF Conn
  <2> QED BY <1>1, <1>4, <1>10, <2>1 DEF Fit
<1>12. Clean(d, cuts) BY <1>1, <1>10 DEF Clean, Exact
<1>13. {"ACK"} \in SUBSET Flag /\ {"ACK"} \cap {"SYN", "FIN"} = {} BY DEF Flag
<1>14. CASE tcp_send_segment(h, d, {"ACK"}, <<>>)
  BY <1>8, <1>11, <1>12, <1>13, <1>14, Answers
<1>15. CASE Become(h, d) BY <1>8, <1>11, <1>12, <1>15, Becomes
<1> QED BY <1>7, <1>14, <1>15

-----------------------------------------------------------------------------
(* tcp_handle(). *)

\* A FIN only moves rcv_nxt and the state.
LEMMA FinnedFits ==
  ASSUME NEW c, Fit(c), NEW st \in State
  PROVE  Fit(Finned(c, st)) /\ Finned(c, st).state = st
<1>1. c \in Conn /\ c.rcv_nxt \in SeqNo BY DEF Fit, Conn
<1>2. Plus(c.rcv_nxt, 1) \in SeqNo BY <1>1, SeqNoTypes
<1> QED BY <1>1, <1>2 DEF Fit, Finned, Conn

\* The states in which nothing is asked of the send buffer.
LEMMA QuietClean ==
  ASSUME NEW c, NEW cut, c.state \notin {"SYN_SENT", "SYN_RECEIVED", "ESTABLISHED"}
  PROVE  Clean(c, cut)
BY DEF Clean, Opening

\* A SYN_SENT connection is established with nothing in flight, or answers.
LEMMA SynSentStep ==
  ASSUME TcpInv, NEW h \in Host, NEW s \in Segment, HandleSynSent(h, s),
         UNCHANGED <<opens, listening, cuts>>
  PROVE  TcpInv'
<1> DEFINE b == conn[h]
           c == [b EXCEPT !.snd_una = s.ack, !.rcv_nxt = Plus(s.seq, 1),
                          !.snd_wnd = s.wnd, !.state = "ESTABLISHED"]
           d == [b EXCEPT !.rcv_nxt = Plus(s.seq, 1), !.state = "SYN_RECEIVED"]
<1>1. Fit(b) /\ Clean(b, cuts) /\ b \in Conn BY DEF TcpInv, Fit
<1>2. b.state = "SYN_SENT" BY DEF HandleSynSent
<1>3. b.send = <<>> /\ Len(<<>>) = 0 BY <1>1, <1>2 DEF Clean, Opening
<1>4. Plus(s.seq, 1) \in SeqNo /\ s.wnd \in 0 .. RecvSize /\ s.ack \in SeqNo
  BY SeqNoTypes DEF Segment, SeqNo
<1>5. {"ACK"} \in SUBSET Flag /\ {"SYN", "ACK"} \in SUBSET Flag
      /\ {"ACK"} \cap {"SYN", "FIN"} = {}
  BY DEF Flag
<1>6. opens' \in [Host -> Nat] BY DEF TcpInv
<1>7. CASE s.ack = b.snd_nxt /\ tcp_send_segment(h, c, {"ACK"}, <<>>)
  <2>1. Fit(c) /\ c.send = <<>> /\ c.snd_una = s.ack /\ c.snd_nxt = b.snd_nxt
        /\ c.state = "ESTABLISHED"
    BY <1>1, <1>3, <1>4 DEF Fit, Conn, State
  <2> HIDE DEF c
  <2>2. Minus(c.snd_nxt, c.snd_una) = 0 BY <1>4, <1>7, <2>1, SeqNoTypes
  <2>3. Exact(c)
    <3>1. 1 .. Len(c.send) = {} BY <1>3, <2>1
    <3> QED BY <1>3, <2>1, <2>2, <3>1 DEF Exact
  <2>4. Clean(c, cuts) BY <2>1, <2>3, CleanIf
  <2> QED BY <1>5, <1>6, <1>7, <2>1, <2>4, Answers
<1>8. CASE net' = net \cup {Rst(h)} /\ UNCHANGED conn BY <1>8, Resets
<1>9. CASE tcp_send_segment(h, d, {"SYN", "ACK"}, <<>>)
  <2>1. Fit(d) /\ d.send = <<>> /\ d.state = "SYN_RECEIVED"
    BY <1>1, <1>3, <1>4 DEF Fit, Conn, State
  <2> HIDE DEF d
  <2>2. Clean(d, cuts) BY <2>1, CleanIf
  <2> QED BY <1>5, <1>6, <1>9, <2>1, <2>2, Answers
<1> QED BY <1>7, <1>8, <1>9 DEF HandleSynSent

\* A SYN_RECEIVED connection is established with nothing in flight.
LEMMA SynReceivedStep ==
  ASSUME TcpInv, NEW h \in Host, NEW s \in Segment, HandleSynReceived(h, s),
         UNCHANGED <<opens, listening, cuts>>
  PROVE  TcpInv'
<1> DEFINE b == conn[h]
           c == [b EXCEPT !.snd_una = s.ack, !.snd_wnd = s.wnd, !.state = "ESTABLISHED"]
<1>1. Fit(b) /\ Clean(b, cuts) /\ b \in Conn BY DEF TcpInv, Fit
<1>2. b.state = "SYN_RECEIVED" /\ s.ack = b.snd_nxt /\ Become(h, c) BY DEF HandleSynReceived
<1>3. b.send = <<>> /\ Len(<<>>) = 0 BY <1>1, <1>2 DEF Clean, Opening
<1>4. s.wnd \in 0 .. RecvSize /\ s.ack \in SeqNo BY DEF Segment, SeqNo
<1>5. Fit(c) /\ c.send = <<>> /\ c.snd_una = s.ack /\ c.snd_nxt = b.snd_nxt
      /\ c.state = "ESTABLISHED"
  BY <1>1, <1>3, <1>4 DEF Fit, Conn, State
<1> HIDE DEF c
<1>6. Minus(c.snd_nxt, c.snd_una) = 0 BY <1>2, <1>4, <1>5, SeqNoTypes
<1>7. Exact(c)
  <2>1. 1 .. Len(c.send) = {} BY <1>3, <1>5
  <2> QED BY <1>3, <1>5, <1>6, <2>1 DEF Exact
<1>8. Clean(c, cuts) BY <1>5, <1>7, CleanIf
<1> QED BY <1>2, <1>5, <1>8, Becomes

\* An established connection takes the acknowledgement, the data and the FIN.
LEMMA EstablishedStep ==
  ASSUME TcpInv, NEW h \in Host, NEW s \in Segment, HandleEstablished(h, s),
         UNCHANGED <<opens, listening, cuts>>
  PROVE  TcpInv'
<1> DEFINE b == conn[h]
           a == Acked(b, s)
           c == Took(a, s)
           f == Finned(c, "CLOSE_WAIT")
           d == IF "FIN" \in s.flags THEN f ELSE c
<1>1. Fit(b) /\ Clean(b, cuts) /\ b.state = "ESTABLISHED" BY DEF TcpInv, HandleEstablished
<1>2. Fit(a) /\ a.state = b.state /\ a.iss = b.iss /\ (Exact(b) => Exact(a))
  BY <1>1, AckedFits
<1> HIDE DEF a
<1>3. Fit(c) /\ c.state = a.state /\ c.iss = a.iss /\ (Exact(a) => Exact(c))
  BY <1>2, TookFits
<1> HIDE DEF c
<1>4. Fit(f) /\ f.state = "CLOSE_WAIT"
  <2>1. "CLOSE_WAIT" \in State BY DEF State
  <2> QED BY <1>3, <2>1, FinnedFits
<1> HIDE DEF f
<1>5. Clean(c, cuts) BY <1>1, <1>2, <1>3, CleanIf DEF Clean, Opening
<1>6. Clean(f, cuts) BY <1>4, QuietClean
<1>7. Fit(d) /\ Clean(d, cuts) BY <1>3, <1>4, <1>5, <1>6
<1>8. Seg(h, c, {"ACK"}, <<>>) \in Segment /\ Seg(h, d, {"ACK"}, <<>>) \in Segment
  <2>1. {"ACK"} \in SUBSET Flag /\ <<>> \in Chars BY DEF Flag, Chars
  <2> HIDE DEF d
  <2> QED BY <1>3, <1>7, <2>1, SegType
<1>9. /\ conn' = [conn EXCEPT ![h] = d]
      /\ net' = net \cup {Seg(h, c, {"ACK"}, <<>>) : x \in {y \in {s} : y.data # <<>>}}
                    \cup {Seg(h, d, {"ACK"}, <<>>) : x \in {y \in {s} : "FIN" \in y.flags}}
  BY DEF HandleEstablished, a, c, f
<1> HIDE DEF d
<1>10. net' \subseteq Segment /\ cuts' = cuts /\ cuts \subseteq SeqNo /\ listening' = listening
       /\ opens' \in [Host -> Nat]
  BY <1>8, <1>9 DEF TcpInv
<1> QED BY <1>7, <1>9, <1>10, OneHost

\* The closing states, in which only numbers and the state move.
LEMMA ClosingStep ==
  ASSUME TcpInv, NEW h \in Host, NEW s \in Segment, UNCHANGED <<opens, listening, cuts>>,
         HandleFinWait1(h, s) \/ HandleFinWait2(h, s) \/ HandleLastAck(h, s)
           \/ HandleTimeWait(h, s)
  PROVE  TcpInv'
<1> DEFINE b == conn[h]
           c == [b EXCEPT !.snd_una = s.ack]
<1>1. Fit(b) /\ opens' \in [Host -> Nat] /\ s.ack \in SeqNo BY DEF TcpInv, Segment, SeqNo
<1>2. Fit(c) BY <1>1 DEF Fit, Conn
<1>3. {"ACK"} \in SUBSET Flag /\ "TIME_WAIT" \in State BY DEF Flag, State
<1>4. ASSUME NEW e, Fit(e), tcp_send_segment(h, Finned(e, "TIME_WAIT"), {"ACK"}, <<>>)
      PROVE  TcpInv'
  <2>1. Fit(Finned(e, "TIME_WAIT")) /\ Finned(e, "TIME_WAIT").state = "TIME_WAIT"
    BY <1>3, <1>4, FinnedFits
  <2>2. Clean(Finned(e, "TIME_WAIT"), cuts) BY <2>1, QuietClean
  <2> QED BY <1>1, <1>3, <1>4, <2>1, <2>2, Answers
<1>5. CASE HandleFinWait1(h, s)
  <2> DEFINE d == [c EXCEPT !.state = "FIN_WAIT_2"]
  <2>1. CASE tcp_send_segment(h, Finned(c, "TIME_WAIT"), {"ACK"}, <<>>)
    <3> HIDE DEF c
    <3> QED BY <1>2, <1>4, <2>1
  <2>2. CASE Become(h, d)
    <3>1. Fit(d) /\ d.state = "FIN_WAIT_2" BY <1>2 DEF Fit, Conn, State
    <3> HIDE DEF d
    <3>2. Clean(d, cuts) BY <3>1, QuietClean
    <3> QED BY <2>2, <3>1, <3>2, Becomes
  <2> QED BY <1>5, <2>1, <2>2 DEF HandleFinWait1
<1>6. CASE HandleFinWait2(h, s) BY <1>1, <1>4, <1>6 DEF HandleFinWait2
<1>7. CASE HandleLastAck(h, s)
  <2>1. Become(h, Freed(b)) BY <1>7 DEF HandleLastAck
  <2>2. Fit(Freed(b)) /\ Clean(Freed(b), cuts) BY <1>1, FreedIs
  <2> QED BY <2>1, <2>2, Becomes
<1>8. CASE HandleTimeWait(h, s)
  <2>1. b.state = "TIME_WAIT" /\ tcp_send_segment(h, b, {"ACK"}, <<>>)
    BY <1>8 DEF HandleTimeWait
  <2>2. Clean(b, cuts) BY <2>1, QuietClean
  <2> QED BY <1>1, <1>3, <2>1, <2>2, Answers
<1> QED BY <1>5, <1>6, <1>7, <1>8

\* A segment arrives, whatever it is.
LEMMA HandleStep == ASSUME TcpInv, NEW h \in Host, tcp_handle(h) PROVE TcpInv'
<1>1. PICK s \in {x \in net : x.to = h} :
        PassiveOpen(s) \/ Refuse(h, s) \/ HandleRst(h, s) \/ HandleState(h, s)
  BY DEF tcp_handle
<1>2. s \in Segment BY DEF TcpInv
<1>3. CASE PassiveOpen(s) BY <1>2, <1>3, PassiveStep
<1>4. CASE Refuse(h, s) BY <1>4, Resets DEF Refuse
<1>5. CASE HandleRst(h, s)
  <2> DEFINE d == [conn[h] EXCEPT !.state = "CLOSED"]
  <2>1. Fit(conn[h]) BY DEF TcpInv
  <2>2. Fit(d) /\ d.state = "CLOSED" BY <2>1 DEF Fit, Conn, State
  <2>3. Become(h, d) /\ UNCHANGED <<opens, listening, cuts>> BY <1>5 DEF HandleRst
  <2> HIDE DEF d
  <2>4. Clean(d, cuts) BY <2>2, QuietClean
  <2> QED BY <2>2, <2>3, <2>4, Becomes
<1>6. CASE HandleState(h, s)
  <2>1. UNCHANGED <<opens, listening, cuts>> BY <1>6 DEF HandleState
  <2>2. CASE HandleSynSent(h, s) BY <1>2, <2>1, <2>2, SynSentStep
  <2>3. CASE HandleSynReceived(h, s) BY <1>2, <2>1, <2>3, SynReceivedStep
  <2>4. CASE HandleEstablished(h, s) BY <1>2, <2>1, <2>4, EstablishedStep
  <2>5. CASE HandleFinWait1(h, s) \/ HandleFinWait2(h, s) \/ HandleLastAck(h, s)
               \/ HandleTimeWait(h, s)
    BY <1>2, <2>1, <2>5, ClosingStep
  <2> QED BY <1>6, <2>2, <2>3, <2>4, <2>5 DEF HandleState
<1> QED BY <1>1, <1>3, <1>4, <1>5, <1>6

-----------------------------------------------------------------------------
(* tcp_timer(). *)

\* A retry that is allowed is counted.
LEMMA Retried ==
  ASSUME NEW c, Fit(c), ~GivesUp(c) PROVE c.retries + 1 \in 0 .. MaxRetries
BY TcpAssumption DEF Fit, Conn, GivesUp

\* The SYN goes out again from iss; there is no data yet.
LEMMA TimerSynStep ==
  ASSUME TcpInv, NEW h \in Host, TimerSyn(h), UNCHANGED <<opens, listening, cuts>>
  PROVE  TcpInv'
<1> DEFINE b == conn[h]
           d == [b EXCEPT !.retries = @ + 1, !.snd_nxt = b.iss]
           flags == IF b.state = "SYN_SENT" THEN {"SYN"} ELSE {"SYN", "ACK"}
<1>1. Fit(b) /\ Clean(b, cuts) /\ b \in Conn /\ opens' \in [Host -> Nat] BY DEF TcpInv, Fit
<1>2. b.state \in Opening /\ b.send = <<>> BY <1>1 DEF TimerSyn, Clean, Opening
<1>3. CASE GivesUp(b)
  <2>1. Become(h, Freed(b)) BY <1>3 DEF TimerSyn
  <2>2. Fit(Freed(b)) /\ Clean(Freed(b), cuts) BY <1>1, FreedIs
  <2> QED BY <2>1, <2>2, Becomes
<1>4. CASE ~GivesUp(b)
  <2>1. tcp_send_segment(h, d, flags, <<>>) BY <1>4 DEF TimerSyn
  <2>2. flags \in SUBSET Flag BY DEF Flag
  <2>3. b.retries + 1 \in 0 .. MaxRetries BY <1>1, <1>4, Retried
  <2>4. Fit(d) /\ d.state = b.state /\ d.send = b.send BY <1>1, <2>3 DEF Fit, Conn
  <2> HIDE DEF d, flags
  <2>5. Clean(d, cuts) /\ d.state # "ESTABLISHED" BY <1>2, <2>4, CleanIf DEF Opening
  <2> QED BY <1>1, <2>1, <2>2, <2>4, <2>5, Answers
<1> QED BY <1>3, <1>4

\* The FIN goes out again.
LEMMA TimerFinStep ==
  ASSUME TcpInv, NEW h \in Host, TimerFin(h), UNCHANGED <<opens, listening, cuts>>
  PROVE  TcpInv'
<1> DEFINE b == conn[h]
           d == [b EXCEPT !.retries = @ + 1, !.snd_nxt = Minus(@, 1)]
<1>1. Fit(b) /\ b \in Conn /\ opens' \in [Host -> Nat] BY DEF TcpInv, Fit
<1>2. b.state \in {"FIN_WAIT_1", "LAST_ACK"} BY DEF TimerFin
<1>3. CASE GivesUp(b)
  <2>1. Become(h, Freed(b)) BY <1>3 DEF TimerFin
  <2>2. Fit(Freed(b)) /\ Clean(Freed(b), cuts) BY <1>1, FreedIs
  <2> QED BY <2>1, <2>2, Becomes
<1>4. CASE ~GivesUp(b)
  <2>1. tcp_send_segment(h, d, {"FIN", "ACK"}, <<>>) BY <1>4 DEF TimerFin
  <2>2. {"FIN", "ACK"} \in SUBSET Flag BY DEF Flag
  <2>3. b.retries + 1 \in 0 .. MaxRetries BY <1>1, <1>4, Retried
  <2>4. Minus(b.snd_nxt, 1) \in SeqNo BY <1>1, SeqNoTypes DEF Conn
  <2>5. Fit(d) /\ d.state = b.state BY <1>1, <2>3, <2>4 DEF Fit, Conn
  <2> HIDE DEF d
  <2>6. Clean(d, cuts) BY <1>2, <2>5, QuietClean
  <2> QED BY <1>1, <1>2, <2>1, <2>2, <2>5, <2>6, Answers
<1> QED BY <1>3, <1>4

\* A retransmission that ends leaves snd_nxt where it was; one that is given
\* up half way is on record in cuts.
LEMMA ResendStep ==
  ASSUME TcpInv, NEW h \in Host, conn[h].state = "ESTABLISHED", ~GivesUp(conn[h]),
         Minus(conn[h].snd_nxt, conn[h].snd_una) <= Len(conn[h].send),
         NEW k \in 1 .. Chunks(Minus(conn[h].snd_nxt, conn[h].snd_una)), Resend(h, k),
         UNCHANGED <<opens, listening>>
  PROVE  TcpInv'
<1> DEFINE b == conn[h]
           c == [b EXCEPT !.retries = @ + 1]
           unsent == Minus(c.snd_nxt, c.snd_una)
           at(i) == [c EXCEPT !.snd_nxt = Plus(c.snd_una, ChunkEnd(i, unsent))]
           chunk(i) == SubSeq(c.send, ChunkEnd(i - 1, unsent) + 1, ChunkEnd(i, unsent))
<1>1. Fit(b) /\ Clean(b, cuts) /\ b \in Conn BY DEF TcpInv, Fit
<1>2. b.retries + 1 \in 0 .. MaxRetries BY <1>1, Retried
<1>3. c \in Conn /\ c.snd_nxt = b.snd_nxt /\ c.snd_una = b.snd_una /\ c.send = b.send
      /\ c.recv = b.recv /\ c.iss = b.iss /\ c.sent = b.sent /\ c.state = b.state
  BY <1>1, <1>2 DEF Conn
<1>4. Fit(c) BY <1>1, <1>3 DEF Fit
<1>5. /\ conn' = [conn EXCEPT ![h] = at(k)]
      /\ net' = net \cup {Seg(h, at(i - 1), {"ACK"}, chunk(i)) : i \in 1 .. k}
      /\ cuts' = IF k < Chunks(unsent) THEN cuts \cup {c.iss} ELSE cuts
  BY DEF Resend
<1> HIDE DEF c
<1>6. c.snd_una \in SeqNo /\ c.snd_nxt \in SeqNo /\ c.iss \in SeqNo /\ c.send \in Chars
      /\ Len(c.send) \in Nat
  BY <1>3 DEF Conn, Chars
<1>7. unsent \in Nat /\ unsent <= Len(c.send) /\ k \in 1 .. Chunks(unsent)
  BY <1>3, <1>6, SeqNoTypes
<1>8. /\ \A i \in Nat : ChunkEnd(i, unsent) \in 0 .. unsent
      /\ Chunks(unsent) \in Nat /\ ChunkEnd(Chunks(unsent), unsent) = unsent
  BY <1>7, ChunkBounds
<1> HIDE DEF unsent
<1>9. ASSUME NEW i \in Nat PROVE Fit(at(i)) /\ at(i).state = c.state /\ at(i).iss = c.iss
  <2>1. ChunkEnd(i, unsent) \in Nat
    <3>1. ChunkEnd(i, unsent) \in 0 .. unsent BY <1>8
    <3> QED BY <1>7, <3>1
  <2>2. Plus(c.snd_una, ChunkEnd(i, unsent)) \in SeqNo BY <1>6, <2>1, SeqNoTypes
  <2> QED BY <1>4, <2>2 DEF Fit, Conn
<1>10. ASSUME NEW i \in 1 .. k PROVE Seg(h, at(i - 1), {"ACK"}, chunk(i)) \in Segment
  <2>1. i \in Nat /\ i - 1 \in Nat BY <1>7, <1>8
  <2>2. ChunkEnd(i - 1, unsent) \in 0 .. unsent /\ ChunkEnd(i, unsent) \in 0 .. unsent
    BY <1>8, <2>1
  <2>3. ChunkEnd(i - 1, unsent) + 1 \in 1 .. Len(c.send) + 1
        /\ ChunkEnd(i, unsent) \in 0 .. Len(c.send)
    BY <1>6, <1>7, <2>2
  <2>4. chunk(i) \in Chars BY <1>6, <2>3, Part
  <2>5. Fit(at(i - 1)) BY <1>9, <2>1
  <2>6. {"ACK"} \in SUBSET Flag BY DEF Flag
  <2> HIDE DEF at, chunk
  <2> QED BY <2>4, <2>5, <2>6, SegType
<1>11. k \in Nat BY <1>7, <1>8
<1>12. Fit(at(k)) /\ at(k).state = c.state /\ at(k).iss = c.iss BY <1>9, <1>11
<1>13. k >= Chunks(unsent) => at(k).snd_nxt = c.snd_nxt /\ at(k).snd_una = c.snd_una
                              /\ at(k).send = c.send /\ at(k).sent = c.sent
  <2> SUFFICES ASSUME k >= Chunks(unsent)
               PROVE  at(k).snd_nxt = c.snd_nxt /\ at(k).snd_una = c.snd_una
                      /\ at(k).send = c.send /\ at(k).sent = c.sent
    OBVIOUS
  <2>1. k = Chunks(unsent) BY <1>7, <1>8
  <2>2. Plus(c.snd_una, ChunkEnd(k, unsent)) = c.snd_nxt
    BY <1>6, <1>8, <2>1, PlusMinus DEF unsent
  <2> QED BY <1>3, <2>2 DEF Conn
<1> DEFINE d == at(k)
<1>14. conn' = [conn EXCEPT ![h] = d] /\ Fit(d) BY <1>5, <1>12
<1>15. Clean(d, cuts')
  <2>1. CASE k < Chunks(unsent)
    <3>1. d.iss \in cuts' /\ d.state = "ESTABLISHED" BY <1>3, <1>5, <1>12, <2>1
    <3> HIDE DEF d
    <3> QED BY <3>1 DEF Clean, Opening
  <2>2. CASE k >= Chunks(unsent)
    <3>1. cuts' = cuts BY <1>5, <1>8, <1>11, <2>2
    <3>2. d.state = b.state /\ d.iss = b.iss /\ d.snd_nxt = b.snd_nxt /\ d.snd_una = b.snd_una
          /\ d.send = b.send /\ d.sent = b.sent
      BY <1>3, <1>12, <1>13, <2>2
    <3> HIDE DEF d
    <3> QED BY <1>1, <3>1, <3>2 DEF Clean, Exact
  <2> QED BY <1>8, <1>11, <2>1, <2>2
<1> HIDE DEF at, chunk, d
<1>16. net' \subseteq Segment BY <1>5, <1>10 DEF TcpInv
<1>17. cuts \subseteq cuts' /\ cuts' \subseteq SeqNo BY <1>5, <1>6 DEF TcpInv
<1>18. opens' \in [Host -> Nat] /\ listening' = listening BY DEF TcpInv
<1> QED BY <1>14, <1>15, <1>16, <1>17, <1>18, OneHost

\* The timeout of an established connection.
LEMMA TimerEstablishedStep ==
  ASSUME TcpInv, NEW h \in Host, TimerEstablished(h), UNCHANGED <<opens, listening>>
  PROVE  TcpInv'
<1> DEFINE b == conn[h]
           unsent == Minus(b.snd_nxt, b.snd_una)
           d == [b EXCEPT !.retries = @ + 1]
<1>1. Fit(b) /\ Clean(b, cuts) /\ b \in Conn /\ b.state = "ESTABLISHED"
  BY DEF TcpInv, Fit, TimerEstablished
<1>2. opens' \in [Host -> Nat] /\ listening' = listening /\ cuts \subseteq SeqNo
      /\ net \subseteq Segment
  BY DEF TcpInv
<1>3. CASE GivesUp(b)
  <2>1. conn' = [conn EXCEPT ![h] = Freed(b)] /\ net' = net \cup {Rst(h)} /\ cuts' = cuts
    BY <1>3 DEF TimerEstablished
  <2>2. Fit(Freed(b)) /\ Clean(Freed(b), cuts') BY <1>1, FreedIs
  <2>3. net' \subseteq Segment BY <1>2, <2>1, RstType
  <2> QED BY <1>2, <2>1, <2>2, <2>3, OneHost
<1>4. CASE ~GivesUp(b) /\ unsent <= Len(b.send)
  <2>1. PICK k \in 1 .. Chunks(unsent) : Resend(h, k) BY <1>4 DEF TimerEstablished
  <2> QED BY <1>1, <1>4, <2>1, ResendStep
<1>5. CASE ~GivesUp(b) /\ ~(unsent <= Len(b.send))
  <2>1. Become(h, d) /\ UNCHANGED cuts BY <1>5 DEF TimerEstablished
  <2>2. b.retries + 1 \in 0 .. MaxRetries BY <1>1, <1>5, Retried
  <2>3. Fit(d) /\ Clean(d, cuts) BY <1>1, <2>2 DEF Fit, Conn, Clean, Exact
  <2> HIDE DEF d
  <2> QED BY <1>2, <2>1, <2>3, Becomes
<1> QED BY <1>3, <1>4, <1>5

\* The timer, in whatever state the connection is.
LEMMA TimerStep == ASSUME TcpInv, NEW h \in Host, tcp_timer(h) PROVE TcpInv'
<1>1. UNCHANGED <<opens, listening>> BY DEF tcp_timer
<1>2. CASE TimerEstablished(h) BY <1>1, <1>2, TimerEstablishedStep
<1>3. CASE TimerSyn(h) /\ UNCHANGED cuts BY <1>1, <1>3, TimerSynStep
<1>4. CASE TimerFin(h) /\ UNCHANGED cuts BY <1>1, <1>4, TimerFinStep
<1>5. CASE TimerReap(h) /\ UNCHANGED cuts
  <2>1. Become(h, Freed(conn[h])) BY <1>5 DEF TimerReap
  <2>2. Fit(conn[h]) BY DEF TcpInv
  <2>3. Fit(Freed(conn[h])) /\ Clean(Freed(conn[h]), cuts) BY <2>2, FreedIs
  <2> QED BY <1>1, <1>5, <2>1, <2>3, Becomes
<1> QED BY <1>2, <1>3, <1>4, <1>5 DEF tcp_timer

-----------------------------------------------------------------------------
(* The theorems. *)

\* Every step keeps the invariant.
LEMMA TcpStep == TcpInv /\ [Next]_vars => TcpInv'
<1> SUFFICES ASSUME TcpInv, [Next]_vars PROVE TcpInv' OBVIOUS
<1>1. CASE tcp_accept BY <1>1, AcceptStep
<1>2. ASSUME NEW h \in Host, tcp_connect(h) PROVE TcpInv' BY <1>2, ConnectStep
<1>3. ASSUME NEW h \in Host, tcp_close(h) PROVE TcpInv' BY <1>3, CloseStep
<1>4. ASSUME NEW h \in Host, tcp_handle(h) PROVE TcpInv' BY <1>4, HandleStep
<1>5. ASSUME NEW h \in Host, tcp_timer(h) PROVE TcpInv' BY <1>5, TimerStep
<1>6. ASSUME NEW h \in Host, NEW n \in 1 .. Mss, tcp_send(h, n) PROVE TcpInv'
  BY <1>6, SendStep
<1>7. ASSUME NEW h \in Host, NEW n \in 1 .. RecvSize, tcp_recv(h, n) PROVE TcpInv'
  BY <1>7, RecvStep
<1>8. CASE UNCHANGED vars BY <1>8 DEF vars, TcpInv
<1> QED BY <1>1, <1>2, <1>3, <1>4, <1>5, <1>6, <1>7, <1>8 DEF Next

\* The invariant holds in every reachable state.
THEOREM TcpInvHolds == Spec => []TcpInv
<1> QED BY TcpStart, TcpStep, PTL DEF Spec

\* Every field of both slots keeps its range, whatever segments arrive in
\* whatever order: tcp_handle() never fills the receive buffer past its size,
\* tcp_send() the send buffer, and tcp_timer() never counts a retry too many.
THEOREM TcpTypes == Spec => []TypeOK
<1>1. TcpInv => TypeOK
  <2> SUFFICES ASSUME TcpInv PROVE TypeOK OBVIOUS
  <2>1. ASSUME NEW h \in Host
        PROVE  /\ conn[h].active \in BOOLEAN /\ conn[h].state \in State
               /\ {conn[h].iss, conn[h].snd_una, conn[h].snd_nxt, conn[h].rcv_nxt}
                    \subseteq 0 .. SeqMod - 1
               /\ conn[h].snd_wnd \in 0 .. RecvSize
               /\ conn[h].recv \in Seq(Byte) /\ Len(conn[h].recv) <= RecvSize
               /\ conn[h].send \in Seq(Byte) /\ Len(conn[h].send) <= SendSize
               /\ conn[h].retries \in 0 .. MaxRetries
               /\ conn[h].app \in {"none", "held", "closed"}
               /\ conn[h].sent \in Nat /\ conn[h].got \in Seq(Byte)
    <3>1. Fit(conn[h]) BY DEF TcpInv
    <3> QED BY <3>1 DEF Fit, Conn, SeqNo, Chars
  <2> QED BY <2>1 DEF TypeOK, TcpInv, SeqNo
<1> QED BY <1>1, TcpInvHolds, PTL

\* The bytes in flight are those of the retransmission buffer, for any initial
\* sequence numbers (wraparound included) and any loss, repetition and
\* reordering: what tcp_timer() sends again from the start of the buffer
\* belongs at snd_una, unless an earlier retransmission was left half way.
THEOREM BuffersExact == Spec => []BufferExact
<1>1. TcpInv => BufferExact
  <2> SUFFICES ASSUME TcpInv, NEW h \in Host,
                      conn[h].state = "ESTABLISHED", conn[h].iss \notin cuts
               PROVE  Exact(conn[h])
    BY DEF BufferExact, Exact
  <2> QED BY DEF TcpInv, Clean
<1> QED BY <1>1, TcpInvHolds, PTL
-----------------------------------------------------------------------------
(* The streams: what both hosts and the network agree on. *)

\* The connections g has opened: the first number of each and what it may send.
Lines(g) ==
  {[iss |-> Isn[listening][g][i], cap |-> MaxBytes[listening][g][i]] : i \in 1 .. opens[g]}

Sending == {"ESTABLISHED", "CLOSE_WAIT"}
Bound(c) == c.state \notin {"CLOSED", "SYN_SENT"}
Stream(c) == c.got \o c.recv
IsAck(s, g) == s.to = g /\ "ACK" \in s.flags /\ "RST" \notin s.flags

\* The bytes 1, 2, ... of the connection that starts at x.
Whole(t, x, cut) == \A j \in 1 .. Len(t) : t[j].iss = x /\ (x \notin cut => t[j].pos = j)

\* A slot is that of its host's latest connection, the n-th.
Numbered(c, h, n, l) ==
  /\ n \in 0 .. Len(Isn[l][h])
  /\ n = 0 => c.state = "CLOSED"
  /\ n > 0 => c.iss = Isn[l][h][n] /\ c.sent <= MaxBytes[l][h][n]

\* A connection that is being opened has no streams yet; its SYN is counted.
OpenOk(c, l) ==
  c.state \in Opening =>
    /\ c.sent = 0 /\ Stream(c) = <<>>
    /\ l \/ c.state = "SYN_SENT" => Minus(c.snd_nxt, c.iss) = 1

\* A connection whose first byte has number iss + b, as its sender sees it.
Sender(c, b, cut) ==
  c.state \in Sending =>
    /\ b <= Minus(c.snd_una, c.iss) /\ Minus(c.snd_una, c.iss) <= Minus(c.snd_nxt, c.iss)
    /\ Minus(c.snd_nxt, c.iss) <= b + c.sent
    /\ c.iss \notin cut => Minus(c.snd_nxt, c.iss) = b + c.sent
    /\ \A k \in 1 .. Len(c.send) : c.send[k].iss = c.iss

\* As its receiver sees it: rcv_nxt follows the bytes taken so far.
Receiver(c, b, lines, cut) ==
  c.state \in {"SYN_RECEIVED", "ESTABLISHED"} =>
    \E r \in lines :
      /\ Minus(c.rcv_nxt, r.iss) = b + Len(Stream(c)) /\ Len(Stream(c)) <= r.cap
      /\ Whole(Stream(c), r.iss, cut)

\* A SYN carries iss; the SYN|ACK of a simultaneous open may carry iss + 1.
SynOk(s, lines, l) ==
  "SYN" \in s.flags =>
    /\ l /\ s.to = "client" => "ACK" \in s.flags
    /\ \E r \in lines :
         /\ Minus(s.seq, r.iss) \in {0, 1}
         /\ l \/ "ACK" \notin s.flags => Minus(s.seq, r.iss) = 0

\* Data is a stretch of one connection's stream, at its numbers.
DataOk(s, b, lines, cut) ==
  s.data # <<>> =>
    \E r \in lines :
      /\ b <= Minus(s.seq, r.iss) /\ Minus(s.seq, r.iss) + Len(s.data) <= b + r.cap
      /\ \A j \in 1 .. Len(s.data) :
           /\ s.data[j].iss = r.iss
           /\ r.iss \notin cut => s.data[j].pos = Minus(s.seq, r.iss) - b + j

\* Both ends and the network agree that g's first byte has number iss + b.
\* With a listener it is iss + 1.  In a simultaneous open it may be iss + 2,
\* and while g is still opening all acknowledgements ask for that number.
Agree(g, b) ==
  /\ b \in {1, 2} /\ (listening => b = 1)
  /\ Sender(conn[g], b, cuts)
  /\ Receiver(conn[Peer(g)], b, Lines(g), cuts)
  /\ \A s \in net : s.to = Peer(g) => DataOk(s, b, Lines(g), cuts)
  /\ ~listening /\ conn[g].state \in Opening =>
       /\ \A s \in net : IsAck(s, g) => Minus(s.ack, conn[g].iss) = b
       /\ Bound(conn[Peer(g)]) => Minus(conn[Peer(g)].rcv_nxt, conn[g].iss) = b

\* What has not happened yet when both hosts open: before the peer has taken
\* g's SYN nothing acknowledges g, which therefore has sent no data; and a g
\* that is opening has sent neither data nor a FIN.
Quiet(g) ==
  ~listening =>
    /\ conn[Peer(g)].state = "SYN_SENT" \/ opens[Peer(g)] = 0 =>
         /\ conn[g].state \notin Sending
         /\ \A s \in net : ~IsAck(s, g) /\ (s.to = Peer(g) => s.data = <<>>)
    /\ conn[g].state \in Opening \/ opens[g] = 0 =>
         \A s \in net : s.to = Peer(g) => "FIN" \notin s.flags /\ s.data = <<>>
    /\ opens[g] = 0 => ~Bound(conn[Peer(g)]) /\ \A s \in net : ~IsAck(s, g)

\* With a listener the client opens actively and the server passively.
Role(c, h) == (h = "client" => c.state # "SYN_RECEIVED") /\ (h = "server" => c.state # "SYN_SENT")

\* What a host keeps to by itself.
Alone(c, h, n, l, cut) ==
  /\ Numbered(c, h, n, l) /\ OpenOk(c, l) /\ (l => Role(c, h))
  /\ \E x \in SeqNo : Whole(Stream(c), x, cut)

StreamInv ==
  /\ \A g \in Host : Alone(conn[g], g, opens[g], listening, cuts)
  /\ \A g \in Host : \E b \in {1, 2} : Agree(g, b)
  /\ \A g \in Host : Quiet(g)
  /\ \A s \in net : SynOk(s, Lines(Peer(s.to)), listening)

\* How h, with both open, may go on to d: a step back to opening is not among it.
Joins(h, d, a) ==
  ~listening =>
    /\ d.state \in Opening => opens[h] = 0 \/ (conn[h].state \in Opening /\ d.iss = conn[h].iss)
    /\ d.state = "SYN_SENT" => opens[h] = 0 \/ conn[h].state = "SYN_SENT"
    /\ Bound(d) =>
         /\ opens[Peer(h)] # 0
         /\ conn[Peer(h)].state \in Opening => Minus(d.rcv_nxt, conn[Peer(h)].iss) = a
    /\ d.state \in Sending => conn[Peer(h)].state # "SYN_SENT"

\* A segment that h may send as it becomes d.
Utters(h, d, s, a, b, lines, cut) ==
  /\ s.to = Peer(h) /\ SynOk(s, lines, listening) /\ DataOk(s, b, lines, cut)
  /\ s.data # <<>> => d.state \in Sending
  /\ "FIN" \in s.flags => Bound(d) /\ d.state \notin Opening
  /\ IsAck(s, Peer(h)) =>
       /\ Bound(d)
       /\ ~listening /\ conn[Peer(h)].state \in Opening => Minus(s.ack, conn[Peer(h)].iss) = a
-----------------------------------------------------------------------------
(* One host's step and the other's view of it. *)

\* Two hosts.
LEMMA Peers ==
  ASSUME NEW h \in Host
  PROVE  /\ Peer(h) \in Host /\ Peer(h) # h /\ Peer(Peer(h)) = h
         /\ \A x \in Host : x = h \/ x = Peer(h)
<1>1. \A x \in Host : \E p \in Host : p # x BY DEF Host
<1>2. \A x \in Host : Peer(x) \in Host /\ Peer(x) # x BY <1>1 DEF Peer
<1>3. \A x, y, z \in Host : x # y /\ y # z => x = z BY DEF Host
<1>4. \A x \in Host : x = h \/ x = Peer(h) BY <1>2, <1>3
<1>5. Peer(Peer(h)) = h BY <1>2, <1>3
<1> QED BY <1>2, <1>4, <1>5

\* What one host says of the bytes survives further opens and further cuts.
LEMMA Monotone ==
  ASSUME NEW lines, NEW more, lines \subseteq more, NEW cut, NEW cut2, cut \subseteq cut2
  PROVE  /\ \A c, b : Sender(c, b, cut) => Sender(c, b, cut2)
         /\ \A c, b : Receiver(c, b, lines, cut) => Receiver(c, b, more, cut2)
         /\ \A s, b : DataOk(s, b, lines, cut) => DataOk(s, b, more, cut2)
         /\ \A s, l : SynOk(s, lines, l) => SynOk(s, more, l)
         /\ \A t, x : Whole(t, x, cut) => Whole(t, x, cut2)
<1>1. ASSUME NEW t, NEW x, Whole(t, x, cut) PROVE Whole(t, x, cut2) BY <1>1 DEF Whole
<1>2. ASSUME NEW c, NEW b, Sender(c, b, cut) PROVE Sender(c, b, cut2) BY <1>2 DEF Sender
<1>3. ASSUME NEW c, NEW b, Receiver(c, b, lines, cut) PROVE Receiver(c, b, more, cut2)
  BY <1>1, <1>3 DEF Receiver
<1>4. ASSUME NEW s, NEW b, DataOk(s, b, lines, cut) PROVE DataOk(s, b, more, cut2)
  BY <1>4 DEF DataOk
<1>5. ASSUME NEW s, NEW l, SynOk(s, lines, l) PROVE SynOk(s, more, l) BY <1>5 DEF SynOk
<1> QED BY <1>1, <1>2, <1>3, <1>4, <1>5

\* A step of one host: what it becomes and what it sends decide alone whether
\* the invariant is kept.
LEMMA Frame ==
  ASSUME TcpInv, StreamInv, NEW h \in Host, NEW d, NEW new, NEW a, NEW b,
         Agree(h, b), Agree(Peer(h), a),
         conn' = [conn EXCEPT ![h] = d], net' = net \cup new, listening' = listening,
         cuts \subseteq cuts', opens' \in [Host -> Nat],
         opens'[Peer(h)] = opens[Peer(h)], opens[h] <= opens'[h],
         Alone(d, h, opens'[h], listening, cuts),
         Sender(d, b, cuts'), Receiver(d, a, Lines(Peer(h)), cuts), Joins(h, d, a),
         \A s \in new : Utters(h, d, s, a, b, Lines(h)', cuts')
  PROVE  StreamInv'
<1> DEFINE g == Peer(h)
<1>1. g \in Host /\ g # h /\ Peer(g) = h /\ \A x \in Host : x = h \/ x = g BY Peers
<1>2. conn'[h] = d /\ conn'[g] = conn[g] BY <1>1 DEF TcpInv
<1>3. opens[h] \in Nat /\ opens'[h] \in Nat /\ opens[g] \in Nat /\ opens'[g] = opens[g]
  BY <1>1 DEF TcpInv
<1>4. Lines(h) \subseteq Lines(h)'
  <2>1. 1 .. opens[h] \subseteq 1 .. opens'[h] BY <1>3
  <2> QED BY <2>1 DEF Lines
<1>5. Lines(g)' = Lines(g) BY <1>3 DEF Lines
<1>6. \A x \in Host : Alone(conn'[x], x, opens'[x], listening', cuts')
  <2>1. Alone(conn[g], g, opens[g], listening, cuts) BY <1>1 DEF StreamInv
  <2>2. ASSUME NEW c, NEW x, NEW n, Alone(c, x, n, listening, cuts)
        PROVE  Alone(c, x, n, listening, cuts')
    <3>1. \A t, y : Whole(t, y, cuts) => Whole(t, y, cuts') BY Monotone
    <3> QED BY <2>2, <3>1 DEF Alone
  <2> QED BY <1>1, <1>2, <1>3, <2>1, <2>2
<1>7. /\ Sender(conn[g], a, cuts') /\ Receiver(conn[g], b, Lines(h)', cuts')
      /\ Receiver(d, a, Lines(g)', cuts')
      /\ \A s \in net : s.to = g => DataOk(s, b, Lines(h)', cuts')
      /\ \A s \in net : s.to = h => DataOk(s, a, Lines(g)', cuts')
  <2>1. Sender(conn[g], a, cuts) /\ Receiver(conn[g], b, Lines(h), cuts)
        /\ (\A s \in net : s.to = g => DataOk(s, b, Lines(h), cuts))
        /\ (\A s \in net : s.to = h => DataOk(s, a, Lines(g), cuts))
    BY <1>1 DEF Agree
  <2>2. /\ \A c, x : Sender(c, x, cuts) => Sender(c, x, cuts')
        /\ \A c, x : Receiver(c, x, Lines(h), cuts) => Receiver(c, x, Lines(h)', cuts')
        /\ \A s, x : DataOk(s, x, Lines(h), cuts) => DataOk(s, x, Lines(h)', cuts')
    BY <1>4, Monotone
  <2>3. /\ \A c, x : Receiver(c, x, Lines(g), cuts) => Receiver(c, x, Lines(g)', cuts')
        /\ \A s, x : DataOk(s, x, Lines(g), cuts) => DataOk(s, x, Lines(g)', cuts')
    <3>1. Lines(g) \subseteq Lines(g)' BY <1>5
    <3> QED BY <3>1, Monotone
  <2> QED BY <2>1, <2>2, <2>3
<1>8. ASSUME NEW s \in new
      PROVE  /\ s.to = g /\ s.to # h /\ SynOk(s, Lines(h)', listening)
             /\ DataOk(s, b, Lines(h)', cuts')
             /\ (s.data # <<>> => d.state \in Sending)
             /\ ("FIN" \in s.flags => Bound(d) /\ d.state \notin Opening)
             /\ ~IsAck(s, h)
             /\ (IsAck(s, g) =>
                  /\ Bound(d)
                  /\ ~listening /\ conn[g].state \in Opening => Minus(s.ack, conn[g].iss) = a)
  BY <1>1, <1>8 DEF Utters, IsAck
<1>9. Quiet(h) /\ Quiet(g) BY <1>1 DEF StreamInv
<1>10. opens'[h] = 0 => d.state = "CLOSED" /\ opens[h] = 0
  BY <1>3 DEF Alone, Numbered
<1>11. d.state \in Sending => Bound(d) BY DEF Sending, Bound
<1>12. Agree(h, b)'
  <2>1. ~listening /\ d.state \in Opening =>
          /\ \A s \in net : IsAck(s, h) => Minus(s.ack, d.iss) = b
          /\ Bound(conn[g]) => Minus(conn[g].rcv_nxt, d.iss) = b
    <3> SUFFICES ASSUME ~listening, d.state \in Opening
                 PROVE  /\ \A s \in net : IsAck(s, h) => Minus(s.ack, d.iss) = b
                        /\ Bound(conn[g]) => Minus(conn[g].rcv_nxt, d.iss) = b
      OBVIOUS
    <3>1. CASE opens[h] = 0 BY <1>9, <3>1 DEF Quiet
    <3>2. CASE conn[h].state \in Opening /\ d.iss = conn[h].iss BY <3>2 DEF Agree
    <3> QED BY <3>1, <3>2 DEF Joins
  <2>2. b \in {1, 2} /\ (listening => b = 1) BY DEF Agree
  <2> QED BY <1>1, <1>2, <1>7, <1>8, <2>1, <2>2 DEF Agree
<1>13. Agree(g, a)'
  <2>1. ~listening /\ conn[g].state \in Opening =>
          /\ \A s \in net' : IsAck(s, g) => Minus(s.ack, conn[g].iss) = a
          /\ Bound(d) => Minus(d.rcv_nxt, conn[g].iss) = a
    BY <1>8 DEF Agree, Joins
  <2>2. a \in {1, 2} /\ (listening => a = 1) BY DEF Agree
  <2> QED BY <1>1, <1>2, <1>7, <1>8, <2>1, <2>2 DEF Agree
<1>14. Quiet(h)'
  <2> SUFFICES ASSUME ~listening
               PROVE  /\ conn[g].state = "SYN_SENT" \/ opens[g] = 0 =>
                           /\ d.state \notin Sending
                           /\ \A s \in net' : ~IsAck(s, h) /\ (s.to = g => s.data = <<>>)
                      /\ d.state \in Opening \/ opens'[h] = 0 =>
                           \A s \in net' : s.to = g => "FIN" \notin s.flags /\ s.data = <<>>
                      /\ opens'[h] = 0 => ~Bound(conn[g]) /\ \A s \in net' : ~IsAck(s, h)
    BY <1>2, <1>3 DEF Quiet
  <2>1. conn[g].state = "SYN_SENT" \/ opens[g] = 0 =>
          /\ d.state \notin Sending
          /\ \A s \in net' : ~IsAck(s, h) /\ (s.to = g => s.data = <<>>)
    <3>1. conn[g].state = "SYN_SENT" \/ opens[g] = 0 => d.state \notin Sending
      BY <1>11 DEF Joins
    <3> QED BY <1>8, <1>9, <3>1 DEF Quiet
  <2>2. d.state \in Opening \/ opens'[h] = 0 =>
          \A s \in net' : s.to = g => "FIN" \notin s.flags /\ s.data = <<>>
    <3>1. d.state \in Opening \/ opens'[h] = 0 => conn[h].state \in Opening \/ opens[h] = 0
      BY <1>10 DEF Joins
    <3>2. d.state \in Opening \/ opens'[h] = 0 => d.state \notin Sending
      BY <1>10 DEF Opening, Sending
    <3>3. d.state = "CLOSED" => ~Bound(d) BY DEF Bound
    <3> QED BY <1>8, <1>9, <1>10, <3>1, <3>2, <3>3 DEF Quiet
  <2>3. opens'[h] = 0 => ~Bound(conn[g]) /\ \A s \in net' : ~IsAck(s, h)
    BY <1>8, <1>9, <1>10 DEF Quiet
  <2> QED BY <2>1, <2>2, <2>3
<1>15. Quiet(g)'
  <2> SUFFICES ASSUME ~listening
               PROVE  /\ d.state = "SYN_SENT" \/ opens'[h] = 0 =>
                           /\ conn[g].state \notin Sending
                           /\ \A s \in net' : ~IsAck(s, g) /\ (s.to = h => s.data = <<>>)
                      /\ conn[g].state \in Opening \/ opens[g] = 0 =>
                           \A s \in net' : s.to = h => "FIN" \notin s.flags /\ s.data = <<>>
                      /\ opens[g] = 0 => ~Bound(d) /\ \A s \in net' : ~IsAck(s, g)
    BY <1>1, <1>2, <1>3 DEF Quiet
  <2>1. d.state = "SYN_SENT" \/ opens'[h] = 0 =>
          /\ conn[g].state \notin Sending
          /\ \A s \in net' : ~IsAck(s, g) /\ (s.to = h => s.data = <<>>)
    <3>1. d.state = "SYN_SENT" \/ opens'[h] = 0 =>
            ~Bound(d) /\ (conn[h].state = "SYN_SENT" \/ opens[h] = 0)
      BY <1>10 DEF Joins, Bound, Opening
    <3> QED BY <1>1, <1>8, <1>9, <3>1 DEF Quiet
  <2>2. conn[g].state \in Opening \/ opens[g] = 0 =>
          \A s \in net' : s.to = h => "FIN" \notin s.flags /\ s.data = <<>>
    BY <1>1, <1>8, <1>9 DEF Quiet
  <2>3. opens[g] = 0 => ~Bound(d) /\ \A s \in net' : ~IsAck(s, g)
    BY <1>8, <1>9 DEF Quiet, Joins
  <2> QED BY <2>1, <2>2, <2>3
<1>16. ASSUME NEW s \in net' PROVE SynOk(s, Lines(Peer(s.to))', listening)
  <2>1. CASE s \in new BY <1>1, <1>8, <2>1
  <2>2. CASE s \in net
    <3>1. s.to \in Host BY <2>2 DEF TcpInv, Segment
    <3>2. Peer(s.to) = h \/ Peer(s.to) = g
      <4>1. Peer(s.to) \in Host BY <3>1, Peers
      <4> QED BY <1>1, <4>1
    <3>3. SynOk(s, Lines(Peer(s.to)), listening) BY <2>2 DEF StreamInv
    <3>4. CASE Peer(s.to) = h
      <4>1. SynOk(s, Lines(h), listening) BY <3>3, <3>4
      <4>2. SynOk(s, Lines(h)', listening) BY <1>4, <4>1, Monotone
      <4> QED BY <3>4, <4>2
    <3>5. CASE Peer(s.to) = g BY <1>5, <3>3, <3>5
    <3> QED BY <3>2, <3>4, <3>5
  <2> QED BY <2>1, <2>2
<1>17. a \in {1, 2} /\ b \in {1, 2} BY DEF Agree
<1> QED BY <1>1, <1>6, <1>12, <1>13, <1>14, <1>15, <1>16, <1>17 DEF StreamInv

-----------------------------------------------------------------------------
(* The numbers of the connections, and the steps of one host. *)

\* The numbers of a host's connections.
LEMMA LinesAre ==
  ASSUME FreshNumbers, TcpInv, StreamInv, NEW g \in Host, NEW r \in Lines(g)
  PROVE  /\ r.iss \in SeqNo /\ r.cap \in Nat /\ r.cap + 3 < SeqMod
         /\ opens[g] # 0
         /\ ~listening => r.iss = conn[g].iss
<1>1. PICK i \in 1 .. opens[g] : r = [iss |-> Isn[listening][g][i], cap |-> MaxBytes[listening][g][i]]
  BY DEF Lines
<1>2. listening \in BOOLEAN /\ opens[g] \in Nat BY DEF TcpInv
<1>3. Alone(conn[g], g, opens[g], listening, cuts) BY DEF StreamInv
<1>4. opens[g] \in 0 .. Len(Isn[listening][g]) /\ (opens[g] > 0 => conn[g].iss = Isn[listening][g][opens[g]])
  BY <1>3 DEF Alone, Numbered
<1>5. Isn[listening][g] \in Seq(SeqNo) /\ MaxBytes[listening][g] \in Seq(Nat)
      /\ Len(MaxBytes[listening][g]) = Len(Isn[listening][g])
  BY <1>2, TcpAssumption DEF SeqNo
<1>6. i \in 1 .. Len(Isn[listening][g]) /\ opens[g] # 0 BY <1>2, <1>4, <1>5
<1>7. DOMAIN Isn[listening][g] = 1 .. Len(Isn[listening][g]) BY <1>5
<1>8. MaxBytes[listening][g][i] + 3 < SeqMod BY <1>2, <1>6, <1>7 DEF FreshNumbers
<1>9. ~listening => i = 1 /\ opens[g] = 1
  <2> SUFFICES ASSUME ~listening PROVE i = 1 /\ opens[g] = 1 OBVIOUS
  <2>1. listening = FALSE BY <1>2
  <2>2. Len(Isn[listening][g]) <= 1 BY <2>1 DEF FreshNumbers
  <2> QED BY <1>2, <1>4, <1>5, <1>6, <2>2
<1>10. Isn[listening][g][i] \in SeqNo /\ MaxBytes[listening][g][i] \in Nat BY <1>5, <1>6
<1>11. r.iss = Isn[listening][g][i] /\ r.cap = MaxBytes[listening][g][i] BY <1>1
<1>12. ~listening => r.iss = conn[g].iss BY <1>4, <1>9, <1>11
<1> QED BY <1>6, <1>8, <1>10, <1>11, <1>12

\* A number lies in the stream of at most one connection.
LEMMA OneLine ==
  ASSUME FreshNumbers, TcpInv, StreamInv, NEW g \in Host, NEW r \in Lines(g), NEW q \in Lines(g),
         NEW x \in SeqNo, NEW b \in {1, 2}, listening => b = 1,
         b <= Minus(x, r.iss), Minus(x, r.iss) <= b + r.cap,
         b <= Minus(x, q.iss), Minus(x, q.iss) <= b + q.cap
  PROVE  r = q
<1>1. PICK i \in 1 .. opens[g] : r = [iss |-> Isn[listening][g][i], cap |-> MaxBytes[listening][g][i]]
  BY DEF Lines
<1>2. PICK j \in 1 .. opens[g] : q = [iss |-> Isn[listening][g][j], cap |-> MaxBytes[listening][g][j]]
  BY DEF Lines
<1>3. listening \in BOOLEAN /\ opens[g] \in Nat BY DEF TcpInv
<1>4. opens[g] \in 0 .. Len(Isn[listening][g]) BY DEF StreamInv, Alone, Numbered
<1>5. Isn[listening][g] \in Seq(SeqNo) BY <1>3, TcpAssumption DEF SeqNo
<1>6. DOMAIN Isn[listening][g] = 1 .. Len(Isn[listening][g]) /\ Len(Isn[listening][g]) \in Nat BY <1>5
<1>7. i \in DOMAIN Isn[listening][g] /\ j \in DOMAIN Isn[listening][g] BY <1>3, <1>4, <1>6
<1>8. CASE ~listening
  <2>1. listening = FALSE BY <1>3, <1>8
  <2>2. Len(Isn[listening][g]) <= 1 BY <2>1 DEF FreshNumbers
  <2>3. i = j BY <1>6, <1>7, <2>2
  <2> QED BY <1>1, <1>2, <2>3
<1>9. CASE listening
  <2>1. r.iss \in SeqNo /\ q.iss \in SeqNo /\ r.cap \in Nat /\ q.cap \in Nat BY LinesAre
  <2> DEFINE m == Minus(x, r.iss)
             n == Minus(x, q.iss)
  <2>2. m \in Nat /\ n \in Nat BY <2>1, SeqNoTypes
  <2>3. Plus(r.iss, m) = x /\ Plus(q.iss, n) = x BY <2>1, PlusMinus
  <2>4. b = 1 /\ b <= m /\ m <= b + r.cap /\ b <= n /\ n <= b + q.cap BY <1>9
  <2> HIDE DEF m, n
  <2>5. m \in 1 .. r.cap + 1 /\ n \in 1 .. q.cap + 1 BY <2>1, <2>2, <2>4
  <2>6. r.iss = Isn[TRUE][g][i] /\ r.cap = MaxBytes[TRUE][g][i]
        /\ q.iss = Isn[TRUE][g][j] /\ q.cap = MaxBytes[TRUE][g][j]
        /\ i \in DOMAIN Isn[TRUE][g] /\ j \in DOMAIN Isn[TRUE][g]
    <3>1. listening = TRUE BY <1>3, <1>9
    <3> QED BY <1>1, <1>2, <1>7, <3>1
  <2>7. i # j => Plus(Isn[TRUE][g][i], m) # Plus(Isn[TRUE][g][j], n)
    BY <2>5, <2>6 DEF FreshNumbers
  <2>8. i = j BY <2>3, <2>6, <2>7
  <2> QED BY <1>1, <1>2, <2>8
<1> QED BY <1>8, <1>9

\* The connection in a slot is one of its host's.
LEMMA Latest ==
  ASSUME TcpInv, StreamInv, NEW h \in Host, conn[h].state # "CLOSED"
  PROVE  /\ [iss |-> conn[h].iss, cap |-> Budget(h)] \in Lines(h)
         /\ conn[h].sent <= Budget(h) /\ opens[h] # 0
<1>1. opens[h] \in Nat BY DEF TcpInv
<1>2. Alone(conn[h], h, opens[h], listening, cuts) BY DEF StreamInv
<1>3. opens[h] > 0 /\ conn[h].iss = Isn[listening][h][opens[h]]
      /\ conn[h].sent <= MaxBytes[listening][h][opens[h]]
  BY <1>1, <1>2 DEF Alone, Numbered
<1>4. opens[h] \in 1 .. opens[h] /\ opens[h] # 0 BY <1>1, <1>3
<1>5. [iss |-> Isn[listening][h][opens[h]], cap |-> MaxBytes[listening][h][opens[h]]] \in Lines(h)
  BY <1>4 DEF Lines
<1> QED BY <1>3, <1>4, <1>5 DEF Budget

\* The streams of a slot that fits.
LEMMA StreamIs ==
  ASSUME NEW c, Fit(c)
  PROVE  /\ Stream(c) \in Chars /\ Len(Stream(c)) \in Nat
         /\ Len(Stream(c)) = Len(c.got) + Len(c.recv)
<1>1. c.got \in Chars /\ c.recv \in Chars BY DEF Fit, Conn
<1>2. c.got \o c.recv \in Chars /\ Len(c.got \o c.recv) = Len(c.got) + Len(c.recv)
  BY <1>1, Joined
<1>3. \A t \in Chars : Len(t) \in Nat BY DEF Chars
<1> QED BY <1>2, <1>3 DEF Stream

\* What both ends have agreed on.
LEMMA Agreed ==
  ASSUME StreamInv, NEW h \in Host
  PROVE  \E a, b \in {1, 2} : Agree(h, b) /\ Agree(Peer(h), a)
BY Peers DEF StreamInv

\* An empty segment with neither SYN nor RST.
LEMMA Speaks ==
  ASSUME NEW h \in Host, NEW d, NEW e, NEW a, NEW b, NEW lines, NEW cut,
         NEW flags \in {{"ACK"}, {"FIN", "ACK"}}, Bound(d),
         "FIN" \in flags => d.state \notin Opening,
         ~listening /\ conn[Peer(h)].state \in Opening
           => Minus(e.rcv_nxt, conn[Peer(h)].iss) = a
  PROVE  Utters(h, d, Seg(h, e, flags, <<>>), a, b, lines, cut)
<1> DEFINE s == Seg(h, e, flags, <<>>)
<1>1. s.to = Peer(h) /\ s.flags = flags /\ s.ack = e.rcv_nxt /\ s.data = <<>> BY DEF Seg
<1>2. "SYN" \notin s.flags BY <1>1
<1> HIDE DEF s
<1>3. SynOk(s, lines, listening) BY <1>2 DEF SynOk
<1>4. DataOk(s, b, lines, cut) BY <1>1 DEF DataOk
<1>5. Utters(h, d, s, a, b, lines, cut) BY <1>1, <1>3, <1>4 DEF Utters
<1> QED BY <1>5 DEF s

\* A reset.
LEMMA RstUtters ==
  ASSUME NEW h \in Host, NEW d, NEW a, NEW b, NEW lines, NEW cut
  PROVE  Utters(h, d, Rst(h), a, b, lines, cut)
<1> DEFINE s == Rst(h)
<1>1. s.to = Peer(h) /\ s.flags = {"RST", "ACK"} /\ s.data = <<>> BY DEF Rst
<1>2. "SYN" \notin s.flags /\ "FIN" \notin s.flags /\ "RST" \in s.flags BY <1>1
<1> HIDE DEF s
<1>3. SynOk(s, lines, listening) /\ DataOk(s, b, lines, cut) /\ ~IsAck(s, Peer(h))
  BY <1>1, <1>2 DEF SynOk, DataOk, IsAck
<1>4. Utters(h, d, s, a, b, lines, cut) BY <1>1, <1>2, <1>3 DEF Utters
<1> QED BY <1>4 DEF s

\* A slot that ends up CLOSED, perhaps with a reset.
LEMMA Ends ==
  ASSUME TcpInv, StreamInv, NEW h \in Host, NEW d, NEW new, new \subseteq {Rst(h)},
         conn' = [conn EXCEPT ![h] = d], net' = net \cup new,
         UNCHANGED <<opens, listening, cuts>>,
         d.state = "CLOSED", d.iss = conn[h].iss, d.sent = conn[h].sent,
         Stream(d) = Stream(conn[h])
  PROVE  StreamInv'
<1>1. PICK a, b \in {1, 2} : Agree(h, b) /\ Agree(Peer(h), a) BY Agreed
<1>2. Alone(conn[h], h, opens[h], listening, cuts) BY DEF StreamInv
<1>3. Alone(d, h, opens[h], listening, cuts)
  BY <1>2 DEF Alone, Numbered, OpenOk, Role, Opening
<1>4. Sender(d, b, cuts) /\ Receiver(d, a, Lines(Peer(h)), cuts) /\ Joins(h, d, a)
  BY DEF Sender, Receiver, Joins, Sending, Opening, Bound
<1>5. \A s \in new : Utters(h, d, s, a, b, Lines(h)', cuts') BY RstUtters
<1>6. opens' \in [Host -> Nat] /\ opens'[Peer(h)] = opens[Peer(h)] /\ opens[h] <= opens'[h]
      /\ opens'[h] = opens[h] /\ cuts' = cuts /\ listening' = listening
  BY DEF TcpInv
<1> QED BY <1>1, <1>3, <1>4, <1>5, <1>6, Frame

\* A connection that was bound to its peer stays so, or shuts its sending end:
\* the receiving side does not move.
LEMMA Stays ==
  ASSUME TcpInv, StreamInv, NEW h \in Host, NEW d, NEW new, NEW a, NEW b,
         Agree(h, b), Agree(Peer(h), a), Bound(conn[h]),
         conn' = [conn EXCEPT ![h] = d], net' = net \cup new,
         cuts \subseteq cuts', UNCHANGED <<opens, listening>>,
         d.iss = conn[h].iss, d.rcv_nxt = conn[h].rcv_nxt, Stream(d) = Stream(conn[h]),
         d.sent = conn[h].sent \/ d.sent <= Budget(h),
         \/ d.state = conn[h].state
         \/ d.state \in {"FIN_WAIT_1", "FIN_WAIT_2", "LAST_ACK", "TIME_WAIT"}
         \/ /\ conn[h].state = "SYN_RECEIVED" /\ d.state = "ESTABLISHED"
            /\ \E s \in net : IsAck(s, h),
         d.state \in Opening => d.sent = conn[h].sent
                                /\ (listening => Minus(d.snd_nxt, d.iss) = 1),
         Sender(d, b, cuts'),
         \A s \in new : Utters(h, d, s, a, b, Lines(h), cuts')
  PROVE  StreamInv'
<1> DEFINE c == conn[h]
           g == Peer(h)
<1>1. g \in Host /\ Peer(g) = h BY Peers
<1>2. Alone(c, h, opens[h], listening, cuts) /\ Quiet(h) /\ Quiet(g) BY <1>1 DEF StreamInv
<1>3. c.state # "CLOSED" /\ c.state # "SYN_SENT" BY DEF Bound
<1>4. c.sent <= Budget(h) /\ opens[h] # 0 BY <1>3, Latest
<1>5. Numbered(d, h, opens[h], listening) BY <1>2, <1>4 DEF Alone, Numbered, Budget
<1>6. OpenOk(d, listening)
  <2>1. d.state \in Opening => c.state \in Opening /\ d.state # "SYN_SENT"
    BY <1>3 DEF Opening
  <2> QED BY <1>2, <2>1 DEF Alone, OpenOk
<1>7. listening => Role(d, h) BY <1>2, <1>3 DEF Alone, Role
<1>8. Alone(d, h, opens[h], listening, cuts) BY <1>2, <1>5, <1>6, <1>7 DEF Alone
<1>9. Receiver(d, a, Lines(g), cuts)
  <2>1. Receiver(c, a, Lines(g), cuts) BY <1>1 DEF Agree
  <2>2. d.state \in {"SYN_RECEIVED", "ESTABLISHED"} => c.state \in {"SYN_RECEIVED", "ESTABLISHED"}
    OBVIOUS
  <2> QED BY <2>1, <2>2 DEF Receiver
<1>10. Joins(h, d, a)
  <2> SUFFICES ASSUME ~listening
               PROVE  /\ d.state \in Opening => c.state \in Opening /\ d.iss = c.iss
                      /\ d.state # "SYN_SENT"
                      /\ opens[g] # 0
                      /\ conn[g].state \in Opening => Minus(d.rcv_nxt, conn[g].iss) = a
                      /\ d.state \in Sending => conn[g].state # "SYN_SENT"
    BY DEF Joins
  <2>1. d.state \in Opening => c.state \in Opening BY DEF Opening
  <2>2. d.state # "SYN_SENT" BY <1>3
  <2>3. opens[g] # 0 BY <1>1, <1>2 DEF Quiet
  <2>4. conn[g].state \in Opening => Minus(d.rcv_nxt, conn[g].iss) = a BY <1>1 DEF Agree
  <2>5. d.state \in Sending => c.state \in Sending \/ \E s \in net : IsAck(s, h)
    BY DEF Sending
  <2>6. d.state \in Sending => conn[g].state # "SYN_SENT" BY <1>2, <2>5 DEF Quiet
  <2> QED BY <2>1, <2>2, <2>3, <2>4, <2>6
<1>11. Lines(h)' = Lines(h) /\ opens' = opens /\ listening' = listening BY DEF Lines
<1>12. opens' \in [Host -> Nat] /\ opens'[g] = opens[g] /\ opens[h] <= opens'[h]
  BY <1>11 DEF TcpInv
<1>13. Alone(d, h, opens'[h], listening, cuts) BY <1>8, <1>11
<1>14. \A s \in new : Utters(h, d, s, a, b, Lines(h)', cuts') BY <1>11
<1> QED BY <1>9, <1>10, <1>11, <1>12, <1>13, <1>14, Frame

-----------------------------------------------------------------------------
(* tcp_connect(). *)

\* What tcp_send_segment() leaves alone in the slot.
LEMMA SentKeeps ==
  ASSUME NEW c, Fit(c), NEW flags, NEW data \in Chars, NEW d, d = Sent(c, flags, data)
  PROVE  /\ Fit(d) /\ d.state = c.state /\ d.iss = c.iss /\ d.sent = c.sent
         /\ d.rcv_nxt = c.rcv_nxt /\ d.send = c.send /\ d.snd_una = c.snd_una
         /\ Stream(d) = Stream(c)
         /\ flags \cap {"SYN", "FIN"} = {} => d.snd_nxt = Plus(c.snd_nxt, Len(data))
         /\ flags \cap {"SYN", "FIN"} # {} => d.snd_nxt = Plus(c.snd_nxt, Len(data) + 1)
<1>1. Fit(d) /\ d = [c EXCEPT !.snd_nxt = d.snd_nxt]
      /\ (flags \cap {"SYN", "FIN"} = {} => d.snd_nxt = Plus(c.snd_nxt, Len(data)))
  BY SentFits
<1>2. c \in Conn BY DEF Fit
<1>3. \A x : LET e == [c EXCEPT !.snd_nxt = x] IN
             /\ e.state = c.state /\ e.iss = c.iss /\ e.sent = c.sent
             /\ e.rcv_nxt = c.rcv_nxt /\ e.send = c.send /\ e.snd_una = c.snd_una
             /\ e.got = c.got /\ e.recv = c.recv /\ e.snd_nxt = x
  BY <1>2 DEF Conn
<1>4. d.state = c.state /\ d.iss = c.iss /\ d.sent = c.sent
      /\ d.rcv_nxt = c.rcv_nxt /\ d.send = c.send /\ d.snd_una = c.snd_una
      /\ d.got = c.got /\ d.recv = c.recv
  <2>1. PICK x : d = [c EXCEPT !.snd_nxt = x] BY <1>1
  <2> QED BY <1>3, <2>1
<1>5. flags \cap {"SYN", "FIN"} # {} => d.snd_nxt = Plus(c.snd_nxt, Len(data) + 1)
  BY <1>3 DEF Sent
<1> QED BY <1>1, <1>4, <1>5 DEF Stream

\* Without data, SYN and FIN not even snd_nxt moves.
LEMMA AckKeeps ==
  ASSUME NEW c, Fit(c), NEW d, d = Sent(c, {"ACK"}, <<>>)
  PROVE  d.snd_nxt = c.snd_nxt
<1>1. <<>> \in Chars /\ Len(<<>>) = 0 /\ {"ACK"} \cap {"SYN", "FIN"} = {} BY DEF Chars
<1>2. d.snd_nxt = Plus(c.snd_nxt, 0) BY <1>1, SentKeeps
<1>3. c.snd_nxt \in SeqNo BY DEF Fit, Conn
<1> QED BY <1>2, <1>3, SeqNoTypes

\* A SYN alone moves snd_nxt by one.
LEMMA SynMoves ==
  ASSUME NEW c, Fit(c), NEW d, NEW flags \in {{"SYN"}, {"SYN", "ACK"}},
         d = Sent(c, flags, <<>>)
  PROVE  d.snd_nxt = Plus(c.snd_nxt, 1)
<1>1. <<>> \in Chars /\ Len(<<>>) + 1 = 1 /\ flags \cap {"SYN", "FIN"} # {} BY DEF Chars
<1> QED BY <1>1, SentKeeps

\* The number after iss.
LEMMA AfterIss ==
  ASSUME NEW x \in SeqNo, 1 < SeqMod
  PROVE  Minus(Plus(x, 1), x) = 1 /\ Minus(x, x) = 0
<1>1. Minus(x, x) = 0 BY SeqNoTypes
<1>2. Minus(x, x) + 1 < SeqMod BY <1>1
<1>3. Minus(Plus(x, 1), x) = Minus(x, x) + 1 BY <1>2, MinusPlus
<1> QED BY <1>1, <1>3

\* The slot an open starts from, and the numbers that it may use.
LEMMA OpenedAre ==
  ASSUME FreshNumbers, TcpInv, NEW h \in Host, MayOpen(h), NEW state \in State,
         NEW c, c = Opened(h, state)
  PROVE  /\ Fit(c) /\ c.state = state /\ c.sent = 0 /\ Stream(c) = <<>>
         /\ c.iss = Isn[listening][h][opens[h] + 1] /\ c.iss \in SeqNo /\ c.snd_nxt = c.iss
         /\ opens[h] + 1 \in 1 .. Len(Isn[listening][h])
         /\ 0 <= MaxBytes[listening][h][opens[h] + 1]
         /\ 3 < SeqMod /\ (~listening => opens[h] = 0)
<1> DEFINE n == opens[h] + 1
           iss == Isn[listening][h][n]
<1>1. listening \in BOOLEAN /\ opens[h] \in Nat BY DEF TcpInv
<1>2. Isn[listening][h] \in Seq(SeqNo) /\ MaxBytes[listening][h] \in Seq(Nat)
      /\ Len(MaxBytes[listening][h]) = Len(Isn[listening][h])
  BY <1>1, TcpAssumption DEF SeqNo
<1>3. n \in 1 .. Len(Isn[listening][h]) BY <1>1, <1>2 DEF MayOpen
<1>4. iss \in SeqNo /\ MaxBytes[listening][h][n] \in Nat /\ n \in DOMAIN Isn[listening][h]
  BY SMTT(30), <1>2, <1>3
<1>5. MaxBytes[listening][h][n] + 3 < SeqMod BY <1>1, <1>4 DEF FreshNumbers
<1>6. 3 < SeqMod BY SMTT(30), <1>4, <1>5, TcpAssumption
<1>7. ~listening => opens[h] = 0
  <2> SUFFICES ASSUME ~listening PROVE opens[h] = 0 OBVIOUS
  <2>1. listening = FALSE BY <1>1
  <2>2. Len(Isn[listening][h]) <= 1 BY <2>1 DEF FreshNumbers
  <2> QED BY <1>1, <1>2, <1>3, <2>2
<1>8. c = [NewConn EXCEPT !.iss = iss, !.snd_una = iss, !.snd_nxt = iss, !.state = state]
  BY DEF Opened
<1> HIDE DEF iss
<1>9. NewConn \in Conn BY NewFits DEF Fit
<1>10. NewConn.got = <<>> /\ NewConn.recv = <<>> /\ NewConn.sent = 0 BY DEF NewConn
<1>11. c.sent = 0 /\ c.got = <<>> /\ c.recv = <<>> /\ c.iss = iss /\ c.snd_nxt = iss
  BY <1>8, <1>9, <1>10 DEF Conn
<1>12. Stream(c) = <<>> BY <1>11 DEF Stream
<1>13. Fit(c) /\ c.state = state BY OpenedIs
<1> QED BY <1>3, <1>4, <1>6, <1>7, <1>11, <1>12, <1>13 DEF iss

\* The empty stream is nobody's.
LEMMA NoBytes == \A cut : \E x \in SeqNo : Whole(<<>>, x, cut)
<1>1. 0 \in SeqNo BY SeqNoTypes
<1>2. 1 .. Len(<<>>) = {} OBVIOUS
<1>3. \A cut : Whole(<<>>, 0, cut) BY <1>2 DEF Whole
<1> QED BY <1>1, <1>3

\* A host that sends the SYN of an active open, for the first time or again.
LEMMA Syns ==
  ASSUME TcpInv, StreamInv, NEW h \in Host, NEW d, NEW s, NEW cap,
         conn' = [conn EXCEPT ![h] = d], net' = net \cup {s},
         UNCHANGED <<listening, cuts>>, opens' \in [Host -> Nat],
         opens'[Peer(h)] = opens[Peer(h)], opens[h] <= opens'[h],
         Numbered(d, h, opens'[h], listening), d.state = "SYN_SENT", d.iss \in SeqNo,
         d.sent = 0, Stream(d) = <<>>, d.snd_nxt = Plus(d.iss, 1), 1 < SeqMod,
         s.to = Peer(h), s.flags = {"SYN"}, s.data = <<>>, s.seq = d.iss,
         [iss |-> d.iss, cap |-> cap] \in Lines(h)', listening => h = "client",
         ~listening => opens[h] = 0 \/ (conn[h].state = "SYN_SENT" /\ d.iss = conn[h].iss)
  PROVE  StreamInv'
<1>1. PICK a, b \in {1, 2} : Agree(h, b) /\ Agree(Peer(h), a) BY Agreed
<1>2. Minus(d.snd_nxt, d.iss) = 1 /\ Minus(s.seq, d.iss) = 0 BY AfterIss
<1>3. Alone(d, h, opens'[h], listening, cuts)
  <2>1. OpenOk(d, listening) BY <1>2 DEF OpenOk
  <2>2. listening => Role(d, h) BY DEF Role
  <2>3. \E x \in SeqNo : Whole(Stream(d), x, cuts) BY NoBytes
  <2> QED BY <2>1, <2>2, <2>3 DEF Alone
<1>4. Sender(d, b, cuts) /\ Receiver(d, a, Lines(Peer(h)), cuts) /\ Joins(h, d, a)
  BY DEF Sender, Receiver, Joins, Sending, Opening, Bound
<1>5. Utters(h, d, s, a, b, Lines(h)', cuts)
  <2>1. SynOk(s, Lines(h)', listening)
    <3>1. listening => s.to # "client" BY Peers
    <3>2. \E r \in Lines(h)' : Minus(s.seq, r.iss) = 0
      <4> WITNESS [iss |-> d.iss, cap |-> cap] \in Lines(h)'
      <4> QED BY <1>2
    <3> QED BY <3>1, <3>2 DEF SynOk
  <2>2. "FIN" \notin s.flags /\ "ACK" \notin s.flags OBVIOUS
  <2> QED BY <2>1, <2>2 DEF Utters, DataOk, IsAck
<1>6. cuts' = cuts /\ cuts \subseteq cuts' /\ listening' = listening OBVIOUS
<1> DEFINE new == {s}
<1>7. Sender(d, b, cuts') /\ net' = net \cup new
      /\ \A t \in new : Utters(h, d, t, a, b, Lines(h)', cuts')
  BY <1>4, <1>5, <1>6
<1> HIDE DEF new
<1> QED BY <1>1, <1>3, <1>4, <1>6, <1>7, Frame

\* tcp_connect().
LEMMA ConnectStreams ==
  ASSUME FreshNumbers, TcpInv, StreamInv, NEW h \in Host, tcp_connect(h) PROVE StreamInv'
<1> DEFINE o == Opened(h, "SYN_SENT")
           c == [o EXCEPT !.app = "held"]
           d == Sent(c, {"SYN"}, <<>>)
           s == Seg(h, c, {"SYN"}, <<>>)
           n == opens[h] + 1
<1>1. "SYN_SENT" \in State /\ MayOpen(h) BY DEF State, tcp_connect
<1>2. /\ Fit(o) /\ o.state = "SYN_SENT" /\ o.sent = 0 /\ Stream(o) = <<>>
      /\ o.iss = Isn[listening][h][n] /\ o.iss \in SeqNo /\ o.snd_nxt = o.iss
      /\ n \in 1 .. Len(Isn[listening][h]) /\ 0 <= MaxBytes[listening][h][n]
      /\ 3 < SeqMod /\ (~listening => opens[h] = 0)
  BY <1>1, OpenedAre
<1>3. conn' = [conn EXCEPT ![h] = d] /\ net' = net \cup {s}
      /\ opens' = [opens EXCEPT ![h] = n] /\ UNCHANGED <<listening, cuts>>
  BY DEF tcp_connect, tcp_send_segment
<1> HIDE DEF o
<1>4. /\ Fit(c) /\ c.state = o.state /\ c.sent = o.sent /\ Stream(c) = Stream(o)
      /\ c.iss = o.iss /\ c.snd_nxt = o.snd_nxt
  BY <1>2 DEF Fit, Conn, Stream
<1>5. s.to = Peer(h) /\ s.flags = {"SYN"} /\ s.data = <<>> /\ s.seq = c.snd_nxt BY DEF Seg
<1> HIDE DEF c
<1>6. <<>> \in Chars BY DEF Chars
<1>7. d.state = c.state /\ d.iss = c.iss /\ d.sent = c.sent /\ Stream(d) = Stream(c)
      /\ d.snd_nxt = Plus(c.snd_nxt, 1)
  BY <1>4, <1>6, SentKeeps, SynMoves
<1> HIDE DEF d, s
<1>8. opens[h] \in Nat /\ n \in Nat BY DEF TcpInv
<1>9. opens' \in [Host -> Nat] /\ opens'[Peer(h)] = opens[Peer(h)] /\ opens[h] <= opens'[h]
      /\ opens'[h] = n /\ n > 0
  <2>1. Peer(h) \in Host /\ Peer(h) # h BY Peers
  <2> QED BY <1>3, <1>8, <2>1 DEF TcpInv
<1>10. Numbered(d, h, opens'[h], listening)
  <2>1. n \in 0 .. Len(Isn[listening][h]) /\ n # 0 BY <1>2, <1>8
  <2> QED BY <1>2, <1>4, <1>7, <1>9, <2>1 DEF Numbered
<1>11. [iss |-> d.iss, cap |-> MaxBytes[listening][h][n]] \in Lines(h)'
  <2>1. n \in 1 .. opens'[h] BY <1>8, <1>9
  <2>2. d.iss = Isn[listening][h][n] BY <1>2, <1>4, <1>7
  <2> QED BY <1>3, <2>1, <2>2 DEF Lines
<1>12. listening => h = "client" BY DEF tcp_connect, Host
<1>13. 1 < SeqMod BY <1>2, TcpAssumption
<1>14. /\ d.state = "SYN_SENT" /\ d.iss \in SeqNo /\ d.sent = 0 /\ Stream(d) = <<>>
       /\ d.snd_nxt = Plus(d.iss, 1) /\ s.seq = d.iss
  BY <1>2, <1>4, <1>5, <1>7
<1> QED BY <1>2, <1>3, <1>5, <1>9, <1>10, <1>11, <1>12, <1>13, <1>14, Syns

-----------------------------------------------------------------------------
(* The listener takes a SYN. *)

\* A SYN that is taken settles where the peer's stream starts: at the number
\* after the SYN's.  Nothing relied on another number before.
LEMMA Binds ==
  ASSUME FreshNumbers, TcpInv, StreamInv, NEW h \in Host, NEW s \in net, s.to = h,
         "SYN" \in s.flags, listening \/ conn[h].state = "SYN_SENT"
  PROVE  \E a \in {1, 2} :
           /\ Agree(Peer(h), a)
           /\ \E r \in Lines(Peer(h)) : Minus(Plus(s.seq, 1), r.iss) = a
           /\ opens[Peer(h)] # 0
           /\ ~listening => Minus(Plus(s.seq, 1), conn[Peer(h)].iss) = a
<1> DEFINE g == Peer(h)
<1>1. g \in Host /\ Peer(g) = h BY Peers
<1>2. SynOk(s, Lines(g), listening) BY DEF StreamInv
<1>3. PICK r \in Lines(g) : /\ Minus(s.seq, r.iss) \in {0, 1}
                            /\ listening \/ "ACK" \notin s.flags => Minus(s.seq, r.iss) = 0
  BY <1>2 DEF SynOk
<1>4. r.iss \in SeqNo /\ r.cap \in Nat /\ r.cap + 3 < SeqMod /\ opens[g] # 0
      /\ (~listening => r.iss = conn[g].iss)
  BY <1>1, LinesAre
<1>5. s.seq \in SeqNo BY DEF TcpInv, Segment, SeqNo
<1> DEFINE a == Minus(s.seq, r.iss) + 1
<1>6. a \in {1, 2} /\ (listening => a = 1) BY <1>3
<1>7. Minus(Plus(s.seq, 1), r.iss) = a
  <2>1. Minus(s.seq, r.iss) + 1 < SeqMod BY <1>3, <1>4, TcpAssumption
  <2> QED BY <1>4, <1>5, <2>1, MinusPlus
<1> HIDE DEF a
<1>8. Agree(g, a)
  <2>1. CASE listening
    <3>1. PICK x \in {1, 2} : Agree(g, x) BY <1>1 DEF StreamInv
    <3>2. x = 1 /\ a = 1 BY <1>6, <2>1, <3>1 DEF Agree
    <3> QED BY <3>1, <3>2
  <2>2. CASE ~listening
    <3>1. conn[h].state = "SYN_SENT" /\ Quiet(g) BY <1>1, <2>2 DEF StreamInv
    <3>2. conn[g].state \notin Sending /\ \A t \in net : ~IsAck(t, g) /\ (t.to = h => t.data = <<>>)
      BY <1>1, <2>2, <3>1 DEF Quiet
    <3>3. Sender(conn[g], a, cuts) BY <3>2 DEF Sender
    <3>4. Receiver(conn[h], a, Lines(g), cuts) BY <3>1 DEF Receiver
    <3>5. \A t \in net : t.to = h => DataOk(t, a, Lines(g), cuts) BY <3>2 DEF DataOk
    <3>6. ~Bound(conn[h]) BY <3>1 DEF Bound
    <3> QED BY <1>1, <1>6, <3>2, <3>3, <3>4, <3>5, <3>6 DEF Agree
  <2> QED BY <2>1, <2>2
<1> QED BY <1>3, <1>4, <1>6, <1>7, <1>8

\* A SYN|ACK: it acknowledges where the peer's stream starts.
LEMMA SpeaksSyn ==
  ASSUME NEW h \in Host, NEW d, NEW e, NEW a, NEW b, NEW lines, NEW cut, NEW r \in lines,
         Bound(d), Minus(e.snd_nxt, r.iss) \in {0, 1},
         listening => Minus(e.snd_nxt, r.iss) = 0,
         ~listening /\ conn[Peer(h)].state \in Opening
           => Minus(e.rcv_nxt, conn[Peer(h)].iss) = a
  PROVE  Utters(h, d, Seg(h, e, {"SYN", "ACK"}, <<>>), a, b, lines, cut)
<1> DEFINE s == Seg(h, e, {"SYN", "ACK"}, <<>>)
<1>1. s.to = Peer(h) /\ s.flags = {"SYN", "ACK"} /\ s.ack = e.rcv_nxt /\ s.data = <<>>
      /\ s.seq = e.snd_nxt
  BY DEF Seg
<1>2. "ACK" \in s.flags /\ "FIN" \notin s.flags BY <1>1
<1> HIDE DEF s
<1>3. SynOk(s, lines, listening) BY <1>1, <1>2 DEF SynOk
<1>4. DataOk(s, b, lines, cut) BY <1>1 DEF DataOk
<1>5. Utters(h, d, s, a, b, lines, cut) BY <1>1, <1>2, <1>3, <1>4 DEF Utters
<1> QED BY <1>5 DEF s

\* A slot whose stream from the peer has just started.
LEMMA Starts ==
  ASSUME NEW d, NEW a \in {1, 2}, NEW lines, NEW cut, NEW r \in lines, r.cap \in Nat,
         Minus(d.rcv_nxt, r.iss) = a, Stream(d) = <<>>
  PROVE  Receiver(d, a, lines, cut)
<1>1. Len(<<>>) = 0 /\ 1 .. 0 = {} OBVIOUS
<1>2. Whole(Stream(d), r.iss, cut) BY <1>1 DEF Whole
<1>3. Minus(d.rcv_nxt, r.iss) = a + Len(Stream(d)) /\ Len(Stream(d)) <= r.cap BY <1>1
<1> QED BY <1>2, <1>3 DEF Receiver

\* The listener takes a SYN.
LEMMA PassiveStreams ==
  ASSUME FreshNumbers, TcpInv, StreamInv, NEW s \in net, PassiveOpen(s) PROVE StreamInv'
<1> DEFINE h == "server"
           o == Opened(h, "SYN_RECEIVED")
           c == [o EXCEPT !.rcv_nxt = Plus(s.seq, 1), !.snd_wnd = s.wnd]
           d == Sent(c, {"SYN", "ACK"}, <<>>)
           n == opens[h] + 1
           new == {Seg(h, c, {"SYN", "ACK"}, <<>>)}
<1>1. "SYN_RECEIVED" \in State /\ MayOpen(h) /\ listening /\ s.to = h /\ "SYN" \in s.flags
      /\ h \in Host /\ s \in Segment
  BY DEF State, PassiveOpen, Host, TcpInv
<1> HIDE DEF h
<1>2. /\ Fit(o) /\ o.state = "SYN_RECEIVED" /\ o.sent = 0 /\ Stream(o) = <<>>
      /\ o.iss = Isn[listening][h][n] /\ o.iss \in SeqNo /\ o.snd_nxt = o.iss
      /\ n \in 1 .. Len(Isn[listening][h]) /\ 0 <= MaxBytes[listening][h][n] /\ 3 < SeqMod
  <2>1. "SYN_RECEIVED" \in State /\ MayOpen(h) /\ h \in Host BY <1>1
  <2>2. o = Opened(h, "SYN_RECEIVED") OBVIOUS
  <2> HIDE DEF o
  <2> QED BY <2>1, <2>2, OpenedAre
<1>3. conn' = [conn EXCEPT ![h] = d] /\ net' = net \cup new
      /\ opens' = [opens EXCEPT ![h] = n] /\ UNCHANGED <<listening, cuts>>
  BY DEF PassiveOpen, tcp_send_segment, h
<1>4. PICK b \in {1, 2} : Agree(h, b) BY <1>1 DEF StreamInv
<1>5. PICK a \in {1, 2} : Agree(Peer(h), a)
                          /\ \E r \in Lines(Peer(h)) : Minus(Plus(s.seq, 1), r.iss) = a
  BY <1>1, Binds
<1>6. PICK r \in Lines(Peer(h)) : Minus(Plus(s.seq, 1), r.iss) = a BY <1>5
<1>7. Peer(h) \in Host /\ Peer(h) # h BY <1>1, Peers
<1>8. r.cap \in Nat BY <1>7, LinesAre
<1> HIDE DEF o
<1>9. Plus(s.seq, 1) \in SeqNo /\ s.wnd \in 0 .. RecvSize
  BY <1>1, SeqNoTypes DEF Segment, SeqNo
<1>10. /\ Fit(c) /\ c.state = o.state /\ c.sent = o.sent /\ Stream(c) = Stream(o)
       /\ c.iss = o.iss /\ c.snd_nxt = o.snd_nxt /\ c.rcv_nxt = Plus(s.seq, 1)
  BY <1>2, <1>9 DEF Fit, Conn, Stream
<1> HIDE DEF c
<1>11. <<>> \in Chars BY DEF Chars
<1>12. d.state = c.state /\ d.iss = c.iss /\ d.sent = c.sent /\ Stream(d) = Stream(c)
       /\ d.snd_nxt = Plus(c.snd_nxt, 1) /\ d.rcv_nxt = c.rcv_nxt
  BY <1>10, <1>11, SentKeeps, SynMoves
<1> HIDE DEF d
<1>13. d.state = "SYN_RECEIVED" /\ d.iss = Isn[listening][h][n] /\ d.iss \in SeqNo
       /\ d.sent = 0 /\ Stream(d) = <<>> /\ d.snd_nxt = Plus(d.iss, 1)
       /\ d.rcv_nxt = Plus(s.seq, 1) /\ c.snd_nxt = d.iss
  BY <1>2, <1>10, <1>12
<1>14. 1 < SeqMod BY <1>2, TcpAssumption
<1>15. Minus(d.snd_nxt, d.iss) = 1 /\ Minus(c.snd_nxt, d.iss) = 0
  BY <1>13, <1>14, AfterIss
<1>16. opens[h] \in Nat /\ n \in Nat BY <1>1 DEF TcpInv
<1>17. opens' \in [Host -> Nat] /\ opens'[Peer(h)] = opens[Peer(h)] /\ opens[h] <= opens'[h]
       /\ opens'[h] = n /\ n > 0
  BY <1>1, <1>3, <1>7, <1>16 DEF TcpInv
<1>18. Alone(d, h, opens'[h], listening, cuts)
  <2>1. n \in 0 .. Len(Isn[listening][h]) /\ n # 0 BY <1>2, <1>16
  <2>2. Numbered(d, h, opens'[h], listening) BY <1>2, <1>13, <1>17, <2>1 DEF Numbered
  <2>3. OpenOk(d, listening) BY <1>13, <1>15 DEF OpenOk
  <2>4. Role(d, h) BY <1>13 DEF Role, h
  <2>5. \E x \in SeqNo : Whole(Stream(d), x, cuts) BY <1>13, NoBytes
  <2> QED BY <2>2, <2>3, <2>4, <2>5 DEF Alone
<1>19. Sender(d, b, cuts') /\ Joins(h, d, a)
  BY <1>1, <1>13 DEF Sender, Joins, Sending
<1>20. Receiver(d, a, Lines(Peer(h)), cuts) BY <1>6, <1>8, <1>13, Starts
<1>21. [iss |-> d.iss, cap |-> MaxBytes[listening][h][n]] \in Lines(h)'
  <2>1. n \in 1 .. opens'[h] BY <1>16, <1>17
  <2> QED BY <1>3, <1>13, <2>1 DEF Lines
<1>22. Utters(h, d, Seg(h, c, {"SYN", "ACK"}, <<>>), a, b, Lines(h)', cuts')
  <2> DEFINE q == [iss |-> d.iss, cap |-> MaxBytes[listening][h][n]]
  <2>1. q \in Lines(h)' /\ q.iss = d.iss BY <1>21
  <2> HIDE DEF q
  <2>2. Bound(d) BY <1>13 DEF Bound
  <2> QED BY <1>1, <1>15, <2>1, <2>2, SpeaksSyn
<1>23. \A t \in new : Utters(h, d, t, a, b, Lines(h)', cuts') BY <1>22
<1>24. cuts \subseteq cuts' /\ listening' = listening BY <1>3
<1> HIDE DEF new
<1> QED BY <1>1, <1>3, <1>4, <1>5, <1>17, <1>18, <1>19, <1>20, <1>23, <1>24, Frame

-----------------------------------------------------------------------------
(* A SYN arrives at a SYN_SENT connection. *)

\* A connection that is bound asks an opening peer for the agreed number.
LEMMA Asks ==
  ASSUME NEW h \in Host, NEW a, Agree(Peer(h), a), Bound(conn[h])
  PROVE  ~listening /\ conn[Peer(h)].state \in Opening
           => Minus(conn[h].rcv_nxt, conn[Peer(h)].iss) = a
BY Peers DEF Agree

\* A connection that is established has sent nothing yet.
LEMMA Established ==
  ASSUME NEW d, d.snd_una = d.snd_nxt, d.sent = 0, d.send = <<>>, NEW b \in {1, 2},
         Minus(d.snd_nxt, d.iss) = b, NEW cut
  PROVE  Sender(d, b, cut)
<1>1. 1 .. Len(d.send) = {} OBVIOUS
<1> QED BY <1>1 DEF Sender

\* The first acknowledgement tells where the stream of h starts: at snd_nxt.
LEMMA FirstAck ==
  ASSUME StreamInv, NEW h \in Host, NEW b, Agree(h, b), conn[h].state \in Opening,
         NEW s \in net, IsAck(s, h), s.ack = conn[h].snd_nxt
  PROVE  /\ b \in {1, 2} /\ Minus(conn[h].snd_nxt, conn[h].iss) = b
         /\ conn[h].sent = 0 /\ Stream(conn[h]) = <<>>
         /\ ~listening => conn[Peer(h)].state # "SYN_SENT"
<1>1. Alone(conn[h], h, opens[h], listening, cuts) /\ Quiet(h) BY DEF StreamInv
<1>2. OpenOk(conn[h], listening) BY <1>1 DEF Alone
<1>3. CASE listening BY <1>2, <1>3 DEF OpenOk, Agree
<1>4. CASE ~listening BY <1>1, <1>2, <1>4 DEF OpenOk, Agree, Quiet
<1> QED BY <1>3, <1>4

\* A SYN_SENT connection takes the peer's SYN.
LEMMA SynSentStreams ==
  ASSUME FreshNumbers, TcpInv, StreamInv, NEW h \in Host, NEW s \in net, s.to = h,
         "RST" \notin s.flags, HandleSynSent(h, s), UNCHANGED <<opens, listening, cuts>>
  PROVE  StreamInv'
<1> DEFINE c == conn[h]
           e == [c EXCEPT !.snd_una = s.ack, !.rcv_nxt = Plus(s.seq, 1),
                          !.snd_wnd = s.wnd, !.state = "ESTABLISHED"]
           f == [c EXCEPT !.rcv_nxt = Plus(s.seq, 1), !.state = "SYN_RECEIVED"]
<1>1. c.state = "SYN_SENT" /\ "SYN" \in s.flags /\ s \in Segment BY DEF HandleSynSent, TcpInv
<1>2. Fit(c) /\ c \in Conn /\ c.send = <<>> /\ c.iss \in SeqNo
  BY <1>1 DEF TcpInv, Fit, Clean, Opening, Conn
<1>3. Alone(c, h, opens[h], listening, cuts) BY DEF StreamInv
<1>4. c.sent = 0 /\ Stream(c) = <<>> /\ Minus(c.snd_nxt, c.iss) = 1
  BY <1>1, <1>3 DEF Alone, OpenOk, Opening
<1>5. Plus(s.seq, 1) \in SeqNo /\ s.wnd \in 0 .. RecvSize /\ s.ack \in SeqNo
  BY <1>1, SeqNoTypes DEF Segment, SeqNo
<1>6. PICK b \in {1, 2} : Agree(h, b) BY DEF StreamInv
<1>7. PICK a \in {1, 2} :
        /\ Agree(Peer(h), a)
        /\ \E r \in Lines(Peer(h)) : Minus(Plus(s.seq, 1), r.iss) = a
        /\ opens[Peer(h)] # 0
        /\ ~listening => Minus(Plus(s.seq, 1), conn[Peer(h)].iss) = a
  BY <1>1, Binds
<1>8. PICK r \in Lines(Peer(h)) : Minus(Plus(s.seq, 1), r.iss) = a BY <1>7
<1>9. r.cap \in Nat
  <2>1. Peer(h) \in Host BY Peers
  <2> QED BY <2>1, LinesAre
<1>10. <<>> \in Chars BY DEF Chars
<1>11. /\ Lines(h)' = Lines(h) /\ cuts' = cuts /\ cuts \subseteq cuts' /\ listening' = listening
       /\ opens' \in [Host -> Nat] /\ opens'[Peer(h)] = opens[Peer(h)] /\ opens[h] <= opens'[h]
       /\ opens' = opens
  BY DEF Lines, TcpInv
<1>12. ASSUME NEW d, NEW new, conn' = [conn EXCEPT ![h] = d], net' = net \cup new,
              d.iss = c.iss, d.sent = 0, Stream(d) = <<>>, d.rcv_nxt = Plus(s.seq, 1),
              \/ d.state = "ESTABLISHED"
              \/ d.state = "SYN_RECEIVED" /\ ~listening,
              d.state = "ESTABLISHED" /\ ~listening => conn[Peer(h)].state # "SYN_SENT",
              Sender(d, b, cuts), \A t \in new : Utters(h, d, t, a, b, Lines(h), cuts)
       PROVE  StreamInv'
  <2>1. Alone(d, h, opens'[h], listening, cuts)
    <3>1. Numbered(d, h, opens[h], listening)
      <4>1. c.sent = d.sent /\ c.iss = d.iss /\ c.state # "CLOSED" BY <1>1, <1>4, <1>12
      <4> QED BY <1>3, <4>1 DEF Alone, Numbered
    <3>2. OpenOk(d, listening) BY <1>12 DEF OpenOk, Opening
    <3>3. listening => Role(d, h) BY <1>12 DEF Role
    <3>4. \E x \in SeqNo : Whole(Stream(d), x, cuts) BY <1>12, NoBytes
    <3> QED BY <1>11, <3>1, <3>2, <3>3, <3>4 DEF Alone
  <2>2. Receiver(d, a, Lines(Peer(h)), cuts) BY <1>8, <1>9, <1>12, Starts
  <2>3. Joins(h, d, a) BY <1>1, <1>7, <1>12 DEF Joins, Opening, Sending
  <2>4. Sender(d, b, cuts') /\ \A t \in new : Utters(h, d, t, a, b, Lines(h)', cuts')
    BY <1>11, <1>12
  <2>5. conn' = [conn EXCEPT ![h] = d] /\ net' = net \cup new BY <1>12
  <2> QED BY <1>6, <1>7, <1>11, <2>1, <2>2, <2>3, <2>4, <2>5, Frame
<1>13. CASE /\ "ACK" \in s.flags /\ s.ack = c.snd_nxt
            /\ tcp_send_segment(h, e, {"ACK"}, <<>>)
  <2> DEFINE d == Sent(e, {"ACK"}, <<>>)
             new == {Seg(h, e, {"ACK"}, <<>>)}
  <2>1. conn' = [conn EXCEPT ![h] = d] /\ net' = net \cup new BY <1>13 DEF tcp_send_segment
  <2>2. /\ Fit(e) /\ e.state = "ESTABLISHED" /\ e.iss = c.iss /\ e.sent = c.sent
        /\ e.send = c.send /\ e.snd_una = s.ack /\ e.snd_nxt = c.snd_nxt
        /\ e.rcv_nxt = Plus(s.seq, 1) /\ Stream(e) = Stream(c)
    BY <1>2, <1>5 DEF Fit, Conn, State, Stream
  <2> HIDE DEF e
  <2>3. /\ d.state = e.state /\ d.iss = e.iss /\ d.sent = e.sent /\ d.rcv_nxt = e.rcv_nxt
        /\ d.send = e.send /\ d.snd_una = e.snd_una /\ Stream(d) = Stream(e)
        /\ d.snd_nxt = e.snd_nxt
    BY <1>10, <2>2, SentKeeps, AckKeeps
  <2> HIDE DEF d
  <2>4. IsAck(s, h) BY <1>13 DEF IsAck
  <2>5. Minus(c.snd_nxt, c.iss) = b /\ (~listening => conn[Peer(h)].state # "SYN_SENT")
    BY <1>1, <1>6, <1>13, <2>4, FirstAck DEF Opening
  <2>6. Sender(d, b, cuts)
    <3>1. d.snd_una = d.snd_nxt /\ d.sent = 0 /\ d.send = <<>> /\ Minus(d.snd_nxt, d.iss) = b
      BY <1>2, <1>4, <1>13, <2>2, <2>3, <2>5
    <3> QED BY <3>1, Established
  <2>7. Bound(d) BY <2>2, <2>3 DEF Bound
  <2>8. ~listening => Minus(e.rcv_nxt, conn[Peer(h)].iss) = a BY <1>7, <2>2
  <2>9. Utters(h, d, Seg(h, e, {"ACK"}, <<>>), a, b, Lines(h), cuts)
    <3>1. {"ACK"} \in {{"ACK"}, {"FIN", "ACK"}} /\ "FIN" \notin {"ACK"} OBVIOUS
    <3> QED BY <2>7, <2>8, <3>1, Speaks
  <2>10. \A t \in new : Utters(h, d, t, a, b, Lines(h), cuts) BY <2>9
  <2> HIDE DEF new
  <2>11. d.iss = c.iss /\ d.sent = 0 /\ Stream(d) = <<>> /\ d.rcv_nxt = Plus(s.seq, 1)
         /\ d.state = "ESTABLISHED"
    BY <1>4, <2>2, <2>3
  <2> QED BY <1>12, <2>1, <2>5, <2>6, <2>10, <2>11
<1>14. CASE "ACK" \notin s.flags /\ tcp_send_segment(h, f, {"SYN", "ACK"}, <<>>)
  <2> DEFINE d == Sent(f, {"SYN", "ACK"}, <<>>)
             new == {Seg(h, f, {"SYN", "ACK"}, <<>>)}
  <2>1. conn' = [conn EXCEPT ![h] = d] /\ net' = net \cup new BY <1>14 DEF tcp_send_segment
  <2>2. /\ Fit(f) /\ f.state = "SYN_RECEIVED" /\ f.iss = c.iss /\ f.sent = c.sent
        /\ f.snd_nxt = c.snd_nxt /\ f.rcv_nxt = Plus(s.seq, 1) /\ Stream(f) = Stream(c)
    BY <1>2, <1>5 DEF Fit, Conn, State, Stream
  <2> HIDE DEF f
  <2>3. /\ d.state = f.state /\ d.iss = f.iss /\ d.sent = f.sent /\ d.rcv_nxt = f.rcv_nxt
        /\ Stream(d) = Stream(f)
    BY <1>10, <2>2, SentKeeps
  <2> HIDE DEF d
  <2>4. ~listening
    <3>1. SynOk(s, Lines(Peer(s.to)), listening) BY DEF StreamInv
    <3>2. listening => h = "client" BY <1>1, <1>3 DEF Alone, Role, Host
    <3> QED BY <1>1, <1>14, <3>1, <3>2 DEF SynOk
  <2>5. Sender(d, b, cuts) BY <2>2, <2>3 DEF Sender, Sending
  <2>6. Bound(d) BY <2>2, <2>3 DEF Bound
  <2>7. Utters(h, d, Seg(h, f, {"SYN", "ACK"}, <<>>), a, b, Lines(h), cuts)
    <3> DEFINE q == [iss |-> c.iss, cap |-> Budget(h)]
    <3>1. q \in Lines(h) /\ q.iss = c.iss BY <1>1, Latest
    <3> HIDE DEF q
    <3>2. Minus(f.snd_nxt, q.iss) \in {0, 1} BY <1>4, <2>2, <3>1
    <3>3. Minus(f.rcv_nxt, conn[Peer(h)].iss) = a BY <1>7, <2>2, <2>4
    <3> QED BY <2>4, <2>6, <3>1, <3>2, <3>3, SpeaksSyn
  <2>8. \A t \in new : Utters(h, d, t, a, b, Lines(h), cuts) BY <2>7
  <2> HIDE DEF new
  <2>9. d.iss = c.iss /\ d.sent = 0 /\ Stream(d) = <<>> /\ d.rcv_nxt = Plus(s.seq, 1)
        /\ d.state = "SYN_RECEIVED"
    BY <1>4, <2>2, <2>3
  <2> QED BY <1>12, <2>1, <2>4, <2>5, <2>8, <2>9
<1>15. CASE net' = net \cup {Rst(h)} /\ UNCHANGED conn
  <2> DEFINE new == {Rst(h)}
  <2>1. Alone(c, h, opens'[h], listening, cuts) BY <1>3, <1>11
  <2>2. Sender(c, b, cuts') /\ Receiver(c, a, Lines(Peer(h)), cuts) /\ Joins(h, c, a)
    BY <1>1 DEF Sender, Receiver, Joins, Sending, Bound, Opening
  <2>3. \A t \in new : Utters(h, c, t, a, b, Lines(h)', cuts') BY RstUtters
  <2>4. conn' = [conn EXCEPT ![h] = c] /\ net' = net \cup new BY <1>15 DEF TcpInv
  <2> HIDE DEF new
  <2> QED BY <1>6, <1>7, <1>11, <2>1, <2>2, <2>3, <2>4, Frame
<1> QED BY <1>13, <1>14, <1>15 DEF HandleSynSent

-----------------------------------------------------------------------------
(* Steps that leave both streams where they are. *)

\* The first acknowledgement establishes a SYN_RECEIVED connection.
LEMMA SynReceivedStreams ==
  ASSUME TcpInv, StreamInv, NEW h \in Host, NEW s \in net, s.to = h, "RST" \notin s.flags,
         HandleSynReceived(h, s), UNCHANGED <<opens, listening, cuts>>
  PROVE  StreamInv'
<1> DEFINE c == conn[h]
           d == [c EXCEPT !.snd_una = s.ack, !.snd_wnd = s.wnd, !.state = "ESTABLISHED"]
<1>1. c.state = "SYN_RECEIVED" /\ "ACK" \in s.flags /\ s.ack = c.snd_nxt /\ Become(h, d)
  BY DEF HandleSynReceived
<1>2. Fit(c) /\ c \in Conn /\ c.send = <<>> BY <1>1 DEF TcpInv, Fit, Clean, Opening
<1>3. PICK a, b \in {1, 2} : Agree(h, b) /\ Agree(Peer(h), a) BY Agreed
<1>4. IsAck(s, h) BY <1>1 DEF IsAck
<1>5. Minus(c.snd_nxt, c.iss) = b /\ c.sent = 0 BY <1>1, <1>3, <1>4, FirstAck DEF Opening
<1>6. conn' = [conn EXCEPT ![h] = d] /\ net' = net \cup {} BY <1>1 DEF Become
<1>7. /\ d.state = "ESTABLISHED" /\ d.iss = c.iss /\ d.sent = c.sent /\ d.send = c.send
      /\ d.snd_una = s.ack /\ d.snd_nxt = c.snd_nxt /\ d.rcv_nxt = c.rcv_nxt
      /\ Stream(d) = Stream(c)
  BY <1>2 DEF Conn, Stream
<1> HIDE DEF d
<1>8. Sender(d, b, cuts)
  <2>1. d.snd_una = d.snd_nxt /\ d.sent = 0 /\ d.send = <<>> /\ Minus(d.snd_nxt, d.iss) = b
    BY <1>1, <1>2, <1>5, <1>7
  <2> QED BY <2>1, Established
<1>9. d.state \notin Opening /\ Bound(c) BY <1>1, <1>7 DEF Opening, Bound
<1>10. cuts \subseteq cuts' /\ cuts' = cuts /\ Sender(d, b, cuts') BY <1>8
<1>11. \E t \in net : IsAck(t, h) BY <1>4
<1> DEFINE new == {}
<1>12. net' = net \cup new /\ \A t \in new : Utters(h, d, t, a, b, Lines(h), cuts') BY <1>6
<1> HIDE DEF new
<1> QED BY <1>12, <1>1, <1>3, <1>6, <1>7, <1>8, <1>9, <1>10, <1>11, Stays

\* Nothing the sender relies on has moved.
LEMMA SenderSame ==
  ASSUME NEW c, NEW d, NEW b, NEW cut, Sender(c, b, cut),
         d.state \in Sending => d.state = c.state,
         d.iss = c.iss, d.sent = c.sent, d.send = c.send,
         d.snd_una = c.snd_una, d.snd_nxt = c.snd_nxt
  PROVE  Sender(d, b, cut)
BY DEF Sender

\* A connection that shuts its sending end has no stream to go on with.
LEMMA SenderShut ==
  ASSUME NEW d, NEW b, NEW cut, d.state \notin Sending PROVE Sender(d, b, cut)
BY DEF Sender

\* The SYN goes out again, from iss.
LEMMA TimerSynStreams ==
  ASSUME FreshNumbers, TcpInv, StreamInv, NEW h \in Host, TimerSyn(h),
         UNCHANGED <<opens, listening, cuts>>
  PROVE  StreamInv'
<1> DEFINE c == conn[h]
           e == [c EXCEPT !.retries = @ + 1, !.snd_nxt = c.iss]
           flags == IF c.state = "SYN_SENT" THEN {"SYN"} ELSE {"SYN", "ACK"}
           d == Sent(e, flags, <<>>)
           s == Seg(h, e, flags, <<>>)
<1>1. Fit(c) /\ c \in Conn /\ c.iss \in SeqNo BY DEF TcpInv, Fit, Conn
<1>2. c.state \in Opening /\ c.state # "CLOSED" BY DEF TimerSyn, Opening
<1>3. Alone(c, h, opens[h], listening, cuts) BY DEF StreamInv
<1>4. c.sent = 0 /\ Stream(c) = <<>> BY <1>2, <1>3 DEF Alone, OpenOk
<1>5. CASE GivesUp(c)
  <2> DEFINE f == Freed(c)
             new == {}
  <2>1. conn' = [conn EXCEPT ![h] = f] /\ net' = net \cup new BY <1>5 DEF TimerSyn, Become
  <2>2. f.state = "CLOSED" /\ f.iss = c.iss /\ f.sent = c.sent /\ Stream(f) = Stream(c)
    BY <1>1 DEF Freed, Conn, Stream
  <2>3. new \subseteq {Rst(h)} OBVIOUS
  <2> HIDE DEF f, new
  <2> QED BY <2>1, <2>2, <2>3, Ends
<1>6. CASE ~GivesUp(c)
  <2>1. conn' = [conn EXCEPT ![h] = d] /\ net' = net \cup {s}
    BY <1>6 DEF TimerSyn, tcp_send_segment
  <2>2. c.retries + 1 \in 0 .. MaxRetries BY <1>1, <1>6, Retried
  <2>3. /\ Fit(e) /\ e.state = c.state /\ e.iss = c.iss /\ e.sent = c.sent
        /\ e.snd_nxt = c.iss /\ e.rcv_nxt = c.rcv_nxt /\ Stream(e) = Stream(c)
    BY <1>1, <2>2 DEF Fit, Conn, Stream
  <2>4. s.to = Peer(h) /\ s.flags = flags /\ s.data = <<>> /\ s.seq = e.snd_nxt BY DEF Seg
  <2> HIDE DEF e
  <2>5. <<>> \in Chars /\ flags \in {{"SYN"}, {"SYN", "ACK"}} BY DEF Chars
  <2> HIDE DEF flags
  <2>6. d.state = c.state /\ d.iss = c.iss /\ d.sent = 0 /\ d.rcv_nxt = c.rcv_nxt
        /\ Stream(d) = <<>> /\ Stream(d) = Stream(c) /\ d.snd_nxt = Plus(c.iss, 1)
    <3>1. d.state = e.state /\ d.iss = e.iss /\ d.sent = e.sent /\ d.rcv_nxt = e.rcv_nxt
          /\ Stream(d) = Stream(e)
      BY <2>3, <2>5, SentKeeps
    <3>2. d.snd_nxt = Plus(e.snd_nxt, 1) BY <2>3, <2>5, SynMoves
    <3> QED BY <1>4, <2>3, <3>1, <3>2
  <2> HIDE DEF d
  <2> DEFINE q == [iss |-> c.iss, cap |-> Budget(h)]
  <2>7. q \in Lines(h) /\ q.iss = c.iss BY <1>2, Latest
  <2>8. 1 < SeqMod
    <3>1. q.cap \in Nat /\ q.cap + 3 < SeqMod BY <2>7, LinesAre
    <3> HIDE DEF q
    <3> QED BY <3>1, TcpAssumption
  <2>9. Minus(Plus(c.iss, 1), c.iss) = 1 /\ Minus(c.iss, c.iss) = 0 BY <1>1, <2>8, AfterIss
  <2>10. CASE c.state = "SYN_SENT"
    <3>1. Lines(h)' = Lines(h) /\ opens' = opens BY DEF Lines
    <3>2. opens' \in [Host -> Nat] /\ opens'[Peer(h)] = opens[Peer(h)] /\ opens[h] <= opens'[h]
      BY <3>1 DEF TcpInv
    <3>3. Numbered(d, h, opens'[h], listening)
      <4>1. d.sent = c.sent BY <1>4, <2>6
      <4> QED BY <1>3, <2>6, <3>1, <4>1 DEF Alone, Numbered
    <3>4. listening => h = "client" BY <1>3, <2>10 DEF Alone, Role, Host
    <3>5. s.flags = {"SYN"} BY <2>4, <2>10 DEF flags
    <3>6. [iss |-> d.iss, cap |-> Budget(h)] \in Lines(h)' BY <2>6, <2>7, <3>1
    <3>7. d.state = "SYN_SENT" /\ d.iss \in SeqNo /\ d.snd_nxt = Plus(d.iss, 1)
          /\ s.seq = d.iss /\ s.to = Peer(h) /\ s.data = <<>> /\ d.sent = 0 /\ Stream(d) = <<>>
      BY <1>1, <2>3, <2>4, <2>6, <2>10
    <3> HIDE DEF s
    <3> QED BY <2>1, <2>6, <2>8, <2>10, <3>2, <3>3, <3>4, <3>5, <3>6, <3>7, Syns
  <2>11. CASE c.state = "SYN_RECEIVED"
    <3>1. PICK a, b \in {1, 2} : Agree(h, b) /\ Agree(Peer(h), a) BY Agreed
    <3>2. Bound(c) /\ Bound(d) /\ d.state \notin Sending BY <2>6, <2>11 DEF Bound, Sending
    <3>3. ~listening /\ conn[Peer(h)].state \in Opening
            => Minus(e.rcv_nxt, conn[Peer(h)].iss) = a
      BY <2>3, <3>1, <3>2, Asks
    <3>4. Minus(e.snd_nxt, q.iss) = 0 BY <2>3, <2>7, <2>9
    <3>5. flags = {"SYN", "ACK"} BY <2>11 DEF flags
    <3> HIDE DEF q
    <3>6. Utters(h, d, s, a, b, Lines(h), cuts) BY <2>7, <3>2, <3>3, <3>4, <3>5, SpeaksSyn
    <3> DEFINE new == {s}
    <3>7. net' = net \cup new /\ \A t \in new : Utters(h, d, t, a, b, Lines(h), cuts')
      BY <2>1, <3>6
    <3> HIDE DEF new, s
    <3>8. Sender(d, b, cuts') BY <3>2, SenderShut
    <3>9. d.sent = c.sent /\ Minus(d.snd_nxt, d.iss) = 1 BY <1>4, <2>6, <2>9
    <3>10. cuts \subseteq cuts' OBVIOUS
    <3> QED BY <2>1, <2>6, <3>1, <3>2, <3>7, <3>8, <3>9, <3>10, Stays
  <2> QED BY <1>2, <2>10, <2>11 DEF Opening
<1> QED BY <1>5, <1>6

\* Accepting leaves the streams alone.
LEMMA AcceptStreams == ASSUME TcpInv, StreamInv, tcp_accept PROVE StreamInv'
<1> DEFINE h == "server"
           c == conn[h]
           d == [c EXCEPT !.app = "held"]
           new == {}
<1>1. h \in Host BY DEF Host
<1>2. c \in Conn /\ c.state = "ESTABLISHED" BY <1>1 DEF TcpInv, tcp_accept
<1>3. conn' = [conn EXCEPT ![h] = d] /\ net' = net \cup new
      /\ UNCHANGED <<opens, listening, cuts>>
  BY DEF tcp_accept, Become
<1> HIDE DEF h
<1>4. /\ d.state = c.state /\ d.iss = c.iss /\ d.sent = c.sent /\ d.send = c.send
      /\ d.snd_una = c.snd_una /\ d.snd_nxt = c.snd_nxt /\ d.rcv_nxt = c.rcv_nxt
      /\ Stream(d) = Stream(c)
  BY <1>2 DEF Conn, Stream
<1> HIDE DEF d
<1>5. PICK a, b \in {1, 2} : Agree(h, b) /\ Agree(Peer(h), a) BY <1>1, Agreed
<1>6. Sender(c, b, cuts) BY <1>5 DEF Agree
<1>7. Sender(d, b, cuts') BY <1>3, <1>4, <1>6, SenderSame
<1>8. Bound(c) /\ d.state \notin Opening BY <1>2, <1>4 DEF Bound, Opening
<1>9. cuts \subseteq cuts' /\ \A t \in new : Utters(h, d, t, a, b, Lines(h), cuts') BY <1>3
<1> HIDE DEF new
<1> QED BY <1>1, <1>3, <1>4, <1>5, <1>7, <1>8, <1>9, Stays

\* A host that only closes its sending end: the FIN goes out, or goes out again.
LEMMA FinStreams ==
  ASSUME TcpInv, StreamInv, NEW h \in Host, NEW e, Fit(e), NEW flags \in {{"ACK"}, {"FIN", "ACK"}},
         Bound(conn[h]), tcp_send_segment(h, e, flags, <<>>),
         UNCHANGED <<opens, listening, cuts>>,
         e.state \in {"FIN_WAIT_1", "LAST_ACK", "TIME_WAIT"}, e.iss = conn[h].iss,
         e.sent = conn[h].sent, e.rcv_nxt = conn[h].rcv_nxt, Stream(e) = Stream(conn[h])
  PROVE  StreamInv'
<1> DEFINE d == Sent(e, flags, <<>>)
           new == {Seg(h, e, flags, <<>>)}
<1>1. conn' = [conn EXCEPT ![h] = d] /\ net' = net \cup new BY DEF tcp_send_segment
<1>2. <<>> \in Chars BY DEF Chars
<1>3. d.state = e.state /\ d.iss = e.iss /\ d.sent = e.sent /\ d.rcv_nxt = e.rcv_nxt
      /\ Stream(d) = Stream(e)
  BY <1>2, SentKeeps
<1> HIDE DEF d
<1>4. PICK a, b \in {1, 2} : Agree(h, b) /\ Agree(Peer(h), a) BY Agreed
<1>5. Bound(d) /\ d.state \notin Opening /\ d.state \notin Sending
  BY <1>3 DEF Bound, Opening, Sending
<1>6. ~listening /\ conn[Peer(h)].state \in Opening
        => Minus(e.rcv_nxt, conn[Peer(h)].iss) = a
  BY <1>4, Asks
<1>7. Utters(h, d, Seg(h, e, flags, <<>>), a, b, Lines(h), cuts) BY <1>5, <1>6, Speaks
<1>8. cuts \subseteq cuts' /\ \A t \in new : Utters(h, d, t, a, b, Lines(h), cuts') BY <1>7
<1> HIDE DEF new
<1>9. Sender(d, b, cuts') BY <1>5, SenderShut
<1>10. d.state \in {"FIN_WAIT_1", "FIN_WAIT_2", "LAST_ACK", "TIME_WAIT"} BY <1>3
<1> QED BY <1>1, <1>3, <1>4, <1>5, <1>8, <1>9, <1>10, Stays

\* Freeing or resetting a slot.
LEMMA FreedStreams ==
  ASSUME TcpInv, StreamInv, NEW h \in Host, NEW d, Become(h, d),
         UNCHANGED <<opens, listening, cuts>>, d.state = "CLOSED",
         d.iss = conn[h].iss, d.sent = conn[h].sent, d.got = conn[h].got, d.recv = conn[h].recv
  PROVE  StreamInv'
<1> DEFINE new == {}
<1>1. conn' = [conn EXCEPT ![h] = d] /\ net' = net \cup new BY DEF Become
<1>2. new \subseteq {Rst(h)} /\ Stream(d) = Stream(conn[h]) BY DEF Stream
<1> HIDE DEF new
<1> QED BY <1>1, <1>2, Ends

\* Closing: the slot is freed, or a FIN goes out.
LEMMA CloseStreams == ASSUME TcpInv, StreamInv, NEW h \in Host, tcp_close(h) PROVE StreamInv'
<1> DEFINE b == conn[h]
           c == [b EXCEPT !.app = "closed"]
<1>1. Fit(b) /\ b \in Conn BY DEF TcpInv, Fit
<1>2. /\ Fit(c) /\ c.state = b.state /\ c.iss = b.iss /\ c.sent = b.sent
      /\ c.rcv_nxt = b.rcv_nxt /\ c.got = b.got /\ c.recv = b.recv /\ c \in Conn
  BY <1>1 DEF Fit, Conn
<1>3. UNCHANGED <<opens, listening, cuts>> BY DEF tcp_close
<1>4. CASE Become(h, Freed(c))
  <2> HIDE DEF c
  <2>1. Freed(c).state = "CLOSED" /\ Freed(c).iss = b.iss /\ Freed(c).sent = b.sent
        /\ Freed(c).got = b.got /\ Freed(c).recv = b.recv
    BY <1>2 DEF Freed, Conn
  <2> QED BY <1>3, <1>4, <2>1, FreedStreams
<1>5. ASSUME NEW st \in {"FIN_WAIT_1", "LAST_ACK"},
             b.state \in {"SYN_RECEIVED", "ESTABLISHED", "CLOSE_WAIT"},
             tcp_send_segment(h, [c EXCEPT !.state = st], {"FIN", "ACK"}, <<>>)
      PROVE  StreamInv'
  <2> HIDE DEF c
  <2> DEFINE e == [c EXCEPT !.state = st]
  <2>1. Fit(e) /\ e.state = st /\ e.iss = b.iss /\ e.sent = b.sent /\ e.rcv_nxt = b.rcv_nxt
        /\ Stream(e) = Stream(b)
    BY <1>2 DEF Fit, Conn, State, Stream
  <2>2. Bound(b) /\ {"FIN", "ACK"} \in {{"ACK"}, {"FIN", "ACK"}} BY <1>5 DEF Bound
  <2>3. tcp_send_segment(h, e, {"FIN", "ACK"}, <<>>) BY <1>5
  <2> HIDE DEF e
  <2> QED BY <1>3, <2>1, <2>2, <2>3, FinStreams
<1>6. \/ Become(h, Freed(c))
      \/ /\ b.state \in {"SYN_RECEIVED", "ESTABLISHED", "CLOSE_WAIT"}
         /\ \/ tcp_send_segment(h, [c EXCEPT !.state = "FIN_WAIT_1"], {"FIN", "ACK"}, <<>>)
            \/ tcp_send_segment(h, [c EXCEPT !.state = "LAST_ACK"], {"FIN", "ACK"}, <<>>)
  BY <1>2 DEF tcp_close
<1> QED BY <1>4, <1>5, <1>6

-----------------------------------------------------------------------------
(* tcp_recv(). *)

\* Two sequences with the same elements.
LEMMA SameSeq ==
  ASSUME NEW s \in Chars, NEW t \in Chars, Len(s) = Len(t),
         \A i \in 1 .. Len(s) : s[i] = t[i]
  PROVE  s = t
<1>1. s \in [1 .. Len(s) -> Byte] /\ t \in [1 .. Len(t) -> Byte] BY DEF Chars
<1> QED BY <1>1

\* Moving bytes from the buffer to the application keeps the stream.
LEMMA Moved ==
  ASSUME NEW u \in Chars, NEW s \in Chars, NEW n \in 1 .. Len(s)
  PROVE  (u \o SubSeq(s, 1, n)) \o SubSeq(s, n + 1, Len(s)) = u \o s
<1> DEFINE out == SubSeq(s, 1, n)
           rest == SubSeq(s, n + 1, Len(s))
<1>1. Len(s) \in Nat /\ Len(u) \in Nat /\ n \in Nat BY DEF Chars
<1>2. out \in Chars /\ Len(out) = n /\ \A i \in 1 .. n : out[i] = s[i]
  <2>1. 1 \in 1 .. Len(s) + 1 /\ n \in 0 .. Len(s) BY <1>1
  <2>2. out \in Chars /\ Len(out) = n /\ \A i \in 1 .. Len(out) : out[i] = s[1 + i - 1]
    BY <2>1, Part
  <2>3. \A i \in 1 .. n : 1 + i - 1 = i BY <1>1
  <2> QED BY <2>2, <2>3
<1>3. rest \in Chars /\ Len(rest) = Len(s) - n /\ \A i \in 1 .. Len(s) - n : rest[i] = s[n + i]
  <2>1. n + 1 \in 1 .. Len(s) + 1 /\ Len(s) \in 0 .. Len(s) BY <1>1
  <2>2. rest \in Chars /\ Len(rest) = (IF n + 1 <= Len(s) THEN Len(s) - (n + 1) + 1 ELSE 0)
        /\ \A i \in 1 .. Len(rest) : rest[i] = s[(n + 1) + i - 1]
    BY <2>1, Part
  <2>3. Len(rest) = Len(s) - n BY <1>1, <2>2
  <2>4. \A i \in 1 .. Len(s) - n : (n + 1) + i - 1 = n + i BY <1>1
  <2> QED BY <2>2, <2>3, <2>4
<1> HIDE DEF out, rest
<1> DEFINE t == u \o out
<1>4. t \in Chars /\ Len(t) = Len(u) + n
      /\ \A i \in 1 .. Len(u) + n : t[i] = IF i <= Len(u) THEN u[i] ELSE out[i - Len(u)]
  BY <1>2, Joined
<1> HIDE DEF t
<1>5. t \o rest \in Chars /\ Len(t \o rest) = Len(u) + Len(s)
      /\ \A i \in 1 .. Len(u) + Len(s) :
           (t \o rest)[i] = IF i <= Len(u) + n THEN t[i] ELSE rest[i - (Len(u) + n)]
  <2>1. Len(u) + n + (Len(s) - n) = Len(u) + Len(s) BY <1>1
  <2>2. t \o rest \in Chars /\ Len(t \o rest) = Len(t) + Len(rest)
        /\ \A i \in 1 .. Len(t) + Len(rest) :
             (t \o rest)[i] = IF i <= Len(t) THEN t[i] ELSE rest[i - Len(t)]
    BY <1>3, <1>4, Joined
  <2>3. Len(t) + Len(rest) = Len(u) + Len(s) BY <1>3, <1>4, <2>1
  <2> QED BY <1>4, <2>2, <2>3
<1>6. u \o s \in Chars /\ Len(u \o s) = Len(u) + Len(s)
      /\ \A i \in 1 .. Len(u) + Len(s) : (u \o s)[i] = IF i <= Len(u) THEN u[i] ELSE s[i - Len(u)]
  BY Joined
<1>7. ASSUME NEW i \in 1 .. Len(u) + Len(s) PROVE (t \o rest)[i] = (u \o s)[i]
  <2>1. CASE i <= Len(u)
    <3>1. i \in 1 .. Len(u) + n /\ i <= Len(u) + n BY <1>1, <2>1
    <3> QED BY <1>4, <1>5, <1>6, <2>1, <3>1
  <2>2. CASE Len(u) < i /\ i <= Len(u) + n
    <3>1. i \in 1 .. Len(u) + n /\ ~(i <= Len(u)) /\ i - Len(u) \in 1 .. n BY <1>1, <2>2
    <3>2. (t \o rest)[i] = out[i - Len(u)] BY <1>4, <1>5, <2>2, <3>1
    <3> QED BY <1>2, <1>6, <3>1, <3>2
  <2>3. CASE Len(u) + n < i
    <3>1. ~(i <= Len(u)) /\ ~(i <= Len(u) + n) /\ i - (Len(u) + n) \in 1 .. Len(s) - n
          /\ n + (i - (Len(u) + n)) = i - Len(u)
      BY <1>1, <2>3
    <3>2. (t \o rest)[i] = s[n + (i - (Len(u) + n))] BY <1>3, <1>5, <3>1
    <3> QED BY <1>6, <3>1, <3>2
  <2>4. i <= Len(u) \/ (Len(u) < i /\ i <= Len(u) + n) \/ Len(u) + n < i
    <3>1. \A x, y, z \in Nat : x <= y \/ (y < x /\ x <= y + z) \/ y + z < x OBVIOUS
    <3>2. i \in Nat BY <1>1
    <3> QED BY <1>1, <3>1, <3>2
  <2> QED BY <2>1, <2>2, <2>3, <2>4
<1>8. t \o rest = u \o s BY <1>5, <1>6, <1>7, SameSeq
<1> QED BY <1>8 DEF t, out, rest

\* tcp_recv() moves bytes to the application.
LEMMA RecvStreams ==
  ASSUME TcpInv, StreamInv, NEW h \in Host, NEW n \in 1 .. RecvSize, tcp_recv(h, n)
  PROVE  StreamInv'
<1> DEFINE c == conn[h]
           rest == SubSeq(c.recv, n + 1, Len(c.recv))
           out == SubSeq(c.recv, 1, n)
           e == [c EXCEPT !.recv = SubSeq(@, n + 1, Len(@)), !.got = @ \o SubSeq(c.recv, 1, n)]
           d == Sent(e, {"ACK"}, <<>>)
<1>1. Fit(c) /\ c \in Conn BY DEF TcpInv, Fit
<1>2. c.recv \in Chars /\ c.got \in Chars /\ n \in 1 .. Len(c.recv) /\ Len(c.recv) \in Nat
      /\ Len(c.recv) <= RecvSize
  BY <1>1 DEF Fit, Conn, tcp_recv, Chars
<1>3. UNCHANGED <<opens, listening, cuts>> BY DEF tcp_recv
<1>4. \/ /\ c.state \in {"ESTABLISHED", "CLOSE_WAIT"}
         /\ tcp_send_segment(h, e, {"ACK"}, <<>>)
      \/ Become(h, e)
  BY DEF tcp_recv
<1>5. (c.got \o out) \o rest = c.got \o c.recv BY <1>2, Moved
<1>6. rest \in Chars /\ Len(rest) <= RecvSize /\ c.got \o out \in Chars
  <2>1. n + 1 \in 1 .. Len(c.recv) + 1 /\ Len(c.recv) \in 0 .. Len(c.recv)
        /\ 1 \in 1 .. Len(c.recv) + 1 /\ n \in 0 .. Len(c.recv)
    BY <1>2
  <2>2. rest \in Chars /\ Len(rest) <= RecvSize BY SMTT(30), <1>2, <2>1, Part, TcpAssumption
  <2>3. out \in Chars BY <1>2, <2>1, Part
  <2> HIDE DEF rest, out
  <2> QED BY <1>2, <2>2, <2>3, Joined
<1>7. e = [c EXCEPT !.recv = rest, !.got = @ \o out] OBVIOUS
<1> DEFINE now == c.got \o out
<1>8. e = [c EXCEPT !.recv = rest, !.got = now] BY <1>1, <1>7 DEF Conn
<1> HIDE DEF rest, now, e
<1>9. /\ e.state = c.state /\ e.iss = c.iss /\ e.sent = c.sent /\ e.send = c.send
      /\ e.snd_una = c.snd_una /\ e.snd_nxt = c.snd_nxt /\ e.rcv_nxt = c.rcv_nxt
      /\ e.got = now /\ e.recv = rest
  BY <1>1, <1>8 DEF Conn
<1>10. Fit(e)
  <2>1. now \in Chars BY <1>6 DEF now
  <2> QED BY <1>1, <1>6, <1>8, <1>9, <2>1 DEF Fit, Conn
<1>11. Stream(e) = Stream(c) BY <1>5, <1>9 DEF Stream, now
<1>12. PICK a, b \in {1, 2} : Agree(h, b) /\ Agree(Peer(h), a) BY Agreed
<1>13. Sender(c, b, cuts) /\ Alone(c, h, opens[h], listening, cuts) BY <1>12 DEF Agree, StreamInv
<1>14. Sender(e, b, cuts) BY <1>9, <1>13, SenderSame
<1>15. c.state \notin Opening
  <2>1. Len(Stream(c)) = Len(c.got) + Len(c.recv) BY <1>1, StreamIs
  <2>2. Len(c.got) \in Nat BY <1>2 DEF Chars
  <2>3. Len(Stream(c)) # 0
    <3>1. Len(c.recv) # 0 BY <1>2
    <3>2. \A x, y \in Nat : y # 0 => x + y # 0 OBVIOUS
    <3> QED BY <1>2, <2>1, <2>2, <3>1, <3>2
  <2>4. Stream(c) # <<>> BY <2>3
  <2> QED BY <1>13, <2>4 DEF Alone, OpenOk
<1>16. CASE c.state \in {"ESTABLISHED", "CLOSE_WAIT"} /\ tcp_send_segment(h, e, {"ACK"}, <<>>)
  <2> DEFINE new == {Seg(h, e, {"ACK"}, <<>>)}
  <2>1. conn' = [conn EXCEPT ![h] = d] /\ net' = net \cup new BY <1>16 DEF tcp_send_segment
  <2>2. <<>> \in Chars BY DEF Chars
  <2>3. d.state = e.state /\ d.iss = e.iss /\ d.sent = e.sent /\ d.rcv_nxt = e.rcv_nxt
        /\ d.send = e.send /\ d.snd_una = e.snd_una /\ Stream(d) = Stream(e)
        /\ d.snd_nxt = e.snd_nxt
    BY <1>10, <2>2, SentKeeps, AckKeeps
  <2> HIDE DEF d
  <2>4. Sender(d, b, cuts') BY <1>3, <1>14, <2>3, SenderSame
  <2>5. Bound(c) /\ Bound(d) BY <1>9, <1>16, <2>3 DEF Bound
  <2>6. ~listening /\ conn[Peer(h)].state \in Opening
          => Minus(e.rcv_nxt, conn[Peer(h)].iss) = a
    BY <1>9, <1>12, <2>5, Asks
  <2>7. Utters(h, d, Seg(h, e, {"ACK"}, <<>>), a, b, Lines(h), cuts)
    <3>1. {"ACK"} \in {{"ACK"}, {"FIN", "ACK"}} /\ "FIN" \notin {"ACK"} OBVIOUS
    <3> QED BY <2>5, <2>6, <3>1, Speaks
  <2>8. cuts \subseteq cuts' /\ \A t \in new : Utters(h, d, t, a, b, Lines(h), cuts')
    BY <1>3, <2>7
  <2> HIDE DEF new
  <2>9. d.state = c.state /\ d.iss = c.iss /\ d.sent = c.sent /\ d.rcv_nxt = c.rcv_nxt
        /\ Stream(d) = Stream(c) /\ d.state \notin Opening
    BY <1>9, <1>11, <1>15, <2>3
  <2> QED BY <1>3, <1>12, <2>1, <2>4, <2>5, <2>8, <2>9, Stays
<1>17. CASE Become(h, e)
  <2> DEFINE new == {}
  <2>1. conn' = [conn EXCEPT ![h] = e] /\ net' = net \cup new BY <1>17 DEF Become
  <2>2. Sender(e, b, cuts') /\ cuts \subseteq cuts' BY <1>3, <1>14
  <2>3. \A t \in new : Utters(h, e, t, a, b, Lines(h), cuts') OBVIOUS
  <2> HIDE DEF new
  <2>4. CASE Bound(c) BY <1>3, <1>9, <1>11, <1>12, <1>15, <2>1, <2>2, <2>3, <2>4, Stays
  <2>5. CASE ~Bound(c)
    <3>1. e.state = "CLOSED" BY <1>9, <1>15, <2>5 DEF Bound, Opening
    <3>2. {} \subseteq {Rst(h)} /\ new = {} BY DEF new
    <3> QED BY <1>3, <1>9, <1>11, <2>1, <3>1, <3>2, Ends
  <2> QED BY <2>4, <2>5
<1> QED BY <1>4, <1>16, <1>17

-----------------------------------------------------------------------------
(* tcp_send(). *)

\* The number after n more bytes, for a stream whose first byte has number b.
LEMMA Room ==
  ASSUME NEW o \in Nat, NEW b \in Nat, NEW k \in Nat, NEW n \in Nat, NEW cap \in Nat,
         NEW m \in Nat, b <= 2, o <= b + k, k + n <= cap, cap + 3 < m
  PROVE  /\ o + n < m /\ o <= o + n /\ o + n <= b + (k + n) /\ o + n <= b + cap
         /\ o = b + k => o + n = b + (k + n)
OBVIOUS

\* tcp_send() puts the next bytes of the stream at the next numbers.
LEMMA SendStreams ==
  ASSUME FreshNumbers, TcpInv, StreamInv, NEW h \in Host, NEW n \in 1 .. Mss, tcp_send(h, n)
  PROVE  StreamInv'
<1> DEFINE c == conn[h]
           data == NextBytes(c, n)
           e == [c EXCEPT !.send = @ \o data, !.sent = @ + n]
           d == Sent(e, {"ACK"}, data)
           s == Seg(h, e, {"ACK"}, data)
           r == [iss |-> c.iss, cap |-> Budget(h)]
           o == Minus(c.snd_nxt, c.iss)
<1>1. Fit(c) /\ c \in Conn BY DEF TcpInv, Fit
<1>2. n \in Nat /\ n > 0 BY TcpAssumption
<1>3. data \in Chars /\ Len(data) = n
      /\ \A i \in 1 .. n : data[i] = [iss |-> c.iss, pos |-> c.sent + i]
  BY <1>1, <1>2, NextBytesAre
<1>4. /\ c.state \in Sending /\ c.sent + n <= Budget(h) /\ Len(c.send) + n <= SendSize
      /\ tcp_send_segment(h, e, {"ACK"}, data) /\ UNCHANGED <<opens, listening, cuts>>
  BY DEF tcp_send, Fits, Sending
<1>5. conn' = [conn EXCEPT ![h] = d] /\ net' = net \cup {s} BY <1>4 DEF tcp_send_segment
<1> HIDE DEF data
<1>6. c.send \in Chars /\ c.sent \in Nat /\ Len(c.send) \in Nat /\ c.iss \in SeqNo
      /\ c.snd_nxt \in SeqNo /\ c.snd_una \in SeqNo
  BY <1>1 DEF Conn, Chars
<1>7. c.send \o data \in Chars /\ Len(c.send \o data) = Len(c.send) + n
      /\ \A i \in 1 .. Len(c.send) + n :
           (c.send \o data)[i] = IF i <= Len(c.send) THEN c.send[i] ELSE data[i - Len(c.send)]
  BY <1>3, <1>6, Joined
<1> DEFINE longer == c.send \o data
           more == c.sent + n
<1>8. /\ Fit(e) /\ e.send = longer /\ e.sent = more /\ e.state = c.state /\ e.iss = c.iss
      /\ e.snd_una = c.snd_una /\ e.snd_nxt = c.snd_nxt /\ e.rcv_nxt = c.rcv_nxt
      /\ Stream(e) = Stream(c)
  <2>1. longer \in Chars /\ more \in Nat /\ Len(longer) <= SendSize BY <1>2, <1>4, <1>6, <1>7
  <2>2. e = [c EXCEPT !.send = longer, !.sent = more] BY <1>1 DEF Conn
  <2> HIDE DEF longer, more, e
  <2>3. e \in Conn BY <1>1, <2>1, <2>2 DEF Conn
  <2>4. /\ e.send = longer /\ e.sent = more /\ e.state = c.state /\ e.iss = c.iss
        /\ e.snd_una = c.snd_una /\ e.snd_nxt = c.snd_nxt /\ e.rcv_nxt = c.rcv_nxt
        /\ e.got = c.got /\ e.recv = c.recv
    BY <1>1, <2>2 DEF Conn
  <2> QED BY <1>1, <2>1, <2>3, <2>4 DEF Fit, Stream
<1>9. s.to = Peer(h) /\ s.flags = {"ACK"} /\ s.data = data /\ s.seq = e.snd_nxt
      /\ s.ack = e.rcv_nxt
  BY DEF Seg
<1> HIDE DEF e
<1>10. {"ACK"} \cap {"SYN", "FIN"} = {} OBVIOUS
<1>11. /\ d.state = e.state /\ d.iss = e.iss /\ d.sent = e.sent /\ d.rcv_nxt = e.rcv_nxt
       /\ d.send = e.send /\ d.snd_una = e.snd_una /\ Stream(d) = Stream(e)
       /\ d.snd_nxt = Plus(e.snd_nxt, n)
  <2>1. /\ d.state = e.state /\ d.iss = e.iss /\ d.sent = e.sent /\ d.rcv_nxt = e.rcv_nxt
        /\ d.send = e.send /\ d.snd_una = e.snd_una /\ Stream(d) = Stream(e)
        /\ ({"ACK"} \cap {"SYN", "FIN"} = {} => d.snd_nxt = Plus(e.snd_nxt, Len(data)))
    <3>1. data \in Chars /\ Fit(e) /\ d = Sent(e, {"ACK"}, data) BY <1>3, <1>8
    <3> HIDE DEF d
    <3> QED BY <3>1, SentKeeps
  <2> HIDE DEF d
  <2> QED BY <1>3, <1>10, <2>1
<1> HIDE DEF d, s
<1>12. PICK a, b \in {1, 2} : Agree(h, b) /\ Agree(Peer(h), a) BY Agreed
<1>13. r \in Lines(h) /\ r.iss = c.iss /\ r.cap = Budget(h) /\ r.cap \in Nat /\ r.cap + 3 < SeqMod
  <2>1. c.state # "CLOSED" BY <1>4 DEF Sending
  <2>2. r \in Lines(h) BY <2>1, Latest
  <2> QED BY <2>2, LinesAre
<1> HIDE DEF r
<1>14. /\ b <= Minus(c.snd_una, c.iss) /\ Minus(c.snd_una, c.iss) <= o /\ o <= b + c.sent
       /\ c.iss \notin cuts => o = b + c.sent
       /\ \A k \in 1 .. Len(c.send) : c.send[k].iss = c.iss
  BY <1>4, <1>12 DEF Agree, Sender
<1>15. o \in Nat /\ Minus(c.snd_una, c.iss) \in Nat /\ b \in Nat /\ b <= 2
  <2>1. o \in Nat /\ Minus(c.snd_una, c.iss) \in Nat BY <1>6, SeqNoTypes
  <2>2. b \in Nat /\ b <= 2 OBVIOUS
  <2> QED BY <2>1, <2>2
<1>16. /\ o + n < SeqMod /\ o <= o + n /\ o + n <= b + (c.sent + n) /\ o + n <= b + r.cap
       /\ o = b + c.sent => o + n = b + (c.sent + n)
  <2>1. o \in Nat /\ b \in Nat /\ n \in Nat BY <1>2, <1>15
  <2>2. c.sent \in Nat /\ r.cap \in Nat BY <1>6, <1>13
  <2>3. SeqMod \in Nat BY TcpAssumption
  <2>4. b <= 2 /\ o <= b + c.sent BY <1>14, <1>15
  <2>5. c.sent + n <= r.cap /\ r.cap + 3 < SeqMod BY <1>4, <1>13
  <2> HIDE DEF o, c
  <2> QED BY <2>1, <2>2, <2>3, <2>4, <2>5, Room
<1>17. Minus(d.snd_nxt, d.iss) = o + n
  <2>1. o + n < SeqMod BY <1>16
  <2>2. d.snd_nxt = Plus(c.snd_nxt, n) /\ d.iss = c.iss BY <1>8, <1>11
  <2> QED BY <1>2, <1>6, <2>1, <2>2, MinusPlus
<1> HIDE DEF o
<1>18. Sender(d, b, cuts)
  <2>1. /\ d.state \in Sending /\ d.iss = c.iss /\ d.sent = c.sent + n
        /\ d.snd_una = c.snd_una /\ d.send = longer
    BY <1>4, <1>8, <1>11
  <2>2. o <= o + n /\ o + n <= b + (c.sent + n) /\ (o = b + c.sent => o + n = b + (c.sent + n))
    BY <1>16
  <2>3. b <= Minus(c.snd_una, c.iss) /\ Minus(c.snd_una, c.iss) <= o + n
    BY <1>2, <1>14, <1>15
  <2>4. ASSUME NEW k \in 1 .. Len(d.send) PROVE d.send[k].iss = d.iss
    <3>1. k \in 1 .. Len(c.send) + n BY <1>7, <2>1
    <3>2. CASE k <= Len(c.send)
      <4>1. k \in 1 .. Len(c.send) BY <1>6, <3>1, <3>2
      <4> QED BY <1>7, <1>14, <2>1, <3>1, <3>2, <4>1
    <3>3. CASE ~(k <= Len(c.send))
      <4>1. k - Len(c.send) \in 1 .. n BY <1>2, <1>6, <3>1, <3>3
      <4>2. data[k - Len(c.send)].iss = c.iss BY <1>3, <4>1
      <4> QED BY <1>7, <2>1, <3>1, <3>3, <4>2
    <3> QED BY <3>2, <3>3
  <2> QED BY <1>14, <1>17, <2>1, <2>2, <2>3, <2>4 DEF Sender
<1>19. Bound(c) /\ Bound(d) /\ d.state \in Sending /\ d.state \notin Opening
  BY <1>4, <1>8, <1>11 DEF Sending, Bound, Opening
<1>20. ~listening /\ conn[Peer(h)].state \in Opening
         => Minus(s.ack, conn[Peer(h)].iss) = a
  BY <1>8, <1>9, <1>12, <1>19, Asks
<1>21. DataOk(s, b, Lines(h), cuts)
  <2>1. Minus(s.seq, r.iss) = o BY <1>8, <1>9, <1>13 DEF o
  <2>2. b <= o /\ o + Len(s.data) <= b + r.cap
    <3>1. Len(s.data) = n BY <1>3, <1>9
    <3>2. \A x, y, z \in Nat : x <= y /\ y <= z => x <= z OBVIOUS
    <3>3. b <= o BY <1>14, <1>15, <3>2
    <3> QED BY <1>16, <3>1, <3>3
  <2>3. ASSUME NEW j \in 1 .. Len(s.data)
        PROVE  s.data[j].iss = r.iss /\ (r.iss \notin cuts => s.data[j].pos = o - b + j)
    <3>1. j \in 1 .. n /\ s.data[j] = [iss |-> c.iss, pos |-> c.sent + j] BY <1>3, <1>9
    <3>2. o = b + c.sent => o - b + j = c.sent + j BY <1>6, <1>15, <3>1
    <3> QED BY <1>13, <1>14, <3>1, <3>2
  <2> QED BY <1>13, <2>1, <2>2, <2>3 DEF DataOk
<1>22. Utters(h, d, s, a, b, Lines(h), cuts)
  BY <1>9, <1>19, <1>20, <1>21 DEF Utters, SynOk
<1> DEFINE new == {s}
<1>23. net' = net \cup new /\ \A t \in new : Utters(h, d, t, a, b, Lines(h), cuts')
  BY <1>4, <1>5, <1>22
<1> HIDE DEF new
<1>24. /\ d.iss = c.iss /\ d.rcv_nxt = c.rcv_nxt /\ Stream(d) = Stream(c)
       /\ d.state = c.state /\ d.sent <= Budget(h)
  BY <1>4, <1>8, <1>11
<1>25. conn' = [conn EXCEPT ![h] = d] /\ UNCHANGED <<opens, listening>> BY <1>4, <1>5
<1>26. /\ Bound(conn[h]) /\ d.iss = conn[h].iss /\ d.rcv_nxt = conn[h].rcv_nxt
       /\ Stream(d) = Stream(conn[h]) /\ d.state = conn[h].state
  BY <1>19, <1>24
<1>27. d.state \in Opening => d.sent = conn[h].sent /\ (listening => Minus(d.snd_nxt, d.iss) = 1)
  BY <1>19
<1>28. d.sent <= Budget(h) BY <1>24
<1>29. cuts \subseteq cuts' /\ Sender(d, b, cuts') BY <1>4, <1>18
<1>30. net' = net \cup new /\ \A t \in new : Utters(h, d, t, a, b, Lines(h), cuts') BY <1>23
<1> HIDE DEF c, e, longer, more, o, r
<1> QED BY <1>12, <1>25, <1>26, <1>27, <1>28, <1>30, <1>29, Stays

-----------------------------------------------------------------------------
(* The ACK of a segment. *)

\* Between two numbers of a stream the comparison of the code is the right one:
\* neither of them has passed the end of the range alone.
LEMMA Between ==
  ASSUME NEW i \in SeqNo, NEW una \in SeqNo, NEW ack \in SeqNo, NEW nxt \in SeqNo,
         una < ack, ack <= nxt, Minus(una, i) <= Minus(nxt, i)
  PROVE  Minus(una, i) <= Minus(ack, i) /\ Minus(ack, i) <= Minus(nxt, i)
<1>1. SeqMod \in Nat /\ i \in 0 .. SeqMod - 1 /\ una \in 0 .. SeqMod - 1
      /\ ack \in 0 .. SeqMod - 1 /\ nxt \in 0 .. SeqMod - 1
  BY TcpAssumption DEF SeqNo
<1>2. (una < i => Minus(una, i) = una - i + SeqMod) /\ (una >= i => Minus(una, i) = una - i)
  BY MinusIs
<1>3. (ack < i => Minus(ack, i) = ack - i + SeqMod) /\ (ack >= i => Minus(ack, i) = ack - i)
  BY MinusIs
<1>4. (nxt < i => Minus(nxt, i) = nxt - i + SeqMod) /\ (nxt >= i => Minus(nxt, i) = nxt - i)
  BY MinusIs
<1> QED BY <1>1, <1>2, <1>3, <1>4

\* An acknowledgement moves snd_una forward within the stream, and only that.
LEMMA AckedKeeps ==
  ASSUME NEW c, Fit(c), NEW s \in Segment, NEW d, d = Acked(c, s)
  PROVE  /\ Fit(d) /\ d.state = c.state /\ d.iss = c.iss /\ d.sent = c.sent
         /\ d.snd_nxt = c.snd_nxt /\ d.rcv_nxt = c.rcv_nxt /\ Stream(d) = Stream(c)
         /\ \/ d.snd_una = c.snd_una /\ d.send = c.send
            \/ /\ c.snd_una < s.ack /\ s.ack <= c.snd_nxt /\ d.snd_una = s.ack
               /\ \A k \in 1 .. Len(d.send) : \E j \in 1 .. Len(c.send) : d.send[k] = c.send[j]
<1>1. c \in Conn /\ c.send \in Chars /\ Len(c.send) \in Nat BY DEF Fit, Conn, Chars
<1>2. Fit(d) BY AckedFits
<1>3. CASE ~("ACK" \in s.flags /\ s.ack > c.snd_una /\ s.ack <= c.snd_nxt)
  <2>1. d = c BY <1>3 DEF Acked
  <2> QED BY <1>2, <2>1
<1>4. CASE "ACK" \in s.flags /\ s.ack > c.snd_una /\ s.ack <= c.snd_nxt
  <2> DEFINE acked == s.ack - c.snd_una
             rest == IF acked <= Len(c.send) THEN SubSeq(c.send, acked + 1, Len(c.send))
                     ELSE <<>>
  <2>1. d = [c EXCEPT !.snd_una = s.ack, !.snd_wnd = s.wnd, !.retries = 0, !.send = rest]
    BY <1>1, <1>4 DEF Acked, Conn
  <2>2. c.snd_una \in Nat /\ s.ack \in Nat
    BY <1>1, TcpAssumption DEF Conn, SeqNo, Segment
  <2>3. acked \in Nat \ {0} /\ c.snd_una < s.ack BY <1>4, <2>2
  <2>4. \A k \in 1 .. Len(rest) : \E j \in 1 .. Len(c.send) : rest[k] = c.send[j]
    <3>1. CASE acked <= Len(c.send)
      <4>1. acked + 1 \in 1 .. Len(c.send) + 1 /\ Len(c.send) \in 0 .. Len(c.send)
        BY <1>1, <2>3, <3>1
      <4>2. rest = SubSeq(c.send, acked + 1, Len(c.send)) BY <3>1
      <4>3. Len(rest) = (IF acked + 1 <= Len(c.send) THEN Len(c.send) - (acked + 1) + 1 ELSE 0)
            /\ \A k \in 1 .. Len(rest) : rest[k] = c.send[acked + 1 + k - 1]
        BY <1>1, <4>1, <4>2, Part
      <4> HIDE DEF rest, acked
      <4>4. ASSUME NEW k \in 1 .. Len(rest) PROVE acked + 1 + k - 1 \in 1 .. Len(c.send)
        BY <1>1, <2>3, <4>3
      <4> QED BY <4>3, <4>4
    <3>2. CASE ~(acked <= Len(c.send))
      <4>1. rest = <<>> /\ 1 .. Len(<<>>) = {} BY <3>2
      <4> QED BY <4>1
    <3> QED BY <3>1, <3>2
  <2> HIDE DEF rest, acked
  <2>5. /\ d.send = rest /\ d.snd_una = s.ack /\ d.state = c.state /\ d.iss = c.iss
        /\ d.sent = c.sent /\ d.snd_nxt = c.snd_nxt /\ d.rcv_nxt = c.rcv_nxt
        /\ d.got = c.got /\ d.recv = c.recv
    BY <1>1, <2>1 DEF Conn
  <2> QED BY <1>2, <1>4, <2>3, <2>4, <2>5 DEF Stream
<1> QED BY <1>3, <1>4

\* So the sender's side of the stream stays in order.
LEMMA AckedSends ==
  ASSUME NEW c, Fit(c), NEW s \in Segment, NEW d, d = Acked(c, s), NEW b \in {1, 2}, NEW cut,
         c.state = "ESTABLISHED", Sender(c, b, cut)
  PROVE  Sender(d, b, cut)
<1>1. /\ d.state = c.state /\ d.iss = c.iss /\ d.sent = c.sent /\ d.snd_nxt = c.snd_nxt
      /\ \/ d.snd_una = c.snd_una /\ d.send = c.send
         \/ /\ c.snd_una < s.ack /\ s.ack <= c.snd_nxt /\ d.snd_una = s.ack
            /\ \A k \in 1 .. Len(d.send) : \E j \in 1 .. Len(c.send) : d.send[k] = c.send[j]
  BY AckedKeeps
<1>2. CASE d.snd_una = c.snd_una /\ d.send = c.send BY <1>1, <1>2, SenderSame
<1>3. CASE /\ c.snd_una < s.ack /\ s.ack <= c.snd_nxt /\ d.snd_una = s.ack
           /\ \A k \in 1 .. Len(d.send) : \E j \in 1 .. Len(c.send) : d.send[k] = c.send[j]
  <2>1. c.iss \in SeqNo /\ c.snd_una \in SeqNo /\ c.snd_nxt \in SeqNo /\ s.ack \in SeqNo
    BY DEF Fit, Conn, Segment, SeqNo
  <2>2. /\ b <= Minus(c.snd_una, c.iss) /\ Minus(c.snd_una, c.iss) <= Minus(c.snd_nxt, c.iss)
        /\ Minus(c.snd_nxt, c.iss) <= b + c.sent
        /\ c.iss \notin cut => Minus(c.snd_nxt, c.iss) = b + c.sent
        /\ \A k \in 1 .. Len(c.send) : c.send[k].iss = c.iss
    BY DEF Sender, Sending
  <2>3. /\ Minus(c.snd_una, c.iss) <= Minus(s.ack, c.iss)
        /\ Minus(s.ack, c.iss) <= Minus(c.snd_nxt, c.iss)
    BY <1>3, <2>1, <2>2, Between
  <2>4. b <= Minus(s.ack, c.iss)
    <3>1. Minus(c.snd_una, c.iss) \in Nat /\ Minus(s.ack, c.iss) \in Nat BY <2>1, SeqNoTypes
    <3>2. b \in Nat OBVIOUS
    <3>3. \A x, y, z \in Nat : x <= y /\ y <= z => x <= z OBVIOUS
    <3> QED BY <2>2, <2>3, <3>1, <3>2, <3>3
  <2>5. \A k \in 1 .. Len(d.send) : d.send[k].iss = d.iss BY <1>1, <1>3, <2>2
  <2> QED BY <1>1, <1>3, <2>2, <2>3, <2>4, <2>5 DEF Sender
<1> QED BY <1>1, <1>2, <1>3

-----------------------------------------------------------------------------
(* The data of a segment. *)

\* What the buffer gains, the stream gains.
LEMMA Gains ==
  ASSUME NEW u \in Chars, NEW v \in Chars, NEW w \in Chars
  PROVE  /\ u \o (v \o w) \in Chars /\ Len(u \o (v \o w)) = Len(u \o v) + Len(w)
         /\ \A j \in 1 .. Len(u \o v) : (u \o (v \o w))[j] = (u \o v)[j]
         /\ \A k \in 1 .. Len(w) : (u \o (v \o w))[Len(u \o v) + k] = w[k]
<1>1. Len(u) \in Nat /\ Len(v) \in Nat /\ Len(w) \in Nat BY DEF Chars
<1> DEFINE x == u \o v
           y == v \o w
           z == u \o y
<1>2. x \in Chars /\ Len(x) = Len(u) + Len(v)
      /\ \A i \in 1 .. Len(u) + Len(v) : x[i] = IF i <= Len(u) THEN u[i] ELSE v[i - Len(u)]
  BY Joined
<1>3. y \in Chars /\ Len(y) = Len(v) + Len(w)
      /\ \A i \in 1 .. Len(v) + Len(w) : y[i] = IF i <= Len(v) THEN v[i] ELSE w[i - Len(v)]
  BY Joined
<1> HIDE DEF x, y
<1>4. z \in Chars /\ Len(z) = Len(u) + Len(y)
      /\ \A i \in 1 .. Len(u) + Len(y) : z[i] = IF i <= Len(u) THEN u[i] ELSE y[i - Len(u)]
  BY <1>3, Joined
<1> HIDE DEF z
<1>5. Len(z) = Len(x) + Len(w) BY <1>1, <1>2, <1>3, <1>4
<1>6. ASSUME NEW j \in 1 .. Len(x) PROVE z[j] = x[j]
  <2>1. j \in 1 .. Len(u) + Len(v) /\ j \in 1 .. Len(u) + Len(y) BY <1>1, <1>2, <1>3
  <2>2. CASE j <= Len(u) BY <1>2, <1>4, <2>1, <2>2
  <2>3. CASE ~(j <= Len(u))
    <3>1. j - Len(u) \in 1 .. Len(v) + Len(w) /\ j - Len(u) <= Len(v) BY <1>1, <2>1, <2>3
    <3>2. y[j - Len(u)] = v[j - Len(u)] BY <1>3, <3>1
    <3> QED BY <1>2, <1>4, <2>1, <2>3, <3>2
  <2> QED BY <2>2, <2>3
<1>7. ASSUME NEW k \in 1 .. Len(w) PROVE z[Len(x) + k] = w[k]
  <2> DEFINE i == Len(x) + k
  <2>1. i \in 1 .. Len(u) + Len(y) /\ ~(i <= Len(u)) BY <1>1, <1>2, <1>3
  <2>2. i - Len(u) \in 1 .. Len(v) + Len(w) /\ ~(i - Len(u) <= Len(v)) BY <1>1, <1>2
  <2>3. (i - Len(u)) - Len(v) = k BY <1>1, <1>2
  <2> HIDE DEF i
  <2>4. z[i] = y[i - Len(u)] BY <1>4, <2>1
  <2>5. y[i - Len(u)] = w[(i - Len(u)) - Len(v)] BY <1>3, <2>2
  <2>6. z[i] = w[k] BY <2>3, <2>4, <2>5
  <2> QED BY <2>6 DEF i
<1>8. z \in Chars BY <1>4
<1> QED BY <1>5, <1>6, <1>7, <1>8 DEF x, y, z

\* What taking a segment's data changes.
LEMMA TookKeeps ==
  ASSUME NEW c, Fit(c), NEW s \in Segment, NEW d, d = Took(c, s)
  PROVE  /\ Fit(d) /\ d.state = c.state /\ d.iss = c.iss /\ d.sent = c.sent
         /\ d.snd_nxt = c.snd_nxt /\ d.snd_una = c.snd_una /\ d.send = c.send
         /\ s.data = <<>> => d.rcv_nxt = c.rcv_nxt
         /\ \/ d.rcv_nxt = c.rcv_nxt /\ Stream(d) = Stream(c)
            \/ /\ s.seq = c.rcv_nxt /\ s.data # <<>>
               /\ \E n \in 1 .. Len(s.data) :
                    /\ d.rcv_nxt = Plus(c.rcv_nxt, n)
                    /\ Len(Stream(d)) = Len(Stream(c)) + n
                    /\ \A j \in 1 .. Len(Stream(c)) : Stream(d)[j] = Stream(c)[j]
                    /\ \A k \in 1 .. n : Stream(d)[Len(Stream(c)) + k] = s.data[k]
<1> DEFINE n == IF Len(s.data) <= rcv_wnd(c) THEN Len(s.data) ELSE rcv_wnd(c)
           more == SubSeq(s.data, 1, n)
           e == [c EXCEPT !.recv = @ \o more, !.rcv_nxt = Plus(@, n)]
<1>1. c \in Conn /\ c.recv \in Chars /\ c.got \in Chars /\ Len(c.recv) \in Nat
      /\ Len(c.recv) <= RecvSize /\ c.rcv_nxt \in SeqNo
  BY DEF Fit, Conn, Chars
<1>2. s.data \in Chars /\ Len(s.data) \in Nat BY DEF Segment, Chars
<1>3. rcv_wnd(c) \in Nat BY <1>1, TcpAssumption DEF rcv_wnd
<1>4. n \in 0 .. Len(s.data) BY <1>2, <1>3
<1>5. d = IF s.seq = c.rcv_nxt THEN e ELSE c BY DEF Took
<1>6. Fit(d) BY TookFits
<1> HIDE DEF n
<1>7. more \in Chars /\ Len(more) = n /\ \A k \in 1 .. n : more[k] = s.data[k]
  <2>1. 1 \in 1 .. Len(s.data) + 1 BY <1>2
  <2>2. /\ more \in Chars /\ Len(more) = (IF 1 <= n THEN n - 1 + 1 ELSE 0)
        /\ \A k \in 1 .. Len(more) : more[k] = s.data[1 + k - 1]
    BY <1>2, <1>4, <2>1, Part
  <2>3. Len(more) = n BY <1>2, <1>4, <2>2
  <2>4. \A k \in 1 .. n : 1 + k - 1 = k BY <1>4
  <2> QED BY <2>2, <2>3, <2>4
<1> HIDE DEF more
<1>8. /\ e.recv = c.recv \o more /\ e.got = c.got /\ e.rcv_nxt = Plus(c.rcv_nxt, n)
      /\ e.send = c.send /\ e.state = c.state /\ e.iss = c.iss
      /\ e.sent = c.sent /\ e.snd_una = c.snd_una /\ e.snd_nxt = c.snd_nxt
  BY <1>1 DEF Conn
<1> HIDE DEF e
<1>9. CASE s.seq # c.rcv_nxt
  <2>1. d = c BY <1>5, <1>9
  <2> QED BY <1>6, <2>1
<1>10. CASE s.seq = c.rcv_nxt
  <2>1. d = e BY <1>5, <1>10
  <2>2. Stream(d) = c.got \o (c.recv \o more) /\ Stream(c) = c.got \o c.recv
    BY <1>8, <2>1 DEF Stream
  <2>3. /\ Stream(d) \in Chars /\ Len(Stream(d)) = Len(Stream(c)) + n
        /\ \A j \in 1 .. Len(Stream(c)) : Stream(d)[j] = Stream(c)[j]
        /\ \A k \in 1 .. n : Stream(d)[Len(Stream(c)) + k] = more[k]
    <3> DEFINE u == c.got
               v == c.recv
    <3>1. u \in Chars /\ v \in Chars /\ more \in Chars BY <1>1, <1>7
    <3> HIDE DEF u, v
    <3>2. /\ u \o (v \o more) \in Chars /\ Len(u \o (v \o more)) = Len(u \o v) + Len(more)
          /\ \A j \in 1 .. Len(u \o v) : (u \o (v \o more))[j] = (u \o v)[j]
          /\ \A k \in 1 .. Len(more) : (u \o (v \o more))[Len(u \o v) + k] = more[k]
      BY <3>1, Gains
    <3>3. Stream(d) = u \o (v \o more) /\ Stream(c) = u \o v BY <2>2 DEF u, v
    <3>4. Len(more) = n BY <1>7
    <3> QED BY <3>2, <3>3, <3>4
  <2>4. CASE n = 0
    <3>1. d.rcv_nxt = c.rcv_nxt BY <1>1, <1>8, <2>1, <2>4, SeqNoTypes
    <3>2. Stream(c) \in Chars /\ Len(Stream(c)) \in Nat BY StreamIs
    <3>3. Len(Stream(d)) = Len(Stream(c)) BY <2>3, <2>4, <3>2
    <3>4. Stream(d) = Stream(c) BY <2>3, <3>2, <3>3, SameSeq
    <3> QED BY <1>6, <1>8, <2>1, <3>1, <3>4
  <2>5. CASE n # 0
    <3>1. n \in 1 .. Len(s.data) BY <1>2, <1>4, <2>5
    <3>2. s.data # <<>>
      <4>1. Len(<<>>) = 0 /\ 1 .. 0 = {} OBVIOUS
      <4> QED BY <3>1, <4>1
    <3>3. \A k \in 1 .. n : Stream(d)[Len(Stream(c)) + k] = s.data[k] BY <1>7, <2>3
    <3>4. d.rcv_nxt = Plus(c.rcv_nxt, n) BY <1>8, <2>1
    <3> QED BY <1>6, <1>8, <1>10, <2>1, <2>3, <3>1, <3>2, <3>3, <3>4
  <2> QED BY <2>4, <2>5
<1> QED BY <1>9, <1>10

\* The receiving end takes the next bytes of its connection and no others: a
\* segment that starts at rcv_nxt belongs to it.
LEMMA TookReceives ==
  ASSUME FreshNumbers, TcpInv, StreamInv, NEW g \in Host, NEW s \in net, s.to = Peer(g),
         NEW a \in {1, 2}, listening => a = 1, DataOk(s, a, Lines(g), cuts),
         NEW c, Fit(c), c.state = "ESTABLISHED", Receiver(c, a, Lines(g), cuts),
         NEW d, d = Took(c, s)
  PROVE  Receiver(d, a, Lines(g), cuts)
<1>1. s \in Segment BY DEF TcpInv
<1>2. PICK q \in Lines(g) : /\ Minus(c.rcv_nxt, q.iss) = a + Len(Stream(c))
                            /\ Len(Stream(c)) <= q.cap /\ Whole(Stream(c), q.iss, cuts)
  BY DEF Receiver
<1>3. q.iss \in SeqNo /\ q.cap \in Nat /\ q.cap + 3 < SeqMod BY LinesAre
<1>4. c.rcv_nxt \in SeqNo /\ Len(Stream(c)) \in Nat BY StreamIs DEF Fit, Conn
<1>5. a \in Nat /\ a <= 2 OBVIOUS
<1> DEFINE L == Len(Stream(c))
<1>6. CASE d.rcv_nxt = c.rcv_nxt /\ Stream(d) = Stream(c) BY <1>2, <1>6 DEF Receiver
<1>7. CASE s.seq = c.rcv_nxt /\ s.data # <<>>
           /\ \E n \in 1 .. Len(s.data) :
                /\ d.rcv_nxt = Plus(c.rcv_nxt, n)
                /\ Len(Stream(d)) = Len(Stream(c)) + n
                /\ \A j \in 1 .. Len(Stream(c)) : Stream(d)[j] = Stream(c)[j]
                /\ \A k \in 1 .. n : Stream(d)[Len(Stream(c)) + k] = s.data[k]
  <2>1. PICK n \in 1 .. Len(s.data) :
          /\ d.rcv_nxt = Plus(c.rcv_nxt, n)
          /\ Len(Stream(d)) = L + n
          /\ \A j \in 1 .. L : Stream(d)[j] = Stream(c)[j]
          /\ \A k \in 1 .. n : Stream(d)[L + k] = s.data[k]
    BY <1>7
  <2>2. PICK r \in Lines(g) :
          /\ a <= Minus(s.seq, r.iss) /\ Minus(s.seq, r.iss) + Len(s.data) <= a + r.cap
          /\ \A j \in 1 .. Len(s.data) :
               /\ s.data[j].iss = r.iss
               /\ r.iss \notin cuts => s.data[j].pos = Minus(s.seq, r.iss) - a + j
    BY <1>7 DEF DataOk
  <2>3. r.iss \in SeqNo /\ r.cap \in Nat /\ Minus(c.rcv_nxt, r.iss) \in Nat
    BY <1>4, LinesAre, SeqNoTypes
  <2>4. Len(s.data) \in Nat /\ n \in Nat /\ n <= Len(s.data) BY <1>1 DEF Segment
  <2> HIDE DEF L
  <2>5. L \in Nat /\ L <= q.cap /\ Minus(c.rcv_nxt, q.iss) = a + L /\ s.seq = c.rcv_nxt
    BY <1>2, <1>4, <1>7 DEF L
  <2>6. r = q
    <3>1. a <= Minus(c.rcv_nxt, r.iss) BY <2>2, <2>5
    <3>2. Minus(c.rcv_nxt, r.iss) <= a + r.cap
      <4>1. \A x, y, z \in Nat : x + y <= z => x <= z OBVIOUS
      <4>2. a + r.cap \in Nat BY <1>5, <2>3
      <4> QED BY <2>2, <2>3, <2>4, <2>5, <4>1, <4>2
    <3>3. a <= Minus(c.rcv_nxt, q.iss) /\ Minus(c.rcv_nxt, q.iss) <= a + q.cap
      BY <1>3, <1>5, <2>5
    <3> QED BY <1>4, <3>1, <3>2, <3>3, OneLine
  <2>7. L + n <= q.cap /\ a + L + n < SeqMod
    <3>1. (a + L) + Len(s.data) <= a + q.cap BY <2>2, <2>5, <2>6
    <3>2. SeqMod \in Nat BY TcpAssumption
    <3> DEFINE m == Len(s.data)
               cap == q.cap
    <3>3. a \in Nat /\ L \in Nat /\ n \in Nat /\ m \in Nat /\ cap \in Nat
      BY <1>3, <1>5, <2>4, <2>5
    <3>4. a <= 2 /\ n <= m /\ cap + 3 < SeqMod /\ (a + L) + m <= a + cap
      BY <1>3, <1>5, <2>4, <3>1
    <3> HIDE DEF m, cap
    <3>5. L + m <= cap BY <3>3, <3>4
    <3>6. L + n <= cap BY <3>3, <3>4, <3>5
    <3>7. a + L + n < SeqMod BY <3>2, <3>3, <3>4, <3>6
    <3> QED BY <3>6, <3>7 DEF cap
  <2>8. Minus(d.rcv_nxt, q.iss) = a + (L + n)
    <3>1. Minus(c.rcv_nxt, q.iss) + n < SeqMod BY <2>5, <2>7
    <3>2. Minus(d.rcv_nxt, q.iss) = Minus(c.rcv_nxt, q.iss) + n
      BY <1>3, <1>4, <2>1, <2>4, <3>1, MinusPlus
    <3>3. (a + L) + n = a + (L + n) BY <1>5, <2>4, <2>5
    <3> QED BY <2>5, <3>2, <3>3
  <2>9. Whole(Stream(d), q.iss, cuts)
    <3> SUFFICES ASSUME NEW j \in 1 .. L + n
                 PROVE  Stream(d)[j].iss = q.iss /\ (q.iss \notin cuts => Stream(d)[j].pos = j)
      BY <2>1 DEF Whole
    <3>1. CASE j <= L
      <4>1. j \in 1 .. L BY <2>4, <2>5, <3>1
      <4>2. Stream(d)[j] = Stream(c)[j] BY <2>1, <4>1
      <4>3. j \in 1 .. Len(Stream(c)) BY <4>1 DEF L
      <4> QED BY <1>2, <4>2, <4>3 DEF Whole
    <3>2. CASE ~(j <= L)
      <4> DEFINE k == j - L
      <4>1. k \in 1 .. n /\ k \in 1 .. Len(s.data) /\ L + k = j BY <2>4, <2>5, <3>2
      <4>2. (a + L) - a + k = j BY <1>5, <2>4, <2>5, <3>2
      <4> HIDE DEF k
      <4>3. Stream(d)[j] = s.data[k] BY <2>1, <4>1
      <4>4. s.data[k].iss = q.iss /\ (q.iss \notin cuts => s.data[k].pos = (a + L) - a + k)
        BY <2>2, <2>5, <2>6, <4>1
      <4> QED BY <4>2, <4>3, <4>4
    <3> QED BY <3>1, <3>2
  <2> QED BY <2>1, <2>7, <2>8, <2>9 DEF Receiver
<1>8. \/ d.rcv_nxt = c.rcv_nxt /\ Stream(d) = Stream(c)
      \/ /\ s.seq = c.rcv_nxt /\ s.data # <<>>
         /\ \E n \in 1 .. Len(s.data) :
              /\ d.rcv_nxt = Plus(c.rcv_nxt, n)
              /\ Len(Stream(d)) = Len(Stream(c)) + n
              /\ \A j \in 1 .. Len(Stream(c)) : Stream(d)[j] = Stream(c)[j]
              /\ \A k \in 1 .. n : Stream(d)[Len(Stream(c)) + k] = s.data[k]
  BY <1>1, TookKeeps
<1> QED BY <1>6, <1>7, <1>8

\* A connection that was bound moves on, at both of its ends.
LEMMA Moves ==
  ASSUME TcpInv, StreamInv, NEW h \in Host, NEW d, NEW new, NEW a, NEW b,
         Agree(h, b), Agree(Peer(h), a), Bound(conn[h]), Bound(d), d.state \notin Opening,
         d.state \in Sending => conn[h].state \in Sending,
         conn' = [conn EXCEPT ![h] = d], net' = net \cup new,
         UNCHANGED <<opens, listening, cuts>>,
         d.iss = conn[h].iss, d.sent = conn[h].sent,
         \E x \in SeqNo : Whole(Stream(d), x, cuts),
         Sender(d, b, cuts), Receiver(d, a, Lines(Peer(h)), cuts),
         ~listening /\ conn[Peer(h)].state \in Opening
           => Minus(d.rcv_nxt, conn[Peer(h)].iss) = a,
         \A s \in new : Utters(h, d, s, a, b, Lines(h), cuts)
  PROVE  StreamInv'
<1> DEFINE c == conn[h]
           g == Peer(h)
<1>1. g \in Host /\ Peer(g) = h BY Peers
<1>2. Alone(c, h, opens[h], listening, cuts) /\ Quiet(h) /\ Quiet(g) BY <1>1 DEF StreamInv
<1>3. c.state # "CLOSED" BY DEF Bound
<1>4. opens[h] # 0 BY <1>3, Latest
<1>5. Numbered(d, h, opens[h], listening) BY <1>2, <1>4 DEF Alone, Numbered
<1>6. OpenOk(d, listening) /\ (listening => Role(d, h)) BY DEF OpenOk, Role, Opening
<1>7. Alone(d, h, opens[h], listening, cuts) BY <1>5, <1>6 DEF Alone
<1>8. Joins(h, d, a)
  <2> SUFFICES ASSUME ~listening
               PROVE  opens[g] # 0 /\ (d.state \in Sending => conn[g].state # "SYN_SENT")
    BY DEF Joins, Opening
  <2>1. opens[g] # 0 BY <1>1, <1>2 DEF Quiet
  <2>2. d.state \in Sending => conn[g].state # "SYN_SENT" BY <1>2 DEF Quiet
  <2> QED BY <2>1, <2>2
<1>9. Lines(h)' = Lines(h) /\ opens' = opens /\ listening' = listening /\ cuts' = cuts
  BY DEF Lines
<1>10. opens' \in [Host -> Nat] /\ opens'[g] = opens[g] /\ opens[h] <= opens'[h]
  BY <1>9 DEF TcpInv
<1>11. Alone(d, h, opens'[h], listening, cuts) BY <1>7, <1>9
<1>12. (\A s \in new : Utters(h, d, s, a, b, Lines(h)', cuts')) /\ Sender(d, b, cuts')
       /\ cuts \subseteq cuts'
  BY <1>9
<1> QED BY <1>8, <1>9, <1>10, <1>11, <1>12, Frame

-----------------------------------------------------------------------------
(* tcp_handle() and the streams. *)

\* A FIN moves rcv_nxt and the state.
LEMMA FinnedKeeps ==
  ASSUME NEW c, Fit(c), NEW st \in State, NEW d, d = Finned(c, st)
  PROVE  /\ Fit(d) /\ d.state = st /\ d.iss = c.iss /\ d.sent = c.sent /\ d.send = c.send
         /\ d.snd_una = c.snd_una /\ d.snd_nxt = c.snd_nxt /\ Stream(d) = Stream(c)
<1>1. c \in Conn /\ Fit(d) BY FinnedFits DEF Fit
<1>2. /\ d.state = st /\ d.iss = c.iss /\ d.sent = c.sent /\ d.send = c.send
      /\ d.snd_una = c.snd_una /\ d.snd_nxt = c.snd_nxt /\ d.got = c.got /\ d.recv = c.recv
  BY <1>1 DEF Finned, Conn
<1> QED BY <1>1, <1>2 DEF Stream

\* While the peer is still opening it has sent neither data nor a FIN.
LEMMA NoneYet ==
  ASSUME TcpInv, StreamInv, NEW h \in Host, NEW s \in net, s.to = h,
         ~listening, conn[Peer(h)].state \in Opening
  PROVE  s.data = <<>> /\ "FIN" \notin s.flags
<1>1. Peer(h) \in Host /\ Peer(Peer(h)) = h BY Peers
<1>2. Quiet(Peer(h)) BY <1>1 DEF StreamInv
<1> QED BY <1>1, <1>2 DEF Quiet

\* An ESTABLISHED connection takes the ACK, the data and the FIN of a segment.
LEMMA EstablishedStreams ==
  ASSUME FreshNumbers, TcpInv, StreamInv, NEW h \in Host, NEW s \in net, s.to = h,
         HandleEstablished(h, s), UNCHANGED <<opens, listening, cuts>>
  PROVE  StreamInv'
<1> DEFINE g == Peer(h)
           b0 == conn[h]
           e == Acked(b0, s)
           c == Took(e, s)
           d == IF "FIN" \in s.flags THEN Finned(c, "CLOSE_WAIT") ELSE c
           new == {Seg(h, c, {"ACK"}, <<>>) : x \in {y \in {s} : y.data # <<>>}}
                    \cup {Seg(h, d, {"ACK"}, <<>>) : x \in {y \in {s} : "FIN" \in y.flags}}
<1>1. b0.state = "ESTABLISHED" /\ Fit(b0) /\ s \in Segment /\ Bound(b0) /\ b0.state \in Sending
  BY DEF HandleEstablished, TcpInv, Bound, Sending
<1>2. conn' = [conn EXCEPT ![h] = d] /\ net' = net \cup new BY DEF HandleEstablished
<1>3. PICK a, b \in {1, 2} : Agree(h, b) /\ Agree(g, a) BY Agreed
<1>4. g \in Host /\ Peer(g) = h BY Peers
<1>5. /\ Sender(b0, b, cuts) /\ Receiver(b0, a, Lines(g), cuts)
      /\ DataOk(s, a, Lines(g), cuts) /\ (listening => a = 1)
  BY <1>3, <1>4 DEF Agree
<1>6. /\ Fit(e) /\ e.state = b0.state /\ e.iss = b0.iss /\ e.sent = b0.sent
      /\ e.rcv_nxt = b0.rcv_nxt /\ Stream(e) = Stream(b0)
  <2> DEFINE e1 == e
  <2>1. e1 = Acked(b0, s) OBVIOUS
  <2> HIDE DEF e1
  <2>2. /\ Fit(e1) /\ e1.state = b0.state /\ e1.iss = b0.iss /\ e1.sent = b0.sent
        /\ e1.rcv_nxt = b0.rcv_nxt /\ Stream(e1) = Stream(b0)
    BY <1>1, <2>1, AckedKeeps
  <2> QED BY <2>2 DEF e1
<1>7. Sender(e, b, cuts)
  <2> DEFINE e1 == e
  <2>1. e1 = Acked(b0, s) OBVIOUS
  <2> HIDE DEF e1
  <2>2. Sender(e1, b, cuts) BY <1>1, <1>5, <2>1, AckedSends
  <2> QED BY <2>2 DEF e1
<1>8. Receiver(e, a, Lines(g), cuts) BY <1>5, <1>6 DEF Receiver
<1> HIDE DEF e
<1>9. c = Took(e, s) OBVIOUS
<1> HIDE DEF c
<1>10. /\ Fit(c) /\ c.state = e.state /\ c.iss = e.iss /\ c.sent = e.sent
       /\ c.snd_nxt = e.snd_nxt /\ c.snd_una = e.snd_una /\ c.send = e.send
       /\ s.data = <<>> => c.rcv_nxt = e.rcv_nxt
  BY <1>1, <1>6, <1>9, TookKeeps
<1>11. Receiver(c, a, Lines(g), cuts) BY <1>1, <1>4, <1>5, <1>6, <1>8, <1>9, TookReceives
<1>12. Sender(c, b, cuts) BY <1>7, <1>10, SenderSame
<1>13. \E x \in SeqNo : Whole(Stream(c), x, cuts)
  <2>1. \E r \in Lines(g) : Whole(Stream(c), r.iss, cuts) BY <1>1, <1>6, <1>10, <1>11 DEF Receiver
  <2> QED BY <1>4, <2>1, LinesAre
<1>14. ~listening /\ conn[g].state \in Opening =>
         /\ s.data = <<>> /\ "FIN" \notin s.flags /\ Minus(c.rcv_nxt, conn[g].iss) = a
  <2> SUFFICES ASSUME ~listening, conn[g].state \in Opening
               PROVE  s.data = <<>> /\ "FIN" \notin s.flags /\ Minus(c.rcv_nxt, conn[g].iss) = a
    OBVIOUS
  <2>1. s.data = <<>> /\ "FIN" \notin s.flags BY NoneYet
  <2>2. Minus(b0.rcv_nxt, conn[g].iss) = a BY <1>1, <1>3, Asks
  <2>3. c.rcv_nxt = b0.rcv_nxt BY <1>6, <1>10, <2>1
  <2> QED BY <2>1, <2>2, <2>3
<1>15. /\ d.iss = c.iss /\ d.sent = c.sent /\ d.send = c.send /\ d.snd_una = c.snd_una
       /\ d.snd_nxt = c.snd_nxt /\ Stream(d) = Stream(c)
       /\ d.state \in {"ESTABLISHED", "CLOSE_WAIT"}
       /\ "FIN" \notin s.flags => d = c
       /\ "FIN" \in s.flags => d.state = "CLOSE_WAIT"
  <2>1. CASE "FIN" \notin s.flags BY <1>1, <1>6, <1>10, <2>1
  <2>2. CASE "FIN" \in s.flags
    <3>1. "CLOSE_WAIT" \in State /\ d = Finned(c, "CLOSE_WAIT") BY <2>2 DEF State
    <3> HIDE DEF d
    <3> QED BY <1>10, <2>2, <3>1, FinnedKeeps
  <2> QED BY <2>1, <2>2
<1> HIDE DEF d
<1>16. Sender(d, b, cuts)
  <2>1. c.state \in Sending BY <1>1, <1>6, <1>10
  <2> QED BY <1>12, <1>15, <2>1 DEF Sender
<1>17. Receiver(d, a, Lines(g), cuts)
  <2>1. CASE "FIN" \notin s.flags BY <1>11, <1>15, <2>1
  <2>2. CASE "FIN" \in s.flags BY <1>15, <2>2 DEF Receiver
  <2> QED BY <2>1, <2>2
<1>18. Bound(d) /\ d.state \notin Opening BY <1>15 DEF Bound, Opening
<1>19. ~listening /\ conn[g].state \in Opening => Minus(d.rcv_nxt, conn[g].iss) = a
  BY <1>14, <1>15
<1>20. {"ACK"} \in {{"ACK"}, {"FIN", "ACK"}} /\ "FIN" \notin {"ACK"} OBVIOUS
<1>21. Utters(h, d, Seg(h, c, {"ACK"}, <<>>), a, b, Lines(h), cuts)
  BY <1>14, <1>18, <1>20, Speaks
<1>22. Utters(h, d, Seg(h, d, {"ACK"}, <<>>), a, b, Lines(h), cuts)
  BY <1>18, <1>19, <1>20, Speaks
<1>23. \A t \in new : t = Seg(h, c, {"ACK"}, <<>>) \/ t = Seg(h, d, {"ACK"}, <<>>) OBVIOUS
<1>24. \A t \in new : Utters(h, d, t, a, b, Lines(h), cuts) BY <1>21, <1>22, <1>23
<1> HIDE DEF new
<1>25. d.iss = b0.iss /\ d.sent = b0.sent /\ \E x \in SeqNo : Whole(Stream(d), x, cuts)
  BY <1>6, <1>10, <1>13, <1>15
<1> QED BY <1>1, <1>2, <1>3, <1>16, <1>17, <1>18, <1>19, <1>24, <1>25, Moves

\* A FIN ends a connection that had closed its sending end.
LEMMA TimeWaitStreams ==
  ASSUME TcpInv, StreamInv, NEW h \in Host, NEW s \in net, s.to = h, "FIN" \in s.flags,
         Bound(conn[h]), NEW c, Fit(c), c.iss = conn[h].iss, c.sent = conn[h].sent,
         Stream(c) = Stream(conn[h]),
         tcp_send_segment(h, Finned(c, "TIME_WAIT"), {"ACK"}, <<>>),
         UNCHANGED <<opens, listening, cuts>>
  PROVE  StreamInv'
<1> DEFINE e == Finned(c, "TIME_WAIT")
           d == Sent(e, {"ACK"}, <<>>)
           new == {Seg(h, e, {"ACK"}, <<>>)}
<1>1. conn' = [conn EXCEPT ![h] = d] /\ net' = net \cup new BY DEF tcp_send_segment
<1>2. PICK a, b \in {1, 2} : Agree(h, b) /\ Agree(Peer(h), a) BY Agreed
<1>3. ~(~listening /\ conn[Peer(h)].state \in Opening) BY NoneYet
<1>4. "TIME_WAIT" \in State /\ e = Finned(c, "TIME_WAIT") BY DEF State
<1> HIDE DEF e
<1>5. Fit(e) /\ e.state = "TIME_WAIT" /\ e.iss = c.iss /\ e.sent = c.sent /\ Stream(e) = Stream(c)
  BY <1>4, FinnedKeeps
<1>6. <<>> \in Chars /\ d = Sent(e, {"ACK"}, <<>>) BY DEF Chars
<1> HIDE DEF d
<1>7. d.state = e.state /\ d.iss = e.iss /\ d.sent = e.sent /\ Stream(d) = Stream(e)
  BY <1>5, <1>6, SentKeeps
<1>8. Bound(d) /\ d.state \notin Opening /\ d.state \notin Sending
  BY <1>5, <1>7 DEF Bound, Opening, Sending
<1>9. Sender(d, b, cuts) /\ Receiver(d, a, Lines(Peer(h)), cuts)
  BY <1>5, <1>7 DEF Sender, Receiver, Sending
<1>10. {"ACK"} \in {{"ACK"}, {"FIN", "ACK"}} /\ "FIN" \notin {"ACK"} OBVIOUS
<1>11. \A t \in new : Utters(h, d, t, a, b, Lines(h), cuts) BY <1>3, <1>8, <1>10, Speaks
<1> HIDE DEF new
<1>12. \E x \in SeqNo : Whole(Stream(conn[h]), x, cuts) BY DEF StreamInv, Alone
<1>13. d.iss = conn[h].iss /\ d.sent = conn[h].sent /\ Stream(d) = Stream(conn[h])
  BY <1>5, <1>7
<1> QED BY <1>1, <1>2, <1>3, <1>8, <1>9, <1>11, <1>12, <1>13, Moves

\* A reset that leaves its sender as it is.
LEMMA RefuseStreams ==
  ASSUME TcpInv, StreamInv, NEW h \in Host, NEW s, Refuse(h, s) PROVE StreamInv'
<1> DEFINE c == conn[h]
           g == Peer(h)
           new == {Rst(h)}
<1>1. net' = net \cup new /\ UNCHANGED <<conn, opens, listening, cuts>> BY DEF Refuse
<1>2. conn' = [conn EXCEPT ![h] = c] BY <1>1 DEF TcpInv
<1>3. PICK a, b \in {1, 2} : Agree(h, b) /\ Agree(g, a) BY Agreed
<1>4. g \in Host /\ Peer(g) = h BY Peers
<1>5. Alone(c, h, opens[h], listening, cuts) /\ Quiet(h) /\ Quiet(g) BY <1>4 DEF StreamInv
<1>6. Sender(c, b, cuts) /\ Receiver(c, a, Lines(g), cuts) BY <1>3, <1>4 DEF Agree
<1>7. Joins(h, c, a)
  <2>1. Bound(c) /\ ~listening => opens[g] # 0 BY <1>4, <1>5 DEF Quiet
  <2>2. Bound(c) /\ ~listening /\ conn[g].state \in Opening => Minus(c.rcv_nxt, conn[g].iss) = a
    BY <1>3, Asks
  <2>3. ~listening /\ c.state \in Sending => conn[g].state # "SYN_SENT" BY <1>5 DEF Quiet
  <2> QED BY <2>1, <2>2, <2>3 DEF Joins
<1>8. \A t \in new : Utters(h, c, t, a, b, Lines(h)', cuts') BY RstUtters
<1>9. opens' \in [Host -> Nat] /\ opens'[g] = opens[g] /\ opens[h] <= opens'[h]
      /\ opens'[h] = opens[h] /\ listening' = listening /\ cuts \subseteq cuts' /\ cuts' = cuts
  BY <1>1 DEF TcpInv
<1> HIDE DEF new
<1>10. net' = net \cup new BY <1>1
<1>11. Alone(c, h, opens'[h], listening, cuts) /\ Sender(c, b, cuts') BY <1>5, <1>6, <1>9
<1> HIDE DEF c
<1> QED BY <1>2, <1>3, <1>6, <1>7, <1>8, <1>9, <1>10, <1>11, Frame

\* The states after close.
LEMMA ClosingStreams ==
  ASSUME TcpInv, StreamInv, NEW h \in Host, NEW s \in net, s.to = h,
         HandleFinWait1(h, s) \/ HandleFinWait2(h, s) \/ HandleLastAck(h, s)
           \/ HandleTimeWait(h, s),
         UNCHANGED <<opens, listening, cuts>>
  PROVE  StreamInv'
<1> DEFINE c == conn[h]
<1>1. Fit(c) /\ c \in Conn /\ s \in Segment /\ s.ack \in SeqNo BY DEF TcpInv, Fit, Segment, SeqNo
<1>2. CASE HandleFinWait1(h, s)
  <2> DEFINE e == [c EXCEPT !.snd_una = s.ack]
  <2>1. /\ Fit(e) /\ e \in Conn /\ e.iss = c.iss /\ e.sent = c.sent /\ e.rcv_nxt = c.rcv_nxt
        /\ e.got = c.got /\ e.recv = c.recv
    BY <1>1 DEF Fit, Conn
  <2>2. c.state = "FIN_WAIT_1"
        /\ \/ "FIN" \in s.flags /\ tcp_send_segment(h, Finned(e, "TIME_WAIT"), {"ACK"}, <<>>)
           \/ Become(h, [e EXCEPT !.state = "FIN_WAIT_2"])
    BY <1>2 DEF HandleFinWait1
  <2>3. Bound(c) /\ Stream(e) = Stream(c) BY <2>1, <2>2 DEF Bound, Stream
  <2> HIDE DEF e
  <2>4. CASE "FIN" \in s.flags /\ tcp_send_segment(h, Finned(e, "TIME_WAIT"), {"ACK"}, <<>>)
    BY <2>1, <2>3, <2>4, TimeWaitStreams
  <2>5. CASE Become(h, [e EXCEPT !.state = "FIN_WAIT_2"])
    <3> DEFINE d == [e EXCEPT !.state = "FIN_WAIT_2"]
               new == {}
    <3>1. /\ d.state = "FIN_WAIT_2" /\ d.iss = e.iss /\ d.sent = e.sent
          /\ d.rcv_nxt = e.rcv_nxt /\ d.got = e.got /\ d.recv = e.recv
      BY <2>1 DEF Conn
    <3>2. conn' = [conn EXCEPT ![h] = d] /\ net' = net \cup new BY <2>5 DEF Become
    <3> HIDE DEF d
    <3>3. d.iss = c.iss /\ d.sent = c.sent /\ d.rcv_nxt = c.rcv_nxt /\ Stream(d) = Stream(c)
      BY <2>1, <3>1 DEF Stream
    <3>4. PICK a, b \in {1, 2} : Agree(h, b) /\ Agree(Peer(h), a) BY Agreed
    <3>5. d.state \notin Opening /\ d.state \notin Sending BY <3>1 DEF Opening, Sending
    <3>6. Sender(d, b, cuts') BY <3>5, SenderShut
    <3>7. cuts \subseteq cuts' /\ \A t \in new : Utters(h, d, t, a, b, Lines(h), cuts') OBVIOUS
    <3> HIDE DEF new
    <3>8. d.state \in {"FIN_WAIT_1", "FIN_WAIT_2", "LAST_ACK", "TIME_WAIT"} BY <3>1
    <3> QED BY <2>3, <3>2, <3>3, <3>4, <3>5, <3>6, <3>7, <3>8, Stays
  <2> QED BY <2>2, <2>4, <2>5
<1>3. CASE HandleFinWait2(h, s)
  <2>1. "FIN" \in s.flags /\ tcp_send_segment(h, Finned(c, "TIME_WAIT"), {"ACK"}, <<>>)
        /\ Bound(c)
    BY <1>3 DEF HandleFinWait2, Bound
  <2> QED BY <1>1, <2>1, TimeWaitStreams
<1>4. CASE HandleLastAck(h, s)
  <2> DEFINE d == Freed(c)
  <2>1. Become(h, d) BY <1>4 DEF HandleLastAck
  <2>2. d.state = "CLOSED" /\ d.iss = c.iss /\ d.sent = c.sent /\ d.got = c.got /\ d.recv = c.recv
    BY <1>1 DEF Freed, Conn
  <2> HIDE DEF d
  <2> QED BY <2>1, <2>2, FreedStreams
<1>5. CASE HandleTimeWait(h, s)
  <2>1. tcp_send_segment(h, c, {"ACK"}, <<>>) /\ c.state = "TIME_WAIT" /\ Bound(c)
    BY <1>5 DEF HandleTimeWait, Bound
  <2>2. c.state \in {"FIN_WAIT_1", "LAST_ACK", "TIME_WAIT"}
        /\ {"ACK"} \in {{"ACK"}, {"FIN", "ACK"}}
    BY <2>1
  <2> QED BY <1>1, <2>1, <2>2, FinStreams
<1> QED BY <1>2, <1>3, <1>4, <1>5

\* A segment arrives, whatever it is.
LEMMA HandleStreams ==
  ASSUME FreshNumbers, TcpInv, StreamInv, NEW h \in Host, tcp_handle(h) PROVE StreamInv'
<1>1. PICK s \in {x \in net : x.to = h} :
        PassiveOpen(s) \/ Refuse(h, s) \/ HandleRst(h, s) \/ HandleState(h, s)
  BY DEF tcp_handle
<1>2. s \in net /\ s.to = h OBVIOUS
<1>3. CASE PassiveOpen(s) BY <1>2, <1>3, PassiveStreams
<1>4. CASE Refuse(h, s) BY <1>4, RefuseStreams
<1>5. CASE HandleRst(h, s)
  <2> DEFINE d == [conn[h] EXCEPT !.state = "CLOSED"]
  <2>1. conn[h] \in Conn BY DEF TcpInv
  <2>2. d.state = "CLOSED" /\ d.iss = conn[h].iss /\ d.sent = conn[h].sent
        /\ d.got = conn[h].got /\ d.recv = conn[h].recv
    BY <2>1 DEF Conn
  <2>3. Become(h, d) /\ UNCHANGED <<opens, listening, cuts>> BY <1>5 DEF HandleRst
  <2> HIDE DEF d
  <2> QED BY <2>2, <2>3, FreedStreams
<1>6. CASE HandleState(h, s)
  <2>1. "RST" \notin s.flags /\ UNCHANGED <<opens, listening, cuts>> BY <1>6 DEF HandleState
  <2>2. CASE HandleSynSent(h, s) BY <1>2, <2>1, <2>2, SynSentStreams
  <2>3. CASE HandleSynReceived(h, s) BY <1>2, <2>1, <2>3, SynReceivedStreams
  <2>4. CASE HandleEstablished(h, s) BY <1>2, <2>1, <2>4, EstablishedStreams
  <2>5. CASE HandleFinWait1(h, s) \/ HandleFinWait2(h, s) \/ HandleLastAck(h, s)
               \/ HandleTimeWait(h, s)
    BY <1>2, <2>1, <2>5, ClosingStreams
  <2> QED BY <1>6, <2>2, <2>3, <2>4, <2>5 DEF HandleState
<1> QED BY <1>1, <1>3, <1>4, <1>5, <1>6

-----------------------------------------------------------------------------
(* tcp_timer() and the streams. *)

\* Two numbers of a stream and the distance between them.
LEMMA Apart ==
  ASSUME NEW i \in SeqNo, NEW una \in SeqNo, NEW nxt \in SeqNo, Minus(una, i) <= Minus(nxt, i)
  PROVE  Minus(nxt, i) = Minus(una, i) + Minus(nxt, una)
<1>1. SeqMod \in Nat /\ i \in 0 .. SeqMod - 1 /\ una \in 0 .. SeqMod - 1
      /\ nxt \in 0 .. SeqMod - 1
  BY TcpAssumption DEF SeqNo
<1>2. (una < i => Minus(una, i) = una - i + SeqMod) /\ (una >= i => Minus(una, i) = una - i)
  BY MinusIs
<1>3. (nxt < i => Minus(nxt, i) = nxt - i + SeqMod) /\ (nxt >= i => Minus(nxt, i) = nxt - i)
  BY MinusIs
<1>4. /\ nxt < una => Minus(nxt, una) = nxt - una + SeqMod
      /\ nxt >= una => Minus(nxt, una) = nxt - una
  BY MinusIs
<1> QED BY <1>1, <1>2, <1>3, <1>4

\* The number of the byte x places after the first unacknowledged one.
LEMMA InFlight ==
  ASSUME NEW c, Fit(c), NEW b \in {1, 2}, NEW cut, c.state = "ESTABLISHED", Sender(c, b, cut),
         NEW x \in 0 .. Minus(c.snd_nxt, c.snd_una)
  PROVE  /\ Minus(Plus(c.snd_una, x), c.iss) = Minus(c.snd_una, c.iss) + x
         /\ Minus(c.snd_nxt, c.iss) = Minus(c.snd_una, c.iss) + Minus(c.snd_nxt, c.snd_una)
         /\ Minus(c.snd_una, c.iss) \in Nat /\ Minus(c.snd_nxt, c.snd_una) \in Nat
<1>1. c.iss \in SeqNo /\ c.snd_una \in SeqNo /\ c.snd_nxt \in SeqNo BY DEF Fit, Conn
<1>2. Minus(c.snd_una, c.iss) <= Minus(c.snd_nxt, c.iss) BY DEF Sender, Sending
<1> DEFINE u == Minus(c.snd_una, c.iss)
           v == Minus(c.snd_nxt, c.iss)
           n == Minus(c.snd_nxt, c.snd_una)
<1>3. v = u + n BY <1>1, <1>2, Apart
<1>4. u \in Nat /\ v \in Nat /\ n \in Nat /\ v \in 0 .. SeqMod - 1 BY <1>1, SeqNoTypes DEF SeqNo
<1>5. x \in Nat /\ x <= n BY <1>4
<1> HIDE DEF u, v, n
<1>6. u + x < SeqMod
  <2>1. SeqMod \in Nat BY TcpAssumption
  <2> QED BY <1>3, <1>4, <1>5, <2>1
<1>7. Minus(c.snd_una, c.iss) + x < SeqMod BY <1>6 DEF u
<1>8. Minus(Plus(c.snd_una, x), c.iss) = Minus(c.snd_una, c.iss) + x
  BY <1>1, <1>5, <1>7, MinusPlus
<1> QED BY <1>3, <1>4, <1>8 DEF u, v, n

\* What is sent again is a stretch of the stream at its own numbers, wherever
\* the cuts between the segments fall this time.
LEMMA ResentData ==
  ASSUME NEW c, Fit(c), NEW b \in {1, 2}, NEW cut, c.state = "ESTABLISHED", Sender(c, b, cut),
         c.iss \notin cut => Exact(c), Minus(c.snd_nxt, c.snd_una) <= Len(c.send),
         NEW x \in 0 .. Minus(c.snd_nxt, c.snd_una), NEW y \in 0 .. Minus(c.snd_nxt, c.snd_una),
         NEW lines, NEW r \in lines, r.iss = c.iss, r.cap \in Nat, c.sent <= r.cap,
         NEW s, s.seq = Plus(c.snd_una, x), s.data = SubSeq(c.send, x + 1, y)
  PROVE  DataOk(s, b, lines, cut)
<1> DEFINE u == Minus(c.snd_una, c.iss)
           v == Minus(c.snd_nxt, c.iss)
           n == Minus(c.snd_nxt, c.snd_una)
           len == Len(s.data)
<1>1. c.send \in Chars /\ Len(c.send) \in Nat /\ c.sent \in Nat BY DEF Fit, Conn, Chars
<1>2. Minus(s.seq, r.iss) = u + x /\ v = u + n /\ u \in Nat /\ n \in Nat BY InFlight
<1>3. b <= u /\ v <= b + c.sent /\ (c.iss \notin cut => v = b + c.sent)
      /\ \A k \in 1 .. Len(c.send) : c.send[k].iss = c.iss
  BY DEF Sender, Sending
<1>4. b \in Nat OBVIOUS
<1>5. x \in Nat /\ y \in Nat /\ x <= n /\ y <= n /\ n <= Len(c.send) BY <1>2
<1> HIDE DEF u, v, n
<1>6. x + 1 \in 1 .. Len(c.send) + 1 /\ y \in 0 .. Len(c.send) BY SMTT(30), <1>1, <1>2, <1>5
<1>7. /\ len = (IF x + 1 <= y THEN y - (x + 1) + 1 ELSE 0)
      /\ \A j \in 1 .. len : s.data[j] = c.send[(x + 1) + j - 1]
  BY <1>1, <1>6, Part
<1> HIDE DEF len
<1>8. len \in Nat /\ x + len <= n BY <1>2, <1>5, <1>7
<1>9. b <= u + x /\ (u + x) + len <= b + r.cap
  <2> DEFINE cap == r.cap
             sent == c.sent
  <2>1. cap \in Nat /\ sent \in Nat /\ sent <= cap /\ v <= b + sent /\ b <= u
    BY <1>1, <1>3
  <2> HIDE DEF cap, sent
  <2>2. b <= u + x BY <1>2, <1>4, <1>5, <2>1
  <2>3. (u + x) + len <= v BY <1>2, <1>5, <1>8
  <2>4. (u + x) + len <= b + cap BY <1>2, <1>4, <1>5, <1>8, <2>1, <2>3
  <2> QED BY <2>2, <2>4 DEF cap
<1>10. ASSUME NEW j \in 1 .. len
       PROVE  /\ s.data[j].iss = r.iss
              /\ r.iss \notin cut => s.data[j].pos = (u + x) - b + j
  <2> DEFINE m == (x + 1) + j - 1
  <2>1. m \in 1 .. Len(c.send) /\ m = x + j BY <1>1, <1>2, <1>5, <1>8
  <2>2. s.data[j] = c.send[m] BY <1>7
  <2> HIDE DEF m
  <2>3. c.send[m].iss = c.iss BY <1>3, <2>1
  <2>4. r.iss \notin cut => c.send[m].pos = (u + x) - b + j
    <3> SUFFICES ASSUME c.iss \notin cut PROVE c.send[m].pos = (u + x) - b + j OBVIOUS
    <3>1. n = Len(c.send) /\ c.send[m] = [iss |-> c.iss, pos |-> c.sent - Len(c.send) + m]
      BY <2>1 DEF Exact, n
    <3>2. c.send[m].pos = c.sent - n + m BY <3>1
    <3>3. c.sent - n + m = (u + x) - b + j
      <4> DEFINE sent == c.sent
      <4>1. sent \in Nat /\ u + n = b + sent BY <1>1, <1>2, <1>3
      <4>2. j \in Nat BY <1>8
      <4> HIDE DEF sent
      <4>3. sent - n + m = (u + x) - b + j BY <1>2, <1>4, <1>5, <2>1, <4>1, <4>2
      <4> QED BY <4>3 DEF sent
    <3> QED BY <3>2, <3>3
  <2> QED BY <2>2, <2>3, <2>4
<1> QED BY <1>2, <1>9, <1>10 DEF DataOk, len

\* A retransmission, complete or left half way, repeats the stream.
LEMMA ResendStreams ==
  ASSUME FreshNumbers, TcpInv, StreamInv, NEW h \in Host, conn[h].state = "ESTABLISHED",
         Minus(conn[h].snd_nxt, conn[h].snd_una) <= Len(conn[h].send), ~GivesUp(conn[h]),
         NEW k \in 1 .. Chunks(Minus(conn[h].snd_nxt, conn[h].snd_una)), Resend(h, k),
         UNCHANGED <<opens, listening>>
  PROVE  StreamInv'
<1> DEFINE b0 == conn[h]
           c == [b0 EXCEPT !.retries = @ + 1]
           unsent == Minus(c.snd_nxt, c.snd_una)
           at(i) == [c EXCEPT !.snd_nxt = Plus(c.snd_una, ChunkEnd(i, unsent))]
           chunk(i) == SubSeq(c.send, ChunkEnd(i - 1, unsent) + 1, ChunkEnd(i, unsent))
<1>1. Fit(b0) /\ Clean(b0, cuts) /\ b0 \in Conn BY DEF TcpInv, Fit
<1>2. b0.retries + 1 \in 0 .. MaxRetries BY <1>1, Retried
<1>3. /\ c \in Conn /\ c.snd_nxt = b0.snd_nxt /\ c.snd_una = b0.snd_una /\ c.send = b0.send
      /\ c.recv = b0.recv /\ c.got = b0.got /\ c.iss = b0.iss /\ c.sent = b0.sent
      /\ c.state = b0.state /\ c.rcv_nxt = b0.rcv_nxt
  BY <1>1, <1>2 DEF Conn
<1>4. Fit(c) /\ Stream(c) = Stream(b0) BY <1>1, <1>3 DEF Fit, Stream
<1>5. /\ conn' = [conn EXCEPT ![h] = at(k)]
      /\ net' = net \cup {Seg(h, at(i - 1), {"ACK"}, chunk(i)) : i \in 1 .. k}
      /\ cuts' = IF k < Chunks(unsent) THEN cuts \cup {c.iss} ELSE cuts
  BY DEF Resend
<1> HIDE DEF c
<1>6. c.snd_una \in SeqNo /\ c.snd_nxt \in SeqNo /\ c.iss \in SeqNo /\ c.send \in Chars
      /\ Len(c.send) \in Nat /\ c.state = "ESTABLISHED"
  BY <1>3 DEF Conn, Chars
<1>7. unsent \in Nat /\ unsent <= Len(c.send) /\ k \in 1 .. Chunks(unsent)
  BY <1>3, <1>6, SeqNoTypes
<1>8. /\ \A i \in Nat : ChunkEnd(i, unsent) \in 0 .. unsent
      /\ Chunks(unsent) \in Nat /\ ChunkEnd(Chunks(unsent), unsent) = unsent
  BY <1>7, ChunkBounds
<1>9. PICK a, b \in {1, 2} : Agree(h, b) /\ Agree(Peer(h), a) BY Agreed
<1>10. Sender(c, b, cuts)
  <2>1. Sender(b0, b, cuts) BY <1>9 DEF Agree
  <2> QED BY <1>3, <2>1, SenderSame
<1>11. c.iss \notin cuts => Exact(c)
  <2>1. c.iss \notin cuts => Exact(b0) BY <1>1, <1>3 DEF Clean
  <2> QED BY <1>3, <2>1 DEF Exact
<1> DEFINE r == [iss |-> c.iss, cap |-> Budget(h)]
<1>12. r \in Lines(h) /\ r.iss = c.iss /\ r.cap \in Nat /\ c.sent <= r.cap
  <2>1. r \in Lines(h) /\ c.sent <= Budget(h) BY <1>3, Latest
  <2> QED BY <2>1, LinesAre
<1> HIDE DEF r
<1>13. cuts \subseteq cuts' BY <1>5
<1>14. ASSUME NEW i \in Nat
       PROVE  /\ at(i).snd_nxt = Plus(c.snd_una, ChunkEnd(i, unsent)) /\ at(i).snd_una = c.snd_una
              /\ at(i).state = c.state /\ at(i).iss = c.iss /\ at(i).sent = c.sent
              /\ at(i).send = c.send /\ at(i).rcv_nxt = c.rcv_nxt
              /\ at(i).got = c.got /\ at(i).recv = c.recv
  BY <1>3 DEF Conn
<1>15. k \in Nat BY <1>7, <1>8
<1> DEFINE d == at(k)
<1>16. /\ d.snd_nxt = Plus(c.snd_una, ChunkEnd(k, unsent)) /\ d.snd_una = c.snd_una
       /\ d.state = "ESTABLISHED" /\ d.iss = b0.iss /\ d.sent = b0.sent /\ d.send = c.send
       /\ d.rcv_nxt = b0.rcv_nxt /\ Stream(d) = Stream(b0)
  BY <1>3, <1>6, <1>14, <1>15 DEF Stream
<1>17. conn' = [conn EXCEPT ![h] = d] BY <1>5
<1> HIDE DEF d
<1>18. Bound(d) /\ Bound(b0) /\ d.state \in Sending /\ d.state \notin Opening
       /\ d.state = b0.state
  BY <1>16 DEF Bound, Sending, Opening
<1>19. ~listening /\ conn[Peer(h)].state \in Opening
         => Minus(c.rcv_nxt, conn[Peer(h)].iss) = a
  BY <1>3, <1>9, <1>18, Asks
<1>20. ASSUME NEW i \in 1 .. k
       PROVE  Utters(h, d, Seg(h, at(i - 1), {"ACK"}, chunk(i)), a, b, Lines(h), cuts')
  <2> DEFINE s == Seg(h, at(i - 1), {"ACK"}, chunk(i))
             x == ChunkEnd(i - 1, unsent)
             y == ChunkEnd(i, unsent)
  <2>1. i \in Nat /\ i - 1 \in Nat BY <1>15
  <2>2. x \in 0 .. unsent /\ y \in 0 .. unsent BY <1>8, <2>1
  <2>3. s.to = Peer(h) /\ s.flags = {"ACK"} /\ s.seq = Plus(c.snd_una, x)
        /\ s.ack = c.rcv_nxt /\ s.data = SubSeq(c.send, x + 1, y)
    <3>1. at(i - 1).snd_nxt = Plus(c.snd_una, x) /\ at(i - 1).rcv_nxt = c.rcv_nxt
      BY <1>14, <2>1
    <3> HIDE DEF at
    <3> QED BY <3>1 DEF Seg
  <2> HIDE DEF s, x, y
  <2>4. DataOk(s, b, Lines(h), cuts)
    BY <1>4, <1>6, <1>7, <1>10, <1>11, <1>12, <2>2, <2>3, ResentData
  <2>5. DataOk(s, b, Lines(h), cuts') BY <1>13, <2>4, Monotone
  <2>6. Utters(h, d, s, a, b, Lines(h), cuts')
    BY <1>18, <1>19, <2>3, <2>5 DEF Utters, SynOk
  <2> QED BY <2>6 DEF s
<1> DEFINE new == {Seg(h, at(i - 1), {"ACK"}, chunk(i)) : i \in 1 .. k}
<1>21. net' = net \cup new BY <1>5
<1>22. \A t \in new : Utters(h, d, t, a, b, Lines(h), cuts') BY <1>20
<1> HIDE DEF new, at, chunk
<1>23. Sender(d, b, cuts')
  <2> DEFINE u == Minus(c.snd_una, c.iss)
             v == Minus(c.snd_nxt, c.iss)
             x == ChunkEnd(k, unsent)
  <2>1. x \in 0 .. unsent BY <1>8, <1>15
  <2>2. Minus(Plus(c.snd_una, x), c.iss) = u + x /\ v = u + unsent /\ u \in Nat
    BY <1>4, <1>6, <1>10, <2>1, InFlight
  <2>3. b <= u /\ v <= b + c.sent /\ (c.iss \notin cuts => v = b + c.sent)
        /\ \A j \in 1 .. Len(c.send) : c.send[j].iss = c.iss
    BY <1>6, <1>10 DEF Sender, Sending
  <2>4. Minus(d.snd_nxt, d.iss) = u + x /\ Minus(d.snd_una, d.iss) = u /\ d.iss = c.iss
        /\ d.sent = c.sent
    BY <1>3, <1>16, <2>2
  <2>5. c.sent \in Nat /\ b \in Nat
    <3>1. c.sent \in Nat BY <1>3 DEF Conn
    <3>2. b \in Nat OBVIOUS
    <3> QED BY <3>1, <3>2
  <2>6. d.iss \notin cuts' => x = unsent
    <3>1. d.iss \notin cuts' => ~(k < Chunks(unsent)) BY <1>5, <2>4
    <3>2. ~(k < Chunks(unsent)) => k = Chunks(unsent) BY <1>7, <1>8, <1>15
    <3> QED BY <1>8, <3>1, <3>2
  <2> HIDE DEF u, v, x, unsent
  <2>7. u <= u + x /\ u + x <= v BY <1>7, <2>1, <2>2
  <2>8. u + x <= b + c.sent
    <3> DEFINE w == b + c.sent
    <3>1. w \in Nat /\ v <= w BY <2>3, <2>5
    <3>2. u + x \in Nat /\ v \in Nat BY <1>7, <2>1, <2>2
    <3> HIDE DEF w
    <3>3. u + x <= w BY <2>7, <3>1, <3>2
    <3> QED BY <3>3 DEF w
  <2>9. d.iss \notin cuts' => u + x = b + c.sent BY <1>13, <2>2, <2>3, <2>4, <2>6
  <2>10. \A j \in 1 .. Len(d.send) : d.send[j].iss = d.iss BY <1>16, <2>3, <2>4
  <2> QED BY <2>3, <2>4, <2>7, <2>8, <2>9, <2>10 DEF Sender
<1>24. d.state \in Opening => d.sent = conn[h].sent /\ (listening => Minus(d.snd_nxt, d.iss) = 1)
  BY <1>18
<1> HIDE DEF unsent
<1> QED BY <1>9, <1>13, <1>16, <1>17, <1>18, <1>21, <1>22, <1>23, <1>24, Stays

\* The timeout of an established connection.
LEMMA TimerEstablishedStreams ==
  ASSUME FreshNumbers, TcpInv, StreamInv, NEW h \in Host, TimerEstablished(h),
         UNCHANGED <<opens, listening>>
  PROVE  StreamInv'
<1> DEFINE c == conn[h]
           unsent == Minus(c.snd_nxt, c.snd_una)
<1>1. Fit(c) /\ c \in Conn /\ c.state = "ESTABLISHED" BY DEF TcpInv, Fit, TimerEstablished
<1>2. CASE GivesUp(c)
  <2> DEFINE d == Freed(c)
             new == {Rst(h)}
  <2>1. conn' = [conn EXCEPT ![h] = d] /\ net' = net \cup new /\ new \subseteq {Rst(h)}
        /\ UNCHANGED <<opens, listening, cuts>>
    BY <1>2 DEF TimerEstablished
  <2>2. d.state = "CLOSED" /\ d.iss = c.iss /\ d.sent = c.sent /\ Stream(d) = Stream(c)
    BY <1>1 DEF Freed, Conn, Stream
  <2> HIDE DEF d, new
  <2> QED BY <2>1, <2>2, Ends
<1>3. CASE ~GivesUp(c) /\ unsent <= Len(c.send)
  <2>1. PICK k \in 1 .. Chunks(unsent) : Resend(h, k) BY <1>3 DEF TimerEstablished
  <2> QED BY <1>1, <1>3, <2>1, ResendStreams
<1>4. CASE ~GivesUp(c) /\ ~(unsent <= Len(c.send))
  <2> DEFINE d == [c EXCEPT !.retries = @ + 1]
             new == {}
  <2>1. conn' = [conn EXCEPT ![h] = d] /\ net' = net \cup new /\ cuts' = cuts
        /\ cuts \subseteq cuts'
    BY <1>4 DEF TimerEstablished, Become
  <2>2. /\ d.state = c.state /\ d.iss = c.iss /\ d.sent = c.sent /\ d.send = c.send
        /\ d.snd_una = c.snd_una /\ d.snd_nxt = c.snd_nxt /\ d.rcv_nxt = c.rcv_nxt
        /\ Stream(d) = Stream(c)
    BY <1>1 DEF Conn, Stream
  <2> HIDE DEF d
  <2>3. PICK a, b \in {1, 2} : Agree(h, b) /\ Agree(Peer(h), a) BY Agreed
  <2>4. Sender(c, b, cuts) BY <2>3 DEF Agree
  <2>5. Sender(d, b, cuts') BY <2>1, <2>2, <2>4, SenderSame
  <2>6. Bound(c) /\ d.state \notin Opening BY <1>1, <2>2 DEF Bound, Opening
  <2>7. \A t \in new : Utters(h, d, t, a, b, Lines(h), cuts') OBVIOUS
  <2> HIDE DEF new
  <2> QED BY <2>1, <2>2, <2>3, <2>5, <2>6, <2>7, Stays
<1> QED BY <1>2, <1>3, <1>4

\* The FIN goes out again.
LEMMA TimerFinStreams ==
  ASSUME TcpInv, StreamInv, NEW h \in Host, TimerFin(h), UNCHANGED <<opens, listening, cuts>>
  PROVE  StreamInv'
<1> DEFINE c == conn[h]
<1>1. Fit(c) /\ c \in Conn BY DEF TcpInv, Fit
<1>2. c.state \in {"FIN_WAIT_1", "LAST_ACK"} /\ Bound(c) BY DEF TimerFin, Bound
<1>3. CASE GivesUp(c)
  <2> DEFINE d == Freed(c)
  <2>1. Become(h, d) BY <1>3 DEF TimerFin
  <2>2. d.state = "CLOSED" /\ d.iss = c.iss /\ d.sent = c.sent /\ d.got = c.got /\ d.recv = c.recv
    BY <1>1 DEF Freed, Conn
  <2> HIDE DEF d
  <2> QED BY <2>1, <2>2, FreedStreams
<1>4. CASE ~GivesUp(c)
  <2> DEFINE e == [c EXCEPT !.retries = @ + 1, !.snd_nxt = Minus(@, 1)]
  <2>1. tcp_send_segment(h, e, {"FIN", "ACK"}, <<>>) BY <1>4 DEF TimerFin
  <2>2. {"FIN", "ACK"} \in {{"ACK"}, {"FIN", "ACK"}} OBVIOUS
  <2>3. c.retries + 1 \in 0 .. MaxRetries BY <1>1, <1>4, Retried
  <2>4. Minus(c.snd_nxt, 1) \in SeqNo BY <1>1, SeqNoTypes DEF Conn
  <2>5. /\ Fit(e) /\ e.state = c.state /\ e.iss = c.iss /\ e.sent = c.sent
        /\ e.rcv_nxt = c.rcv_nxt /\ Stream(e) = Stream(c)
    BY <1>1, <2>3, <2>4 DEF Fit, Conn, Stream
  <2> HIDE DEF e
  <2>6. e.state \in {"FIN_WAIT_1", "LAST_ACK", "TIME_WAIT"} BY <1>2, <2>5
  <2> QED BY <1>2, <2>1, <2>2, <2>5, <2>6, FinStreams
<1> QED BY <1>3, <1>4

\* The timer, in whatever state the connection is.
LEMMA TimerStreams ==
  ASSUME FreshNumbers, TcpInv, StreamInv, NEW h \in Host, tcp_timer(h) PROVE StreamInv'
<1>1. UNCHANGED <<opens, listening>> BY DEF tcp_timer
<1>2. CASE TimerEstablished(h) BY <1>1, <1>2, TimerEstablishedStreams
<1>3. CASE TimerSyn(h) /\ UNCHANGED cuts BY <1>1, <1>3, TimerSynStreams
<1>4. CASE TimerFin(h) /\ UNCHANGED cuts BY <1>1, <1>4, TimerFinStreams
<1>5. CASE TimerReap(h) /\ UNCHANGED cuts
  <2> DEFINE d == Freed(conn[h])
  <2>1. Become(h, d) BY <1>5 DEF TimerReap
  <2>2. conn[h] \in Conn BY DEF TcpInv
  <2>3. d.state = "CLOSED" /\ d.iss = conn[h].iss /\ d.sent = conn[h].sent
        /\ d.got = conn[h].got /\ d.recv = conn[h].recv
    BY <2>2 DEF Freed, Conn
  <2> HIDE DEF d
  <2> QED BY <1>1, <1>5, <2>1, <2>3, FreedStreams
<1> QED BY <1>2, <1>3, <1>4, <1>5 DEF tcp_timer
-----------------------------------------------------------------------------
(* The theorems on the streams. *)

\* Two hosts without a connection.
LEMMA StreamStart == Init => StreamInv
<1> SUFFICES ASSUME Init PROVE StreamInv OBVIOUS
<1>1. \A g \in Host : conn[g] = Freed(NewConn) /\ opens[g] = 0 BY DEF Init
<1> DEFINE c == Freed(NewConn)
<1>2. c.state = "CLOSED" /\ c.sent = 0 /\ c.got = <<>> /\ c.recv = <<>> BY DEF Freed, NewConn
<1> HIDE DEF c
<1>3. <<>> \o <<>> = <<>> /\ Stream(c) = c.got \o c.recv BY DEF Stream
<1>4. Stream(c) = <<>> BY <1>2, <1>3
<1>5. c.state \notin Opening /\ c.state \notin Sending /\ ~Bound(c)
      /\ c.state \notin {"SYN_RECEIVED", "ESTABLISHED"}
  BY <1>2 DEF Opening, Sending, Bound
<1>6. net = {} /\ listening \in BOOLEAN BY DEF Init
<1>7. ASSUME NEW g \in Host PROVE Alone(conn[g], g, opens[g], listening, cuts)
  <2>1. Isn[listening][g] \in Seq(SeqNo) BY <1>6, TcpAssumption DEF SeqNo
  <2>2. 0 \in 0 .. Len(Isn[listening][g]) BY <2>1
  <2>3. Numbered(c, g, 0, listening) BY <1>2, <2>2 DEF Numbered
  <2>4. OpenOk(c, listening) /\ Role(c, g) BY <1>2, <1>5 DEF OpenOk, Role
  <2>5. \E x \in SeqNo : Whole(Stream(c), x, cuts) BY <1>4, NoBytes
  <2>6. Alone(c, g, 0, listening, cuts) BY <2>3, <2>4, <2>5 DEF Alone
  <2> QED BY <1>1, <2>6 DEF c
<1>8. \A g \in Host : conn[g] = c BY <1>1 DEF c
<1>9. ASSUME NEW g \in Host PROVE Agree(g, 1)
  <2>1. conn[g] = c /\ conn[Peer(g)] = c BY <1>8, Peers
  <2> QED BY <1>5, <1>6, <2>1 DEF Agree, Sender, Receiver
<1>10. ASSUME NEW g \in Host PROVE Quiet(g)
  <2>1. conn[g] = c /\ conn[Peer(g)] = c BY <1>8, Peers
  <2> QED BY <1>5, <1>6, <2>1 DEF Quiet
<1>11. 1 \in {1, 2} OBVIOUS
<1> QED BY <1>6, <1>7, <1>9, <1>10, <1>11 DEF StreamInv

\* Every step keeps the streams.
LEMMA StreamStep ==
  ASSUME FreshNumbers, TcpInv, StreamInv, [Next]_vars PROVE StreamInv'
<1>1. CASE tcp_accept BY <1>1, AcceptStreams
<1>2. ASSUME NEW h \in Host, tcp_connect(h) PROVE StreamInv' BY <1>2, ConnectStreams
<1>3. ASSUME NEW h \in Host, tcp_close(h) PROVE StreamInv' BY <1>3, CloseStreams
<1>4. ASSUME NEW h \in Host, tcp_handle(h) PROVE StreamInv' BY <1>4, HandleStreams
<1>5. ASSUME NEW h \in Host, tcp_timer(h) PROVE StreamInv' BY <1>5, TimerStreams
<1>6. ASSUME NEW h \in Host, NEW n \in 1 .. Mss, tcp_send(h, n) PROVE StreamInv'
  BY <1>6, SendStreams
<1>7. ASSUME NEW h \in Host, NEW n \in 1 .. RecvSize, tcp_recv(h, n) PROVE StreamInv'
  BY <1>7, RecvStreams
<1>8. CASE UNCHANGED vars
  <2>1. conn' = conn /\ opens' = opens /\ listening' = listening /\ net' = net /\ cuts' = cuts
    BY <1>8 DEF vars
  <2>2. \A g : Lines(g)' = Lines(g) BY <2>1 DEF Lines
  <2>3. \A g, x : Agree(g, x)' = Agree(g, x) BY <2>1, <2>2 DEF Agree
  <2>4. \A g : Quiet(g)' = Quiet(g) BY <2>1 DEF Quiet
  <2> QED BY <2>1, <2>2, <2>3, <2>4 DEF StreamInv
<1> QED BY <1>1, <1>2, <1>3, <1>4, <1>5, <1>6, <1>7, <1>8 DEF Next

\* Bytes of one connection in order are the stream that was sent.
LEMMA StreamsAre == ASSUME TcpInv, StreamInv PROVE StreamIntact
<1> SUFFICES ASSUME NEW h \in Host, Stream(conn[h]) # <<>>, Stream(conn[h])[1].iss \notin cuts,
                    NEW i \in 1 .. Len(Stream(conn[h]))
             PROVE  Stream(conn[h])[i] = [iss |-> Stream(conn[h])[1].iss, pos |-> i]
  BY DEF StreamIntact, Stream
<1> DEFINE t == Stream(conn[h])
<1>1. PICK x \in SeqNo : Whole(t, x, cuts) BY DEF StreamInv, Alone
<1>2. Fit(conn[h]) BY DEF TcpInv
<1>3. t \in Chars /\ Len(t) \in Nat BY <1>2, StreamIs
<1> HIDE DEF t
<1>4. i \in 1 .. Len(t) /\ 1 \in 1 .. Len(t) BY <1>3 DEF t
<1>5. t[1].iss = x BY <1>1, <1>4 DEF Whole
<1>6. x \notin cuts BY <1>5 DEF t
<1>7. t[i].iss = x /\ t[i].pos = i BY <1>1, <1>4, <1>6 DEF Whole
<1>8. t[i] \in Byte BY <1>3, <1>4 DEF Chars
<1>9. t[i] = [iss |-> x, pos |-> i] BY <1>7, <1>8 DEF Byte
<1> QED BY <1>5, <1>9 DEF t

\* The streams' invariant holds in every reachable state.
THEOREM StreamInvHolds == ASSUME FreshNumbers PROVE Spec => []StreamInv
<1>1. TcpInv /\ StreamInv /\ [Next]_vars => StreamInv' BY StreamStep
<1> QED BY <1>1, StreamStart, TcpInvHolds, PTL DEF Spec

\* What an application reads is what the other one sent on one connection, in
\* order, no byte missing, twice or from an earlier connection: for any loss,
\* repetition, delay and reordering of segments, any cut of the stream into
\* segments by tcp_send() and again by tcp_timer(), any sizes and any amount of
\* data, wraparound included, unless a retransmission was left half way.
THEOREM StreamsIntact == ASSUME FreshNumbers PROVE Spec => []StreamIntact
<1>1. TcpInv /\ StreamInv => StreamIntact BY StreamsAre
<1> QED BY <1>1, StreamInvHolds, TcpInvHolds, PTL
=============================================================================
