-------------------------------- MODULE Tcp ---------------------------------
(***************************************************************************)
(* One TCP connection between two hosts that both run src/kernel/net/tcp.c,*)
(* over a network that loses, duplicates, delays and reorders segments.    *)
(*                                                                         *)
(* Every entry point (the system calls, tcp_handle from the receive path,  *)
(* tcp_timer) runs with the connection table to itself, so each is one     *)
(* action.  conn[h] is host h's tcp_conn_t for this pair of endpoints.     *)
(* The server either listens on the port or, like the client, opens        *)
(* actively from it, which makes a simultaneous open possible.             *)
(*                                                                         *)
(* Time is left out: a retransmission timeout can expire whenever          *)
(* tcp_timer runs.  rcv_wnd is recomputed with every change of recv_len,   *)
(* so it is derived here.  CLOSING is left out: it is entered on a FIN     *)
(* without ACK, which this stack never sends.  The table's other slots and *)
(* ports, and a second tcp_connect on a used socket, are left out.         *)
(***************************************************************************)
EXTENDS Integers, Sequences

CONSTANTS
  Isn,           \* Isn[b][h]: the initial sequence numbers h draws, in order,
                 \* when the server does (b) or does not listen
  SeqMod,        \* sequence numbers are uint32_t: 2^32 in the code
  RecvSize,      \* TCP_RECV_BUFFER_SIZE
  SendSize,      \* TCP_SEND_BUFFER_SIZE
  Mss,           \* TCP_MSS
  MaxRetries,    \* TCP_MAX_RETRIES
  MaxBytes       \* bound: bytes h sends on its n-th connection, MaxBytes[b][h][n]

Host == {"client", "server"}
Peer(h) == CHOOSE p \in Host : p # h

ASSUME TcpAssumption ==
  /\ {SeqMod, RecvSize, SendSize, Mss} \subseteq Nat \ {0} /\ SendSize < SeqMod
  /\ MaxRetries \in Nat /\ MaxBytes \in [BOOLEAN -> [Host -> Seq(Nat)]]
  /\ Isn \in [BOOLEAN -> [Host -> Seq(0 .. SeqMod - 1)]]
  /\ \A b \in BOOLEAN, h \in Host : Len(MaxBytes[b][h]) = Len(Isn[b][h])

VARIABLES
  conn,          \* conn[h]: the connection's slot on host h
  opens,         \* opens[h]: connections h has opened so far
  listening,     \* is there a listener on the server's port?
  net,           \* every segment sent: any of them may still arrive, again too
  cuts           \* history: the connections (by iss) that gave up a
                 \* retransmission half way

vars == <<conn, opens, listening, net, cuts>>

Byte == [iss : 0 .. SeqMod - 1, pos : Nat]
Flag == {"SYN", "ACK", "FIN", "RST"}
State == {"CLOSED", "SYN_SENT", "SYN_RECEIVED", "ESTABLISHED", "FIN_WAIT_1",
          "FIN_WAIT_2", "CLOSE_WAIT", "LAST_ACK", "TIME_WAIT"}

Plus(a, n) == (a + n) % SeqMod
Minus(a, b) == (a - b) % SeqMod
rcv_wnd(c) == RecvSize - Len(c.recv)

Segment == [to : Host, flags : SUBSET Flag, seq : 0 .. SeqMod - 1,
            ack : 0 .. SeqMod - 1, wnd : 0 .. RecvSize, data : Seq(Byte)]

\* A slot as tcp_alloc_conn() clears it.  app says whether the application
\* holds the socket; sent and got are its streams on this connection.
NewConn ==
  [active |-> TRUE, state |-> "CLOSED", iss |-> 0, snd_una |-> 0, snd_nxt |-> 0,
   snd_wnd |-> RecvSize, rcv_nxt |-> 0, recv |-> <<>>, send |-> <<>>,
   retries |-> 0, app |-> "none", sent |-> 0, got |-> <<>>]

Freed(c) == [c EXCEPT !.active = FALSE, !.state = "CLOSED"]

Init ==
  /\ conn = [h \in Host |-> Freed(NewConn)]
  /\ opens = [h \in Host |-> 0]
  /\ listening \in BOOLEAN
  /\ net = {}
  /\ cuts = {}

(***************************************************************************)
(* Sending.  The sequence number advances before ip_send() is tried, so a  *)
(* send that fails is a segment that is lost.                              *)
(***************************************************************************)
\* The segment tcp_send_segment() builds, and the connection it leaves.
Seg(h, c, flags, data) ==
  [to |-> Peer(h), flags |-> flags, seq |-> c.snd_nxt, ack |-> c.rcv_nxt,
   wnd |-> rcv_wnd(c), data |-> data]

Sent(c, flags, data) ==
  LET one == IF flags \cap {"SYN", "FIN"} # {} THEN 1 ELSE 0 IN
  [c EXCEPT !.snd_nxt = Plus(@, Len(data) + one)]

tcp_send_segment(h, c, flags, data) ==
  /\ conn' = [conn EXCEPT ![h] = Sent(c, flags, data)]
  /\ net' = net \cup {Seg(h, c, flags, data)}

\* A reset; whoever receives it reads neither its numbers nor its window.
Rst(h) == [to |-> Peer(h), flags |-> {"RST", "ACK"}, seq |-> 0, ack |-> 0,
           wnd |-> 0, data |-> <<>>]

Become(h, c) == conn' = [conn EXCEPT ![h] = c] /\ UNCHANGED net

(***************************************************************************)
(* The application's calls.                                                *)
(***************************************************************************)
MayOpen(h) == ~conn[h].active /\ opens[h] < Len(Isn[listening][h])

Opened(h, state) ==
  LET iss == Isn[listening][h][opens[h] + 1] IN
  [NewConn EXCEPT !.iss = iss, !.snd_una = iss, !.snd_nxt = iss, !.state = state]

\* tcp_socket(), tcp_bind() to the port of this connection, tcp_connect().
tcp_connect(h) ==
  /\ h = "server" => ~listening
  /\ MayOpen(h)
  /\ opens' = [opens EXCEPT ![h] = @ + 1]
  /\ tcp_send_segment(h, [Opened(h, "SYN_SENT") EXCEPT !.app = "held"], {"SYN"}, <<>>)
  /\ UNCHANGED <<listening, cuts>>

\* The listener hands out an established connection, once.
tcp_accept ==
  /\ listening
  /\ conn["server"].active /\ conn["server"].state = "ESTABLISHED"
  /\ conn["server"].app = "none"
  /\ Become("server", [conn["server"] EXCEPT !.app = "held"])
  /\ UNCHANGED <<opens, listening, cuts>>

Budget(h) == MaxBytes[listening][h][opens[h]]
Holds(h) == conn[h].active /\ conn[h].app = "held"

\* Does tcp_send() take n more bytes now?
Fits(c, n) ==
  /\ Minus(c.snd_nxt, c.snd_una) < c.snd_wnd
  /\ Len(c.send) + n <= SendSize

NextBytes(c, n) == [i \in 1 .. n |-> [iss |-> c.iss, pos |-> c.sent + i]]

tcp_send(h, n) ==
  LET c == conn[h]
      data == NextBytes(c, n)
  IN  /\ Holds(h)
      /\ c.state \in {"ESTABLISHED", "CLOSE_WAIT"}
      /\ c.sent + n <= Budget(h)
      /\ Fits(c, n)
      /\ tcp_send_segment(h, [c EXCEPT !.send = @ \o data, !.sent = @ + n], {"ACK"}, data)
      /\ UNCHANGED <<opens, listening, cuts>>

\* Take n bytes from the buffer; tell the peer when half of it is free again.
tcp_recv(h, n) ==
  LET c == conn[h]
      d == [c EXCEPT !.recv = SubSeq(@, n + 1, Len(@)),
                     !.got = @ \o SubSeq(c.recv, 1, n)]
      reopened == /\ rcv_wnd(c) < RecvSize \div 2
                  /\ rcv_wnd(d) >= RecvSize \div 2
                  /\ c.state \in {"ESTABLISHED", "CLOSE_WAIT"}
  IN  /\ Holds(h)
      /\ n \in 1 .. Len(c.recv)
      /\ IF reopened THEN tcp_send_segment(h, d, {"ACK"}, <<>>) ELSE Become(h, d)
      /\ UNCHANGED <<opens, listening, cuts>>

tcp_close(h) ==
  LET c == [conn[h] EXCEPT !.app = "closed"]
  IN  /\ Holds(h)
      /\ \/ /\ c.state \in {"CLOSED", "SYN_SENT"}
            /\ Become(h, Freed(c))
         \/ /\ c.state \in {"SYN_RECEIVED", "ESTABLISHED"}
            /\ tcp_send_segment(h, [c EXCEPT !.state = "FIN_WAIT_1"], {"FIN", "ACK"}, <<>>)
         \/ /\ c.state = "CLOSE_WAIT"
            /\ tcp_send_segment(h, [c EXCEPT !.state = "LAST_ACK"], {"FIN", "ACK"}, <<>>)
      /\ UNCHANGED <<opens, listening, cuts>>

(***************************************************************************)
(* tcp_handle(): a segment arrives.                                        *)
(***************************************************************************)
\* A SYN for the listener's port.
PassiveOpen(s) ==
  /\ s.flags \cap {"SYN", "ACK"} = {"SYN"}
  /\ s.to = "server" /\ listening /\ MayOpen("server")
  /\ opens' = [opens EXCEPT !["server"] = @ + 1]
  /\ tcp_send_segment("server",
       [Opened("server", "SYN_RECEIVED") EXCEPT !.rcv_nxt = Plus(s.seq, 1), !.snd_wnd = s.wnd],
       {"SYN", "ACK"}, <<>>)
  /\ UNCHANGED <<listening, cuts>>

\* No connection: answer with a reset, unless a listener takes the SYN.
Refuse(h, s) ==
  /\ ~conn[h].active
  /\ "RST" \notin s.flags
  /\ ~(s.flags \cap {"SYN", "ACK"} = {"SYN"} /\ h = "server" /\ listening)
  /\ net' = net \cup {Rst(h)}
  /\ UNCHANGED <<conn, opens, listening, cuts>>

\* A reset is taken whatever its sequence number; the slot stays active.
HandleRst(h, s) ==
  /\ "RST" \in s.flags
  /\ conn[h].active
  /\ Become(h, [conn[h] EXCEPT !.state = "CLOSED"])
  /\ UNCHANGED <<opens, listening, cuts>>

HandleSynSent(h, s) ==
  LET c == conn[h] IN
  /\ c.state = "SYN_SENT" /\ "SYN" \in s.flags
  /\ \/ /\ "ACK" \in s.flags /\ s.ack = c.snd_nxt
        /\ tcp_send_segment(h, [c EXCEPT !.snd_una = s.ack, !.rcv_nxt = Plus(s.seq, 1),
                                         !.snd_wnd = s.wnd, !.state = "ESTABLISHED"],
                            {"ACK"}, <<>>)
     \/ /\ "ACK" \in s.flags /\ s.ack # c.snd_nxt
        /\ net' = net \cup {Rst(h)}
        /\ UNCHANGED conn
     \/ /\ "ACK" \notin s.flags
        /\ tcp_send_segment(h, [c EXCEPT !.rcv_nxt = Plus(s.seq, 1), !.state = "SYN_RECEIVED"],
                            {"SYN", "ACK"}, <<>>)

HandleSynReceived(h, s) ==
  /\ conn[h].state = "SYN_RECEIVED"
  /\ "ACK" \in s.flags /\ s.ack = conn[h].snd_nxt
  /\ Become(h, [conn[h] EXCEPT !.snd_una = s.ack, !.snd_wnd = s.wnd, !.state = "ESTABLISHED"])

\* Mutant: any new acknowledgement empties the retransmission buffer.
AckedDropsAll(c, s) ==
  IF "ACK" \in s.flags /\ s.ack > c.snd_una /\ s.ack <= c.snd_nxt
  THEN [c EXCEPT !.snd_una = s.ack, !.snd_wnd = s.wnd, !.retries = 0, !.send = <<>>]
  ELSE c

\* The ACK of a segment: numbers are compared without regard to wraparound.
Acked(c, s) ==
  LET acked == s.ack - c.snd_una IN
  IF "ACK" \in s.flags /\ s.ack > c.snd_una /\ s.ack <= c.snd_nxt
  THEN [c EXCEPT !.snd_una = s.ack, !.snd_wnd = s.wnd, !.retries = 0,
                 !.send = IF acked <= Len(@) THEN SubSeq(@, acked + 1, Len(@)) ELSE <<>>]
  ELSE c

\* Mutant: data is taken without a look at its sequence number.
TookAnyOrder(c, s) ==
  LET n == IF Len(s.data) <= rcv_wnd(c) THEN Len(s.data) ELSE rcv_wnd(c) IN
  [c EXCEPT !.recv = @ \o SubSeq(s.data, 1, n), !.rcv_nxt = Plus(@, n)]

\* The data of a segment: as much of it as fits, if it is the next expected.
Took(c, s) ==
  LET n == IF Len(s.data) <= rcv_wnd(c) THEN Len(s.data) ELSE rcv_wnd(c) IN
  IF s.seq = c.rcv_nxt
  THEN [c EXCEPT !.recv = @ \o SubSeq(s.data, 1, n), !.rcv_nxt = Plus(@, n)]
  ELSE c

\* The FIN of a segment, taken whatever its sequence number.
Finned(c, state) == [c EXCEPT !.rcv_nxt = Plus(@, 1), !.state = state]

HandleEstablished(h, s) ==
  LET c == Took(Acked(conn[h], s), s)
      d == IF "FIN" \in s.flags THEN Finned(c, "CLOSE_WAIT") ELSE c
  IN  /\ conn[h].state = "ESTABLISHED"
      /\ conn' = [conn EXCEPT ![h] = d]
      /\ net' = net \cup {Seg(h, c, {"ACK"}, <<>>) : x \in {y \in {s} : y.data # <<>>}}
                    \cup {Seg(h, d, {"ACK"}, <<>>) : x \in {y \in {s} : "FIN" \in y.flags}}

HandleFinWait1(h, s) ==
  LET c == [conn[h] EXCEPT !.snd_una = s.ack] IN
  /\ conn[h].state = "FIN_WAIT_1"
  /\ "ACK" \in s.flags /\ s.ack = conn[h].snd_nxt
  /\ IF "FIN" \in s.flags
     THEN tcp_send_segment(h, Finned(c, "TIME_WAIT"), {"ACK"}, <<>>)
     ELSE Become(h, [c EXCEPT !.state = "FIN_WAIT_2"])

HandleFinWait2(h, s) ==
  /\ conn[h].state = "FIN_WAIT_2" /\ "FIN" \in s.flags
  /\ tcp_send_segment(h, Finned(conn[h], "TIME_WAIT"), {"ACK"}, <<>>)

HandleLastAck(h, s) ==
  /\ conn[h].state = "LAST_ACK"
  /\ "ACK" \in s.flags /\ s.ack = conn[h].snd_nxt
  /\ Become(h, Freed(conn[h]))

HandleTimeWait(h, s) ==
  /\ conn[h].state = "TIME_WAIT" /\ "FIN" \in s.flags
  /\ tcp_send_segment(h, conn[h], {"ACK"}, <<>>)

\* tcp_handle()'s switch on the state of a connection that was found.
HandleState(h, s) ==
  /\ conn[h].active /\ "RST" \notin s.flags
  /\ \/ HandleSynSent(h, s) \/ HandleSynReceived(h, s) \/ HandleEstablished(h, s)
     \/ HandleFinWait1(h, s) \/ HandleFinWait2(h, s)
     \/ HandleLastAck(h, s) \/ HandleTimeWait(h, s)
  /\ UNCHANGED <<opens, listening, cuts>>

tcp_handle(h) ==
  \E s \in {x \in net : x.to = h} :
    PassiveOpen(s) \/ Refuse(h, s) \/ HandleRst(h, s) \/ HandleState(h, s)

(***************************************************************************)
(* tcp_timer(): the timeout of the connection has expired.                 *)
(***************************************************************************)
\* Mutant: one retry too many.
GivesUpLate(c) == c.retries > MaxRetries

GivesUp(c) == c.retries >= MaxRetries

TimerSyn(h) ==
  LET c == conn[h]
      flags == IF c.state = "SYN_SENT" THEN {"SYN"} ELSE {"SYN", "ACK"}
  IN  /\ c.state \in {"SYN_SENT", "SYN_RECEIVED"}
      /\ IF GivesUp(c) THEN Become(h, Freed(c))
         ELSE tcp_send_segment(h, [c EXCEPT !.retries = @ + 1, !.snd_nxt = c.iss], flags, <<>>)

\* Chunk i of the bytes to send again, and how many chunks there are.
Chunks(n) == (n + Mss - 1) \div Mss
ChunkEnd(i, n) == IF i * Mss <= n THEN i * Mss ELSE n

\* Everything unacknowledged goes out again in segments of at most Mss bytes;
\* when the send of chunk k fails the loop ends there.
Resend(h, k) ==
  LET c == [conn[h] EXCEPT !.retries = @ + 1]
      unsent == Minus(c.snd_nxt, c.snd_una)
      at(i) == [c EXCEPT !.snd_nxt = Plus(c.snd_una, ChunkEnd(i, unsent))]
      chunk(i) == SubSeq(c.send, ChunkEnd(i - 1, unsent) + 1, ChunkEnd(i, unsent))
  IN  /\ conn' = [conn EXCEPT ![h] = at(k)]
      /\ net' = net \cup {Seg(h, at(i - 1), {"ACK"}, chunk(i)) : i \in 1 .. k}
      /\ cuts' = IF k < Chunks(unsent) THEN cuts \cup {c.iss} ELSE cuts

TimerEstablished(h) ==
  LET c == conn[h]
      unsent == Minus(c.snd_nxt, c.snd_una)
  IN  /\ c.state = "ESTABLISHED" /\ c.snd_una < c.snd_nxt
      /\ \/ /\ GivesUp(c)
            /\ conn' = [conn EXCEPT ![h] = Freed(c)]
            /\ net' = net \cup {Rst(h)}
            /\ UNCHANGED cuts
         \/ /\ ~GivesUp(c)
            /\ IF unsent <= Len(c.send)
               THEN \E k \in 1 .. Chunks(unsent) : Resend(h, k)
               ELSE Become(h, [c EXCEPT !.retries = @ + 1]) /\ UNCHANGED cuts

TimerFin(h) ==
  LET c == conn[h] IN
  /\ c.state \in {"FIN_WAIT_1", "LAST_ACK"}
  /\ IF GivesUp(c) THEN Become(h, Freed(c))
     ELSE tcp_send_segment(h, [c EXCEPT !.retries = @ + 1, !.snd_nxt = Minus(@, 1)],
                           {"FIN", "ACK"}, <<>>)

\* Mutant: FIN_WAIT_2 and CLOSE_WAIT are not reaped.
TimerReapTimeWait(h) ==
  /\ conn[h].state = "TIME_WAIT"
  /\ Become(h, Freed(conn[h]))

\* The states that are only waited out.
TimerReap(h) ==
  /\ conn[h].state \in {"FIN_WAIT_2", "CLOSE_WAIT", "TIME_WAIT"}
  /\ Become(h, Freed(conn[h]))

tcp_timer(h) ==
  /\ conn[h].active
  /\ \/ TimerEstablished(h)
     \/ (TimerSyn(h) \/ TimerFin(h) \/ TimerReap(h)) /\ UNCHANGED cuts
  /\ UNCHANGED <<opens, listening>>

Next ==
  \/ tcp_accept
  \/ \E h \in Host : tcp_connect(h) \/ tcp_close(h) \/ tcp_handle(h) \/ tcp_timer(h)
  \/ \E h \in Host, n \in 1 .. Mss : tcp_send(h, n)
  \/ \E h \in Host, n \in 1 .. RecvSize : tcp_recv(h, n)

Spec == Init /\ [][Next]_vars

\* The callers of the stack run tcp_timer() again and again (every blocking
\* socket operation does, on each turn), so an expired timeout is acted on.
FairSpec == Spec /\ \A h \in Host : WF_vars(tcp_timer(h))

(***************************************************************************)
(* Properties.                                                             *)
(***************************************************************************)
\* Every field keeps its range: the buffers never exceed their sizes, and
\* tcp_timer() never counts more than TCP_MAX_RETRIES retries.
TypeOK ==
  /\ \A h \in Host :
       LET c == conn[h] IN
       /\ c.active \in BOOLEAN /\ c.state \in State
       /\ {c.iss, c.snd_una, c.snd_nxt, c.rcv_nxt} \subseteq 0 .. SeqMod - 1
       /\ c.snd_wnd \in 0 .. RecvSize
       /\ c.recv \in Seq(Byte) /\ Len(c.recv) <= RecvSize
       /\ c.send \in Seq(Byte) /\ Len(c.send) <= SendSize
       /\ c.retries \in 0 .. MaxRetries /\ c.app \in {"none", "held", "closed"}
       /\ c.sent \in Nat /\ c.got \in Seq(Byte)
  /\ opens \in [Host -> Nat] /\ listening \in BOOLEAN
  /\ net \subseteq Segment /\ cuts \subseteq 0 .. SeqMod - 1

\* What an application reads is what the other one sent on one connection: in
\* order, no byte missing, twice or from an earlier connection.  It holds
\* however segments are lost, repeated, delayed and cut differently when they
\* are sent again, unless the sender's retransmission loop was left half way.
StreamIntact ==
  \A h \in Host :
    LET all == conn[h].got \o conn[h].recv IN
    (all # <<>> /\ all[1].iss \notin cuts)
       => \A i \in 1 .. Len(all) : all[i] = [iss |-> all[1].iss, pos |-> i]

\* What StreamIntact needs of the numbers that tcp_generate_isn() draws: no
\* connection goes through the numbers of another one that the same host opens
\* to the listener, or through its own numbers twice.  Of two hosts that open
\* towards each other neither may try again.
FreshNumbers ==
  /\ \A b \in BOOLEAN, h \in Host : \A i \in DOMAIN Isn[b][h] : MaxBytes[b][h][i] + 3 < SeqMod
  /\ \A h \in Host : Len(Isn[FALSE][h]) <= 1
  /\ \A h \in Host : \A i, j \in DOMAIN Isn[TRUE][h] : i # j =>
       \A m \in 1 .. MaxBytes[TRUE][h][i] + 1, n \in 1 .. MaxBytes[TRUE][h][j] + 1 :
         Plus(Isn[TRUE][h][i], m) # Plus(Isn[TRUE][h][j], n)

\* The retransmission buffer holds exactly the bytes that are in flight: what
\* tcp_timer() sends again from its start belongs at snd_una.
BufferExact ==
  \A h \in Host :
    LET c == conn[h] IN
    (c.state = "ESTABLISHED" /\ c.iss \notin cuts)
       => /\ Minus(c.snd_nxt, c.snd_una) = Len(c.send)
          /\ \A i \in 1 .. Len(c.send) :
               c.send[i] = [iss |-> c.iss, pos |-> c.sent - Len(c.send) + i]

\* A connection whose sequence numbers do not wrap.
NoWrap(h) == conn[h].iss + Budget(h) + 2 < SeqMod

\* Work the timer owes host h: bytes in flight, or a closed socket's slot.  A
\* slot that a reset reached is not among it: it stays until the table is full.
Pending(h) ==
  LET c == conn[h] IN
  \/ /\ c.state = "ESTABLISHED" /\ c.send # <<>>
     /\ NoWrap(h) /\ c.iss \notin cuts
  \/ c.active /\ c.app = "closed" /\ c.state # "CLOSED"

\* tcp_timer() settles what is pending: bytes in flight are acknowledged or
\* the connection is given up, and a closed socket gives its slot back.
Settled == \A h \in Host : []<>(~Pending(h))
=============================================================================
