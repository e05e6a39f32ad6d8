----------------------------- MODULE TcpSteps_proof -----------------------------
(***************************************************************************)
(* What one step of a socket can do, for every width of the numbers, every *)
(* window and every set of segments: the edges its state moves along, the  *)
(* FIN that an active close queues, the numbers of the acknowledgements it *)
(* sends, and the only step that sends a SYN.                              *)
(*                                                                         *)
(* TcpSock_proof says which sockets there are (Good, Gone); here every     *)
(* function of the code that a live socket goes through is shown to take a *)
(* Step from the socket before the call to the socket after it.            *)
(***************************************************************************)
EXTENDS TcpSock_proof

\* The acknowledgements sent in this call carry the numbers of the socket.
Current(t) ==
  \A i \in DOMAIN t.out :
    "ack" \in t.out[i].flags => /\ t.out[i].ack_seq = t.rcv_nxt
                                /\ t.out[i].seq = t.snd_nxt

\* Before an active close there is no FIN in the write queue, after it there
\* is one, and it is the last buffer.
Fins(t) ==
  /\ t.state \in {"CLOSE", "SYN_SENT", "SYN_RECEIVED", "ESTABLISHED"}
       => FinsQueued(t) = {}
  /\ t.state \in {"FIN_WAIT_1", "CLOSING"}
       => FinsQueued(t) = {Len(t.write_queue)}

\* A call finds t, with nothing sent yet, and leaves r.
Step(t, r) ==
  /\ r.state = t.state \/ <<t.state, r.state>> \in LegalMoves
  /\ Current(r)
  /\ Fins(t) => Fins(r)
  /\ t.state = "SYN_SENT" => r.out = <<>>

Steps(t, r) == Doomed(r) \/ Step(t, r)

\* The moves that a peer can cause once it has answered.
PeerMoves == {<<"SYN_RECEIVED", "ESTABLISHED">>,
              <<"SYN_RECEIVED", "CLOSE_WAIT">>,
              <<"ESTABLISHED", "CLOSE_WAIT">>, <<"FIN_WAIT_1", "CLOSING">>}

Led(t, r) ==
  /\ r.write_queue = t.write_queue
  /\ r.state = t.state \/ <<t.state, r.state>> \in PeerMoves

LEMMA LedTransitive ==
  ASSUME NEW t, NEW r, NEW u, Led(t, r), Led(r, u)
  PROVE  Led(t, u)
  BY DEF Led, PeerMoves

LEMMA SilentCurrent ==
  ASSUME NEW t, t.out = <<>>
  PROVE  Current(t)
  BY DEF Current

\* The write queue that the peer's moves leave alone keeps its FIN.
LEMMA LedSteps ==
  ASSUME NEW t, NEW r, Led(t, r), Current(r), t.state # "SYN_SENT"
  PROVE  Step(t, r)
  <1>1. FinsQueued(r) = FinsQueued(t) BY DEF Led, FinsQueued
  <1>2. Fins(t) => Fins(r) BY <1>1 DEF Led, PeerMoves, Fins
  <1> QED BY <1>2 DEF Step, Led, PeerMoves, LegalMoves

\* A call that changes neither state nor queue and sends nothing.
LEMMA SameSteps ==
  ASSUME NEW t, NEW r, Keeps(t, r), r.out = <<>>
  PROVE  Step(t, r)
  <1>1. FinsQueued(r) = FinsQueued(t) BY DEF Keeps, FinsQueued
  <1> QED BY <1>1, SilentCurrent DEF Step, Keeps, Fins

-----------------------------------------------------------------------------
(* Output *)

LEMMA AckCurrent ==
  ASSUME NEW t \in MidType, Current(t)
  PROVE  LET r == tcp_send_ack(t)
         IN  /\ Current(r) /\ Led(t, r)
             /\ r.rcv_nxt = t.rcv_nxt /\ r.snd_nxt = t.snd_nxt
  <1> DEFINE m == [flags |-> {"ack"}, seq |-> t.snd_nxt, ack_seq |-> t.rcv_nxt]
             o == Append(t.out, m)
             c == Corrupt(t)
             r == [c EXCEPT !.out = o]
  <1>1. CASE t.state = "CLOSE"
    <2>1. tcp_send_ack(t) = t BY <1>1 DEF tcp_send_ack
    <2> QED BY <2>1 DEF Led
  <1>2. CASE t.state # "CLOSE"
    <2>0. c \in MidType /\ c = [t EXCEPT !.live = c.live] BY CorruptType
    <2>1. tcp_send_ack(t) = r
      <3> HIDE DEF c
      <3>1. c.out = t.out BY <2>0 DEF MidType, Sockets
      <3>2. tcp_send_ack(t) = [c EXCEPT !.out = Append(c.out, m)]
        BY <1>2 DEF tcp_send_ack, tcp_transmit_skb, c
      <3> HIDE DEF m
      <3> QED BY <3>1, <3>2
    <2> HIDE DEF c
    <2>2. t.out \in Seq(Sent) BY DEF MidType, Sockets, Wire
    <2>3. m.ack_seq = t.rcv_nxt /\ m.seq = t.snd_nxt OBVIOUS
    <2>4. \A i \in DOMAIN o : o[i] = m \/ (i \in DOMAIN t.out /\ o[i] = t.out[i])
      <3> HIDE DEF m
      <3> QED BY <2>2
    <2> HIDE DEF m, o
    <2>5. /\ r.out = o /\ r.rcv_nxt = t.rcv_nxt /\ r.snd_nxt = t.snd_nxt
          /\ r.state = t.state /\ r.write_queue = t.write_queue
      BY <2>0 DEF MidType, Sockets
    <2>6. Current(r) BY <2>3, <2>4, <2>5 DEF Current
    <2> QED BY <2>1, <2>5, <2>6 DEF Led
  <1> QED BY <1>1, <1>2

-----------------------------------------------------------------------------
(* Input *)

\* Same leaves the queue and what was sent alone.
LEMMA SameLed ==
  ASSUME NEW t, NEW r, Same(t, r)
  PROVE  Led(t, r) /\ r.out = t.out
  BY DEF Same, Keeps, Led

\* A segment in sequence moves rcv_nxt and sends nothing; any other is
\* acknowledged at once.
LEMMA DataQueueCurrent ==
  ASSUME NEW t \in MidType, t.out = <<>>, NEW skb \in RxSkb,
         NEW intact \in 0 .. Len(t.ofo_queue)
  PROVE  LET r == tcp_data_queue(t, skb, intact)
         IN  /\ Led(t, r) /\ r.state = t.state /\ Current(r)
             /\ skb.seq = t.rcv_nxt => r.out = <<>>
  <1> DEFINE r == tcp_data_queue(t, skb, intact)
  <1>1. CASE t.rcv_wnd = 0
    <2>1. r = t BY <1>1 DEF tcp_data_queue
    <2> QED BY <2>1, SilentCurrent DEF Led
  <1>2. CASE t.rcv_wnd # 0 /\ skb.seq = t.rcv_nxt
    <2> DEFINE d == IF \E i \in DOMAIN t.receive_queue : t.receive_queue[i].freed
                    THEN Corrupt(t) ELSE t
               n == (d.rcv_nxt + skb.data_len) % U32
               q == Append(d.receive_queue, Queued(skb, 1))
               e == d.poll_events \cup {"IN"}
               u == [d EXCEPT !.rcv_nxt = n, !.receive_queue = q,
                              !.poll_events = e]
    <2>1. d \in MidType /\ d = [t EXCEPT !.live = d.live]
      <3>1. CASE d = Corrupt(t) BY <3>1, CorruptType
      <3>2. CASE d = t BY <3>2 DEF MidType, Sockets
      <3> QED BY <3>1, <3>2
    <2>2. r = tcp_consume_ofo_queue(u, intact) BY <1>2 DEF tcp_data_queue
    <2> HIDE DEF d
    <2>3. n \in SeqNum
      <3>1. d.rcv_nxt + skb.data_len \in Nat
        BY <2>1, SMTT(40) DEF MidType, Sockets, RxSkb, SeqNum
      <3> QED BY <3>1, ModU32
    <2>4. q \in ReadQueue
      <3>1. Queued(skb, 1) \in Received BY QueuedType
      <3>2. d.receive_queue \in Seq(Received)
        BY <2>1 DEF MidType, Sockets, ReadQueue
      <3> QED BY <3>1, <3>2 DEF ReadQueue
    <2>5. e \in Poll BY <2>1, PollIn
    <2> HIDE DEF n, q, e
    <2>6. u \in MidType BY <2>1, <2>3, <2>4, <2>5 DEF MidType, Sockets
    <2>7. /\ u.out = <<>> /\ u.state = t.state
          /\ u.write_queue = t.write_queue /\ u.ofo_queue = t.ofo_queue
      BY <2>1 DEF MidType, Sockets
    <2> HIDE DEF u
    <2>8. Same(u, r) BY <2>2, <2>6, <2>7, ConsumeType
    <2> QED BY <2>7, <2>8, SameLed, SilentCurrent DEF Led, Same, Keeps
  <1>3. CASE t.rcv_wnd # 0 /\ skb.seq # t.rcv_nxt
    <2> DEFINE i == tcp_data_insert_ordered(t, skb, intact)
               c == Corrupt(i)
    <2>1. r = tcp_send_ack(c) BY <1>3 DEF tcp_data_queue
    <2>2. i \in MidType /\ Same(t, i) BY InsertOrderedType
    <2> HIDE DEF i
    <2>3. c \in MidType /\ c = [i EXCEPT !.live = c.live]
      BY <2>2, CorruptType
    <2> HIDE DEF c
    <2>4. c.out = i.out /\ c.state = i.state /\ c.write_queue = i.write_queue
      BY <2>2, <2>3 DEF MidType, Sockets
    <2>5. c.out = <<>> /\ c.state = t.state /\ c.write_queue = t.write_queue
      BY <2>2, <2>4 DEF Same, Keeps
    <2>6. Current(c) BY <2>5, SilentCurrent
    <2>7. Current(r) /\ Led(c, r) /\ r.state = c.state
      <3> DEFINE k == tcp_send_ack(c)
      <3>1. Current(k) /\ Led(c, k) BY <2>3, <2>6, AckCurrent
      <3>2. k = [c EXCEPT !.out = k.out, !.live = k.live]
        BY <2>3, SendAckType
      <3> HIDE DEF k, r
      <3>3. k.state = c.state BY <2>3, <3>2 DEF MidType, Sockets
      <3> QED BY <2>1, <3>1, <3>3 DEF k
    <2> QED BY <1>3, <2>5, <2>7 DEF Led
  <1> QED BY <1>1, <1>2, <1>3

\* The FIN is counted before it is acknowledged.
LEMMA FinCurrent ==
  ASSUME NEW t \in MidType, t.out = <<>>
  PROVE  Current(InSequenceFin(t)) /\ Led(t, InSequenceFin(t))
  <1> DEFINE n == (t.rcv_nxt + 1) % U32
             f == t.flags \cup {"fin"}
             e == t.poll_events \cup {"IN"}
             u == [t EXCEPT !.rcv_nxt = n, !.flags = f, !.poll_events = e]
  <1>1. n \in SeqNum
    <2>1. t.rcv_nxt + 1 \in Nat BY DEF MidType, Sockets, SeqNum
    <2> QED BY <2>1, ModU32
  <1>2. f \in TcpFlags BY DEF MidType, Sockets, TcpFlags
  <1>3. e \in Poll BY PollIn
  <1>4. InSequenceFin(t) = tcp_send_ack(u) BY DEF InSequenceFin
  <1> HIDE DEF n, f, e
  <1>5. u \in MidType BY <1>1, <1>2, <1>3 DEF MidType, Sockets
  <1>6. u.out = <<>> /\ u.state = t.state /\ u.write_queue = t.write_queue
    BY DEF MidType, Sockets
  <1> HIDE DEF u
  <1>7. Current(tcp_send_ack(u)) /\ Led(u, tcp_send_ack(u))
    BY <1>5, <1>6, SilentCurrent, AckCurrent
  <1> QED BY <1>4, <1>6, <1>7 DEF Led

LEMMA AfterFinLed ==
  ASSUME NEW t, Established(t)
  PROVE  LET r == AfterFin(t)
         IN  Led(t, r) /\ (Current(t) => Current(r))
  <1> DEFINE r == AfterFin(t)
             w == [t EXCEPT !.state = "CLOSE_WAIT"]
             c == [t EXCEPT !.state = "CLOSING"]
             z == tcp_enter_time_wait(t)
  <1>1. t \in MidType /\ t.write_queue # <<>> /\ t.state # "FIN_WAIT_2"
    BY DEF Established, Connecting, ConnectingStates
  <1>2. r = CASE t.state \in {"ESTABLISHED", "SYN_RECEIVED"} -> w
              [] t.state = "FIN_WAIT_1" /\ t.write_queue # <<>> -> c
              [] \/ t.state = "FIN_WAIT_1" /\ t.write_queue = <<>>
                 \/ t.state = "FIN_WAIT_2" -> z
              [] OTHER -> t
    BY DEF AfterFin
  <1> HIDE DEF r, w, c, z
  <1>3. \/ t.state \in {"ESTABLISHED", "SYN_RECEIVED"} /\ r = w
        \/ t.state = "FIN_WAIT_1" /\ r = c
        \/ r = t
    <2>1. CASE t.state \in {"ESTABLISHED", "SYN_RECEIVED"} BY <1>2, <2>1
    <2>2. CASE t.state = "FIN_WAIT_1" BY <1>1, <1>2, <2>2
    <2>3. CASE t.state \notin {"ESTABLISHED", "SYN_RECEIVED", "FIN_WAIT_1"}
      BY <1>1, <1>2, <2>3
    <2> QED BY <2>1, <2>2, <2>3
  <1>4. /\ w.state = "CLOSE_WAIT" /\ w.write_queue = t.write_queue
        /\ w.out = t.out /\ w.rcv_nxt = t.rcv_nxt /\ w.snd_nxt = t.snd_nxt
        /\ c.state = "CLOSING" /\ c.write_queue = t.write_queue
        /\ c.out = t.out /\ c.rcv_nxt = t.rcv_nxt /\ c.snd_nxt = t.snd_nxt
    BY <1>1 DEF w, c, MidType, Sockets
  <1>5. Led(t, r) BY <1>3, <1>4 DEF Led, PeerMoves
  <1>6. /\ r.out = t.out /\ r.rcv_nxt = t.rcv_nxt /\ r.snd_nxt = t.snd_nxt
    BY <1>3, <1>4
  <1>7. Current(t) => Current(r) BY <1>6 DEF Current
  <1> QED BY <1>5, <1>7 DEF r

LEMMA SetDelackCurrent ==
  ASSUME NEW t \in MidType, Current(t), NEW p
  PROVE  LET r == [t EXCEPT !.delack = p]
         IN  Current(r) /\ Led(t, r)
  <1> DEFINE r == [t EXCEPT !.delack = p]
  <1>1. /\ r.out = t.out /\ r.rcv_nxt = t.rcv_nxt /\ r.snd_nxt = t.snd_nxt
        /\ r.state = t.state /\ r.write_queue = t.write_queue
    BY DEF MidType, Sockets
  <1> HIDE DEF r
  <1> QED BY <1>1 DEF Current, Led, r

LEMMA DelayedAckCurrent ==
  ASSUME NEW t, Established(t), Current(t), NEW seg, NEW skb \in RxSkb
  PROVE  LET r == DelayedAck(t, seg, skb)
         IN  Current(r) /\ Led(t, r)
  <1> DEFINE p    == t.delack
             g    == Cancel(t, p)
             s    == tcp_stop_delack_timer(t)
             full == skb.data_len > FullSize
             n    == (s.delacks + 1) % U8
             k    == IF "psh" \notin seg.flags /\ full
                     THEN [s EXCEPT !.delacks = n] ELSE s
             a    == [k EXCEPT !.delack = NULL]
             d    == [k EXCEPT !.delack = Create("send_delack")]
  <1>1. t \in MidType /\ p \in TimerPointers BY DEF Established, MidType, Sockets
  <1>2. Established(s) /\ s.inflight # 0 /\ s.delacks \in Byte
    BY StopDelackEstablished
  <1>3. Current(s) /\ Led(t, s)
    <2> DEFINE z == [g EXCEPT !.delack = NULL]
    <2>1. g \in MidType /\ g = [t EXCEPT !.live = g.live, !.cancelled = g.cancelled]
      BY <1>1, CancelType
    <2>2. s = z BY DEF tcp_stop_delack_timer
    <2> HIDE DEF g, s
    <2>3. /\ z.out = t.out /\ z.rcv_nxt = t.rcv_nxt /\ z.snd_nxt = t.snd_nxt
          /\ z.state = t.state /\ z.write_queue = t.write_queue
      BY <1>1, <2>1 DEF MidType, Sockets
    <2> QED BY <2>2, <2>3 DEF Current, Led
  <1>4. n \in Byte
    <2> HIDE DEF s
    <2>1. s.delacks + 1 \in Nat BY <1>2, WidthAssumption DEF WidthAssumption, Byte
    <2> QED BY <2>1, SmallBytes
  <1>5. DelayedAck(t, seg, skb) \in {tcp_send_ack(a), d, k}
    <2> HIDE DEF s
    <2>1. DelayedAck(t, seg, skb) =
            IF "psh" \in seg.flags \/ (full /\ n > 1) THEN tcp_send_ack(a)
            ELSE IF skb.data_len > 0 THEN d ELSE k
      BY <1>2 DEF DelayedAck, s
    <2> HIDE DEF a, d, k, n, full
    <2> QED BY <2>1
  <1> HIDE DEF s, n
  <1>6. k \in MidType /\ Current(k) /\ Led(t, k)
    <2> DEFINE z == [s EXCEPT !.delacks = n]
    <2>1. s \in MidType BY <1>2 DEF Established
    <2>2. z \in MidType BY <1>4, <2>1 DEF MidType, Sockets
    <2>3. /\ z.out = s.out /\ z.rcv_nxt = s.rcv_nxt /\ z.snd_nxt = s.snd_nxt
          /\ z.state = s.state /\ z.write_queue = s.write_queue
      BY <2>1 DEF MidType, Sockets
    <2> HIDE DEF z
    <2>4. Current(z) /\ Led(t, z) BY <1>3, <2>3 DEF Current, Led
    <2>5. k = z \/ k = s BY DEF z
    <2> QED BY <1>3, <2>1, <2>2, <2>4, <2>5
  <1> HIDE DEF k
  <1>7. a \in MidType BY <1>6, NullPointer DEF MidType, Sockets
  <1>8. Current(a) /\ Led(t, a) /\ Current(d) /\ Led(t, d)
    BY <1>6, SetDelackCurrent, LedTransitive
  <1> HIDE DEF a, d
  <1>9. Current(tcp_send_ack(a)) /\ Led(t, tcp_send_ack(a))
    BY <1>7, <1>8, AckCurrent, LedTransitive
  <1> QED BY <1>5, <1>6, <1>8, <1>9

LEMMA ProcessSegmentCurrent ==
  ASSUME NEW t, Established(t), t.out = <<>>, NEW seg \in SegmentType,
         NEW intact \in 0 .. Len(t.ofo_queue)
  PROVE  LET p == ProcessSegment(t, seg, intact)
         IN  Current(p) /\ Led(t, p)
  <1> DEFINE skb      == tcp_init_segment(seg)
             expected == skb.seq = t.rcv_nxt
             text     == "psh" \in seg.flags \/ skb.data_len > 0
             r        == IF t.state \in Receiving /\ text
                         THEN tcp_data_queue(t, skb, intact) ELSE t
             f        == IF "fin" \in seg.flags /\ expected
                         THEN AfterFin(InSequenceFin(r)) ELSE r
  <1>1. skb \in RxSkb BY InitSegmentType
  <1>2. ProcessSegment(t, seg, intact) =
          IF f.state \in Receiving /\ expected THEN DelayedAck(f, seg, skb)
          ELSE f
    BY DEF ProcessSegment
  <1> HIDE DEF skb
  <1>3. /\ Established(r) /\ Led(t, r) /\ Current(r)
        /\ expected => r.out = <<>>
    <2>1. t \in MidType BY DEF Established
    <2> QED BY <1>1, <2>1, DataQueueEstablished, DataQueueCurrent, SilentCurrent
         DEF Led
  <1> HIDE DEF r
  <1>4. Established(f) /\ Led(t, f) /\ Current(f)
    <2> DEFINE i == InSequenceFin(r)
               g == AfterFin(i)
    <2>1. CASE "fin" \in seg.flags /\ expected
      <3>1. r \in MidType BY <1>3 DEF Established
      <3>2. Current(i) /\ Led(r, i) /\ Established(i)
        BY <1>3, <2>1, <3>1, FinCurrent, FinEstablished
      <3> HIDE DEF i
      <3>3. Current(g) /\ Led(i, g) /\ Established(g)
        BY <3>2, AfterFinLed, AfterFinEstablished
      <3>4. f = g BY <2>1 DEF i
      <3> HIDE DEF g
      <3> QED BY <1>3, <3>2, <3>3, <3>4, LedTransitive
    <2>2. CASE ~("fin" \in seg.flags /\ expected) BY <1>3, <2>2
    <2> QED BY <2>1, <2>2
  <1> HIDE DEF f, expected
  <1>5. Current(DelayedAck(f, seg, skb)) /\ Led(t, DelayedAck(f, seg, skb))
    BY <1>1, <1>4, DelayedAckCurrent, LedTransitive
  <1> QED BY <1>2, <1>4, <1>5

LEMMA SynsentSteps ==
  ASSUME NEW t \in MidType, Good(t), t.state = "SYN_SENT", t.out = <<>>,
         NEW seg \in SegmentType
  PROVE  Steps(t, tcp_synsent(t, seg))
  <1> DEFINE n == (seg.seq + 1) % U32
             r == [t EXCEPT !.rcv_nxt = n]
             u == [r EXCEPT !.state = "SYN_RECEIVED", !.snd_una = r.iss]
             k == sock_connected(tcp_rearm_user_timeout(tcp_send_ack(
                    [r EXCEPT !.state = "ESTABLISHED", !.backoff = 0,
                              !.snd_una = r.snd_nxt])))
  <1>1. Connecting(t) BY DEF Good, Fresh
  <1> HIDE DEF n
  <1>2. r.snd_una = r.iss /\ r.iss \in Nat
    BY <1>1 DEF Connecting, MidType, Sockets, SeqNum
  <1>3. ~(r.snd_una > r.iss) BY <1>2
  <1>4. /\ u.state = "SYN_RECEIVED" /\ u.out = <<>>
        /\ u.write_queue = t.write_queue
    BY DEF MidType, Sockets
  <1>5. tcp_send_synsack(u) = u
    <2> HIDE DEF u
    <2> QED BY <1>4 DEF tcp_send_synsack
  <1>6. \/ tcp_synsent(t, seg) = t
        \/ tcp_synsent(t, seg) = tcp_reset(t)
        \/ tcp_synsent(t, seg) = tcp_send_synsack(u)
    <2>1. tcp_synsent(t, seg) =
            IF "ack" \in seg.flags THEN t
            ELSE IF "rst" \in seg.flags THEN tcp_reset(t)
            ELSE IF "syn" \notin seg.flags THEN t
            ELSE IF r.snd_una > r.iss THEN k ELSE tcp_send_synsack(u)
      BY DEF tcp_synsent, Synchronised, n
    <2> HIDE DEF r, u, k
    <2> QED BY <1>3, <2>1
  <1>7. Step(t, t) BY SilentCurrent DEF Step
  <1>8. Steps(t, tcp_reset(t)) BY ResetDoomed DEF Steps
  <1> HIDE DEF u
  <1>9. Step(t, u)
    <2>1. FinsQueued(u) = FinsQueued(t) BY <1>4 DEF FinsQueued
    <2>2. Fins(t) => Fins(u) BY <1>4, <2>1 DEF Fins
    <2> QED BY <1>4, <2>2, SilentCurrent DEF Step, LegalMoves
  <1> QED BY <1>5, <1>6, <1>7, <1>8, <1>9 DEF Steps

LEMMA InputSteps ==
  ASSUME NEW t \in MidType, Good(t), t.out = <<>>, NEW seg \in SegmentType,
         NEW intact \in 0 .. Len(t.ofo_queue)
  PROVE  Steps(t, tcp_input_state(t, seg, intact))
  <1> DEFINE r == tcp_input_state(t, seg, intact)
             e == Establish(t)
             a == Acknowledge(e, seg)
             p == ProcessSegment(AllAcknowledged(a, seg), seg, intact)
  <1>1. CASE t.state = "CLOSE"
    <2>1. r = t \/ r = tcp_send_reset(t)
      BY <1>1 DEF tcp_input_state, tcp_closed
    <2>2. Step(t, t) BY SilentCurrent DEF Step
    <2>3. Step(t, tcp_send_reset(t))
      <3> DEFINE b == [t EXCEPT !.snd_una = t.snd_nxt]
                 c == Corrupt(b)
                 o == Append(c.out, [flags |-> {"rst"}, seq |-> t.snd_nxt,
                                     ack_seq |-> b.rcv_nxt])
                 s == [c EXCEPT !.out = o]
      <3>1. tcp_send_reset(t) = s BY DEF tcp_send_reset, tcp_transmit_skb
      <3>0. /\ b \in MidType /\ b.out = <<>> /\ b.state = t.state
            /\ b.write_queue = t.write_queue
        BY DEF MidType, Sockets
      <3> HIDE DEF b
      <3>2. c \in MidType /\ c = [b EXCEPT !.live = c.live]
        BY <3>0, CorruptType
      <3> HIDE DEF c
      <3>6. c.out = <<>> /\ c.state = t.state /\ c.write_queue = t.write_queue
        BY <3>0, <3>2 DEF MidType, Sockets
      <3>3. \A i \in DOMAIN o : o[i].flags = {"rst"}
        BY <3>6
      <3> HIDE DEF o
      <3>4. s.out = o /\ s.state = t.state /\ s.write_queue = t.write_queue
        BY <3>2, <3>6 DEF MidType, Sockets
      <3> HIDE DEF s
      <3>5. Led(t, s) /\ Current(s) BY <3>3, <3>4 DEF Led, Current
      <3> QED BY <1>1, <3>1, <3>5, LedSteps
    <2> QED BY <2>1, <2>2, <2>3 DEF Steps
  <1>2. CASE t.state = "SYN_SENT"
    <2>1. r = tcp_synsent(t, seg) BY <1>2 DEF tcp_input_state
    <2> QED BY <1>2, <2>1, SynsentSteps
  <1>3. CASE Answered(t)
    <2>1. Connecting(t) BY <1>3 DEF Good, Fresh, Answered
    <2>2. Established(t) BY <1>3, <2>1 DEF Established
    <2>3. t.state # "LISTEN" /\ t.state # "SYN_SENT"
      BY <1>3, <2>1 DEF Connecting, ConnectingStates, Answered
    <2>4. /\ Established(e) /\ e.ofo_queue = t.ofo_queue
          /\ e.out = <<>> /\ Led(t, e)
      <3> DEFINE x == [t EXCEPT !.state = "ESTABLISHED"]
      <3>1. "ESTABLISHED" \in ConnectingStates \ {"SYN_SENT"}
        BY DEF ConnectingStates
      <3>2. /\ x \in MidType /\ Good(x) /\ Connecting(x)
            /\ x.ofo_queue = t.ofo_queue
        BY <2>1, <2>3, <3>1, StateGood
      <3>3. /\ x.state = "ESTABLISHED" /\ x.out = <<>>
            /\ x.write_queue = t.write_queue
        BY DEF MidType, Sockets
      <3>4. (t.state = "SYN_RECEIVED" /\ e = x) \/ e = t BY DEF Establish
      <3> HIDE DEF x, e
      <3>5. Led(t, e) BY <3>3, <3>4 DEF Led, PeerMoves
      <3> QED BY <2>2, <3>2, <3>3, <3>4, <3>5 DEF Established, Answered
    <2> HIDE DEF e
    <2>5. a = e BY <2>4, NothingAcknowledged
    <2>6. a.write_queue # <<>> /\ a.state # "LAST_ACK"
      <3>1. Connecting(e) BY <2>4 DEF Established
      <3> QED BY <2>5, <3>1 DEF Connecting, ConnectingStates
    <2>7. AllAcknowledged(a, seg) = e
      <3> HIDE DEF a
      <3> QED BY <2>5, <2>6 DEF AllAcknowledged
    <2>8. Current(p) /\ Led(t, p)
      BY <2>4, <2>7, ProcessSegmentCurrent, LedTransitive
    <2>9. r \in {t, tcp_send_ack(t), tcp_enter_time_wait(t), p}
      <3>1. r = IF ~tcp_verify_segment(t, seg)
                THEN IF "rst" \in seg.flags THEN t ELSE tcp_send_ack(t)
                ELSE IF "rst" \in seg.flags THEN tcp_enter_time_wait(t)
                ELSE IF "syn" \in seg.flags \/ "ack" \notin seg.flags THEN t
                ELSE IF AckDropped(t, seg) THEN t
                ELSE IF a.write_queue = <<>> /\ a.state = "LAST_ACK"
                     THEN tcp_done(a) ELSE p
        BY <1>3, <2>3 DEF tcp_input_state, Answered, e
      <3> HIDE DEF r, a, p
      <3> QED BY <2>6, <3>1
    <2>10. Step(t, t) BY SilentCurrent DEF Step
    <2>11. Step(t, tcp_send_ack(t))
      BY <2>3, SilentCurrent, AckCurrent, LedSteps
    <2>12. Doomed(tcp_enter_time_wait(t)) BY TimeWaitDoomed
    <2> HIDE DEF p
    <2>13. Step(t, p) BY <2>3, <2>8, LedSteps
    <2> HIDE DEF r
    <2>14. Steps(t, r) BY <2>9, <2>10, <2>11, <2>12, <2>13 DEF Steps
    <2> QED BY <2>14 DEF r
  <1> QED BY <1>1, <1>2, <1>3 DEF Answered

-----------------------------------------------------------------------------
(* Calls of the application and handlers *)

\* An error code changes neither the connection nor the wire.
LEMMA ErrSteps ==
  ASSUME NEW t \in MidType, t.out = <<>>, NEW e
  PROVE  Steps(t, [t EXCEPT !.err = e])
  <1> DEFINE r == [t EXCEPT !.err = e]
  <1>1. r.state = t.state /\ r.write_queue = t.write_queue /\ r.out = <<>>
    BY DEF MidType, Sockets
  <1> HIDE DEF r
  <1>2. FinsQueued(r) = FinsQueued(t) BY <1>1 DEF FinsQueued
  <1>3. Fins(t) => Fins(r) BY <1>1, <1>2 DEF Fins
  <1>4. Step(t, r) BY <1>1, <1>3, SilentCurrent DEF Step
  <1> QED BY <1>4 DEF Steps, r

\* The first buffer of a connection carries no FIN, and its segment no number
\* to acknowledge.
LEMMA SendSynShape ==
  ASSUME NEW t \in MidType, t.state = "SYN_SENT", t.write_queue = <<>>,
         t.out = <<>>
  PROVE  LET r == tcp_queue_transmit_skb(t, tcp_alloc_skb({"syn"}, 0))
         IN  /\ r.state = "SYN_SENT"
             /\ \A i \in DOMAIN r.write_queue :
                  r.write_queue[i].flags = {"syn"}
             /\ \A i \in DOMAIN r.out : r.out[i].flags = {"syn"}
  <1> DEFINE skb == tcp_alloc_skb({"syn"}, 0)
             a   == tcp_rearm_rto_timer(t)
             num == Sequenced(a, skb).skb
             m   == [flags |-> skb.flags, seq |-> a.snd_nxt,
                     ack_seq |-> a.rcv_nxt]
             k   == Corrupt(a)
             x   == [k EXCEPT !.out = Append(k.out, m)]
             y   == [x EXCEPT !.inflight = (x.inflight + 1) % U32,
                              !.snd_nxt = Sequenced(a, skb).snd_nxt,
                              !.write_queue = Append(x.write_queue, num)]
             w   == [a EXCEPT !.write_queue = Append(a.write_queue, skb)]
             r   == tcp_queue_transmit_skb(t, skb)
  <1>1. /\ a \in MidType
        /\ a = [t EXCEPT !.live = a.live, !.retransmit = a.retransmit]
    BY RearmRtoType
  <1>2. skb.flags = {"syn"} BY DEF tcp_alloc_skb
  <1>3. num.flags = {"syn"}
    <2> HIDE DEF a
    <2> QED BY DEF Sequenced, tcp_alloc_skb
  <1>4. r = IF a.inflight = 0 THEN y ELSE w
    BY DEF tcp_queue_transmit_skb, tcp_transmit_skb
  <1> HIDE DEF a, num, skb
  <1>9. k \in MidType /\ k = [a EXCEPT !.live = k.live] BY <1>1, CorruptType
  <1> HIDE DEF k
  <1>5. a.state = "SYN_SENT" /\ a.out = <<>> /\ a.write_queue = <<>>
    BY <1>1 DEF MidType, Sockets
  <1>6. m.flags = {"syn"} BY <1>2
  <1> HIDE DEF m
  <1>7. /\ x.state = "SYN_SENT" /\ x.out = <<m>> /\ x.write_queue = <<>>
        /\ w.state = "SYN_SENT" /\ w.out = <<>> /\ w.write_queue = <<skb>>
    <2>1. k.out = <<>> /\ k.state = "SYN_SENT" /\ k.write_queue = <<>>
      BY <1>1, <1>5, <1>9 DEF MidType, Sockets
    <2>2. Append(k.out, m) = <<m>> /\ Append(a.write_queue, skb) = <<skb>>
      BY <1>5, <2>1
    <2> QED BY <1>1, <1>5, <1>9, <2>1, <2>2 DEF MidType, Sockets
  <1>8. y.state = "SYN_SENT" /\ y.out = <<m>> /\ y.write_queue = <<num>>
    <2>1. Append(x.write_queue, num) = <<num>>
      <3> HIDE DEF x
      <3> QED BY <1>7
    <2>2. DOMAIN x = DOMAIN a /\ {"state", "out", "write_queue"} \in SUBSET DOMAIN a
      BY <1>1, <1>9 DEF MidType, Sockets
    <2> HIDE DEF x
    <2> QED BY <1>7, <2>1, <2>2
  <1> HIDE DEF y, w, r
  <1> QED BY <1>2, <1>3, <1>4, <1>6, <1>7, <1>8 DEF r, skb

LEMMA ConnectSwitchSteps ==
  ASSUME NEW t \in MidType, Good(t), t.out = <<>>, NEW iss \in Iss
  PROVE  Steps(t, ConnectSwitch(t, iss))
  <1> DEFINE a == [t EXCEPT !.iss = iss, !.snd_una = iss, !.snd_nxt = iss,
                            !.rcv_wnd = RcvWnd]
             b == [a EXCEPT !.state = "SYN_SENT"]
             s == tcp_queue_transmit_skb(b, tcp_alloc_skb({"syn"}, 0))
             k == tcp_connect(t, iss)
             c == [k EXCEPT !.sstate = "CONNECTING", !.err = "EINPROGRESS"]
             d == [c EXCEPT !.live = {"dead"}]
             r == ConnectSwitch(t, iss)
  <1>1. CASE Fresh(t)
    <2>1. r = IF c.nonblock THEN c ELSE d
      BY <1>1 DEF ConnectSwitch, Fresh
    <2>2. c \in MidType BY <1>1, TcpConnectGood
    <2>3. iss \in SeqNum BY IssFits
    <2>4. a \in MidType
      BY <2>3, SizeAssumption DEF SizeAssumption, MidType, Sockets
    <2>5. /\ a.state = "CLOSE" /\ a.write_queue = <<>> /\ a.out = <<>>
          /\ a.snd_nxt = iss
      BY <1>1 DEF MidType, Sockets, Fresh
    <2>6. tcp_send_syn(a) = s BY <2>5 DEF tcp_send_syn
    <2>7. k = [s EXCEPT !.snd_nxt = (s.snd_nxt + 1) % U32]
      BY <2>6 DEF tcp_connect
    <2> HIDE DEF a
    <2>8. b \in MidType /\ b.state = "SYN_SENT" /\ b.write_queue = <<>>
          /\ b.out = <<>> /\ b.snd_nxt = iss
      <3>1. "SYN_SENT" \in Tcp_State BY DEF Tcp_State
      <3> QED BY <2>4, <2>5, <3>1 DEF MidType, Sockets
    <2> HIDE DEF b
    <2>9. /\ s.state = "SYN_SENT"
          /\ \A i \in DOMAIN s.write_queue : s.write_queue[i].flags = {"syn"}
          /\ \A i \in DOMAIN s.out : s.out[i].flags = {"syn"}
      BY <2>8, SendSynShape
    <2>10. s \in MidType BY <2>8, SendSynGood DEF SynQueued
    <2> HIDE DEF s, k
    <2>11. /\ k.state = s.state /\ k.write_queue = s.write_queue
           /\ k.out = s.out /\ DOMAIN k = DOMAIN s
      BY <2>7, <2>10 DEF MidType, Sockets
    <2>12. /\ c.state = s.state /\ c.write_queue = s.write_queue
           /\ c.out = s.out
      BY <2>11
    <2>13. "up" \notin d.live BY <2>2 DEF MidType, Sockets
    <2> HIDE DEF c, d
    <2>14. Current(c) BY <2>9, <2>12 DEF Current
    <2>15. FinsQueued(c) = {} BY <2>9, <2>12 DEF FinsQueued
    <2>16. Fins(c) BY <2>9, <2>12, <2>15 DEF Fins
    <2>17. Step(t, c)
      BY <1>1, <2>9, <2>12, <2>14, <2>16 DEF Step, LegalMoves, Fresh
    <2> QED BY <2>1, <2>13, <2>17 DEF Steps, Doomed
  <1>2. CASE Connecting(t)
    <2>1. r = [t EXCEPT !.err = "EALREADY"]
      BY <1>2 DEF ConnectSwitch, Connecting
    <2> QED BY <2>1, ErrSteps, SMTT(40)
  <1> QED BY <1>1, <1>2 DEF Good

\* A FIN that is queued behind the SYN is not sent.
LEMMA QueueFinShape ==
  ASSUME NEW t \in MidType, Connecting(t)
  PROVE  LET r == tcp_queue_fin(t)
         IN  /\ r.state = t.state /\ r.out = t.out
             /\ Len(r.write_queue) \in Nat
             /\ FinsQueued(r) = FinsQueued(t) \cup {Len(r.write_queue)}
  <1> DEFINE skb == tcp_alloc_skb({"fin", "ack"}, 0)
             q   == Append(t.write_queue, skb)
             r   == [t EXCEPT !.write_queue = q]
  <1>1. tcp_queue_fin(t) = r
    BY DEF tcp_queue_fin, tcp_queue_transmit_skb, Connecting
  <1>2. t.write_queue \in Seq(Skb) BY DEF MidType, Sockets, WriteQueue
  <1>3. "fin" \in skb.flags BY DEF tcp_alloc_skb
  <1> HIDE DEF skb
  <1>4. /\ Len(q) = Len(t.write_queue) + 1 /\ DOMAIN q = 1 .. Len(q)
        /\ Len(t.write_queue) \in Nat
        /\ DOMAIN t.write_queue = 1 .. Len(t.write_queue)
        /\ \A i \in DOMAIN t.write_queue : q[i] = t.write_queue[i]
        /\ q[Len(q)] = skb
    BY <1>2
  <1> HIDE DEF q
  <1>5. r.state = t.state /\ r.out = t.out /\ r.write_queue = q
    BY DEF MidType, Sockets
  <1> HIDE DEF r
  <1>6. FinsQueued(r) = FinsQueued(t) \cup {Len(q)}
    BY <1>3, <1>4, <1>5 DEF FinsQueued
  <1> QED BY <1>1, <1>4, <1>5, <1>6

\* Only the first close of an established connection leads to FIN_WAIT_1.
LEMMA CloseSteps ==
  ASSUME NEW t \in MidType, Good(t), t.out = <<>>
  PROVE  Steps(t, tcp_close(t))
  <1>1. CASE t.state = "ESTABLISHED"
    <2> DEFINE f == [t EXCEPT !.state = "FIN_WAIT_1"]
               r == tcp_queue_fin(f)
    <2>1. Connecting(t) BY <1>1 DEF Good, Fresh
    <2>2. "FIN_WAIT_1" \in ConnectingStates \ {"SYN_SENT"}
      BY DEF ConnectingStates
    <2>3. f \in MidType /\ Connecting(f) BY <1>1, <2>1, <2>2, StateGood
    <2>4. /\ f.state = "FIN_WAIT_1" /\ f.out = <<>>
          /\ f.write_queue = t.write_queue
      BY DEF MidType, Sockets
    <2>5. tcp_close(t) = r BY <1>1 DEF tcp_close
    <2> HIDE DEF f
    <2>6. /\ r.state = f.state /\ r.out = f.out
          /\ FinsQueued(r) = FinsQueued(f) \cup {Len(r.write_queue)}
      BY <2>3, QueueFinShape
    <2> HIDE DEF r
    <2>7. FinsQueued(f) = FinsQueued(t) BY <2>4 DEF FinsQueued
    <2>8. Fins(t) => Fins(r)
      <3> SUFFICES ASSUME Fins(t) PROVE Fins(r)
        OBVIOUS
      <3>1. FinsQueued(t) = {} BY <1>1 DEF Fins
      <3>2. FinsQueued(r) = {Len(r.write_queue)} BY <2>6, <2>7, <3>1
      <3> QED BY <2>4, <2>6, <3>2 DEF Fins
    <2>9. Step(t, r)
      BY <1>1, <2>4, <2>6, <2>8, SilentCurrent DEF Step, LegalMoves
    <2> QED BY <2>5, <2>9 DEF Steps
  <1>2. CASE t.state = "CLOSE_WAIT"
    <2> DEFINE r == tcp_queue_fin(t)
    <2>1. Connecting(t) BY <1>2 DEF Good, Fresh
    <2>2. tcp_close(t) = r BY <1>2 DEF tcp_close
    <2>3. r.state = t.state /\ r.out = t.out BY <2>1, QueueFinShape
    <2> HIDE DEF r
    <2>4. Fins(r) BY <1>2, <2>3 DEF Fins
    <2> QED BY <1>2, <2>2, <2>3, <2>4, SilentCurrent DEF Steps, Step
  <1>3. CASE t.state \in {"LISTEN", "SYN_SENT", "SYN_RECEIVED"}
    <2>1. tcp_close(t) = tcp_done(t) BY <1>3 DEF tcp_close
    <2> QED BY <2>1, DoneDoomed DEF Steps
  <1>4. CASE t.state \notin {"ESTABLISHED", "CLOSE_WAIT", "LISTEN",
                             "SYN_SENT", "SYN_RECEIVED"}
    <2>1. tcp_close(t) = [t EXCEPT !.err = "EBADF"] BY <1>4 DEF tcp_close
    <2> QED BY <2>1, ErrSteps
  <1> QED BY <1>1, <1>2, <1>3, <1>4

LEMMA SendDelackSteps ==
  ASSUME NEW t \in MidType, t.out = <<>>, Answered(t)
  PROVE  Steps(t, tcp_send_delack(t))
  <1> DEFINE a == [t EXCEPT !.delacks = 0]
             b == Release(a, a.delack)
             c == [b EXCEPT !.delack = NULL]
             r == tcp_send_ack(c)
  <1>1. a \in MidType BY SmallBytes DEF MidType, Sockets
  <1> HIDE DEF a
  <1>2. b \in MidType /\ b = [a EXCEPT !.live = b.live] BY <1>1, ReleaseType
  <1>3. tcp_send_delack(t) = r
    BY DEF tcp_send_delack, tcp_release_delack_timer, a
  <1> HIDE DEF b
  <1>4. c \in MidType BY <1>2, NullPointer DEF MidType, Sockets
  <1>5. c = [t EXCEPT !.delacks = 0, !.live = b.live, !.delack = NULL]
    BY <1>2 DEF a, MidType, Sockets
  <1> HIDE DEF c
  <1>6. c.out = <<>> /\ c.state = t.state /\ c.write_queue = t.write_queue
    BY <1>5 DEF MidType, Sockets
  <1>7. Current(r) /\ Led(c, r) BY <1>4, <1>6, SilentCurrent, AckCurrent
  <1> HIDE DEF r
  <1>8. Led(t, r) BY <1>6, <1>7 DEF Led
  <1>9. Step(t, r) BY <1>7, <1>8, LedSteps DEF Answered
  <1> QED BY <1>3, <1>9 DEF Steps

-----------------------------------------------------------------------------
(* The steps of the specification *)

\* What is done to a socket that is freed, in this step or before.
Idle == tsk'.freed /\ tsk'.state = tsk.state /\ tsk'.out = <<>>

\* What every step of the specification does to the socket.
Advance == /\ tsk.freed => Idle
           /\ Step(Entered, tsk') \/ Idle

\* A step that kills the process leaves the socket as the handler found it.
LEMMA CommitSteps ==
  ASSUME NEW t, Safety, ~tsk.freed, Safe(Entered, t), Steps(Entered, t),
         Commit(t)
  PROVE  Advance
  <1>1. Entered.out = <<>> BY InTableGood, EnteredGood
  <1>2. CASE "up" \in t.live /\ tsk' = [t EXCEPT !.live = {"up"}]
    <2> DEFINE r == [t EXCEPT !.live = {"up"}]
    <2>1. t \in MidType /\ Step(Entered, t)
      BY <1>2 DEF Safe, Steps, Doomed
    <2>2. /\ r.state = t.state /\ r.write_queue = t.write_queue
          /\ r.out = t.out /\ r.rcv_nxt = t.rcv_nxt /\ r.snd_nxt = t.snd_nxt
      BY <2>1 DEF MidType, Sockets
    <2> HIDE DEF r
    <2>3. FinsQueued(r) = FinsQueued(t) BY <2>2 DEF FinsQueued
    <2>4. Fins(t) => Fins(r) BY <2>2, <2>3 DEF Fins
    <2>5. Current(t) => Current(r) BY <2>2 DEF Current
    <2>6. Step(Entered, r) BY <2>1, <2>2, <2>4, <2>5 DEF Step
    <2> QED BY <1>2, <2>6 DEF Advance, r
  <1>3. CASE tsk' = Entered
    BY <1>1, <1>3, SilentCurrent DEF Advance, Step
  <1> QED BY <1>2, <1>3 DEF Commit

\* A freed socket keeps its state and sends nothing.
LEMMA CommitIdle ==
  ASSUME NEW t \in MidType, Safety, Gone(t), t.state = tsk.state, Commit(t)
  PROVE  Advance
  <1>1. CASE proc' = "up"
    <2>1. Idle BY <1>1, CommitGone DEF Idle
    <2> QED BY <2>1 DEF Advance
  <1>2. CASE proc' # "up"
    <2>1. tsk' = Entered BY <1>2 DEF Commit
    <2>2. Entered.out = <<>> /\ Entered.state = tsk.state
          /\ Entered.freed = tsk.freed
      BY DEF Safety, Entered, SocketType, Sockets
    <2>3. Step(Entered, tsk') BY <2>1, <2>2, SilentCurrent DEF Step
    <2>4. tsk.freed => Idle BY <2>1, <2>2 DEF Idle
    <2> QED BY <2>3, <2>4 DEF Advance
  <1> QED BY <1>1, <1>2

\* The clock and a sweep change timers and handlers only.
LEMMA TimerSteps ==
  ASSUME Safety, TickAdvances \/ timers_tick
  PROVE  Advance
  <1>1. tsk \in SocketType BY DEF Safety
  <1>2. /\ tsk'.state = tsk.state /\ tsk'.write_queue = tsk.write_queue
        /\ tsk'.out = <<>> /\ tsk'.freed = tsk.freed
    <2>1. CASE timers_tick
      BY <1>1, <2>1 DEF timers_tick, SocketType, Sockets
    <2>2. CASE TickAdvances
      <3>1. PICK r \in BOOLEAN, d \in BOOLEAN, l \in BOOLEAN,
                 c \in SUBSET DOMAIN tsk.cancelled : ClockAdvances(r, d, l, c)
        BY <2>2 DEF TickAdvances
      <3> QED BY <1>1, <3>1 DEF ClockAdvances, SocketType, Sockets
    <2> QED BY <2>1, <2>2
  <1>3. /\ Entered.state = tsk.state /\ Entered.write_queue = tsk.write_queue
    BY <1>1 DEF Entered, SocketType, Sockets
  <1>4. FinsQueued(tsk') = FinsQueued(Entered) BY <1>2, <1>3 DEF FinsQueued
  <1>5. Fins(Entered) => Fins(tsk') BY <1>2, <1>3, <1>4 DEF Fins
  <1>6. Step(Entered, tsk') BY <1>2, <1>3, <1>5, SilentCurrent DEF Step
  <1> QED BY <1>2, <1>6 DEF Advance, Idle

LEMMA SetFlagsAdvances ==
  ASSUME Safety, NEW nonblock \in BOOLEAN, SetFlags(nonblock)
  PROVE  Advance
  <1> DEFINE e == Entered
             r == [e EXCEPT !.nonblock = nonblock]
  <1>0. ~tsk.freed BY DEF SetFlags, InTable
  <1>1. e \in MidType /\ Good(e) /\ e.out = <<>>
    BY <1>0, InTableGood, EnteredGood
  <1> HIDE DEF e
  <1>2. r \in MidType /\ Same(e, r) BY <1>1 DEF Same, Keeps, MidType, Sockets
  <1>3. r.out = <<>> BY <1>1, <1>2 DEF Same
  <1>4. Commit(r) BY DEF SetFlags, e
  <1> HIDE DEF r
  <1>5. Safe(e, r) BY <1>1, <1>2, SameGood DEF Safe
  <1>6. Steps(e, r) BY <1>2, <1>3, SameSteps DEF Same, Steps
  <1> QED BY <1>0, <1>4, <1>5, <1>6, CommitSteps DEF e

LEMMA ConnectAdvances == Safety /\ Connect => Advance
  <1> SUFFICES ASSUME Safety, Connect PROVE Advance
    OBVIOUS
  <1>1. PICK addr \in Sockaddr, iss \in Iss : Commit(connect(Entered, addr, iss))
    BY DEF Connect
  <1>2. ~tsk.freed BY DEF Connect, InTable
  <1>3. /\ Entered \in MidType /\ Good(Entered) /\ Entered.out = <<>>
        /\ Entered.state = tsk.state
    BY <1>2, InTableGood, EnteredGood
  <1>4. connect(Entered, addr, iss) =
          IF addr = "inet" THEN ConnectSwitch(Entered, iss) ELSE inet_free(Entered)
    BY <1>3, ConnectCases
  <1>5. CASE addr = "inet"
    <2>1. /\ Safe(Entered, ConnectSwitch(Entered, iss))
          /\ Steps(Entered, ConnectSwitch(Entered, iss))
      BY <1>3, ConnectSwitchSafe, ConnectSwitchSteps
    <2> QED BY <1>1, <1>2, <1>4, <1>5, <2>1, CommitSteps
  <1>6. CASE addr # "inet"
    <2>1. /\ inet_free(Entered) \in MidType /\ Gone(inet_free(Entered))
          /\ inet_free(Entered).state = tsk.state
      BY <1>3, FreeGone
    <2>2. Commit(inet_free(Entered)) BY <1>1, <1>4, <1>6
    <2> QED BY <2>1, <2>2, CommitIdle
  <1> QED BY <1>5, <1>6

LEMMA ReadAdvances == Safety /\ Read => Advance
  <1> SUFFICES ASSUME Safety, Read PROVE Advance
    OBVIOUS
  <1> DEFINE e == Entered
             f == e.flags \ {"fin"}
             r == [e EXCEPT !.flags = f]
  <1>0. ~tsk.freed BY DEF Read, InTable
  <1>1. e \in MidType /\ Good(e) /\ e.out = <<>>
    BY <1>0, InTableGood, EnteredGood
  <1>2. tcp_read(e) = e \/ tcp_read(e) = r BY DEF tcp_read
  <1>3. Commit(tcp_read(e)) BY DEF Read
  <1> HIDE DEF e
  <1>4. Keeps(e, r) /\ r.out = <<>> BY <1>1 DEF Keeps, MidType, Sockets
  <1> HIDE DEF r
  <1>5. Step(e, r) BY <1>4, SameSteps
  <1>6. Step(e, e) BY <1>1, SilentCurrent DEF Step
  <1>7. Steps(e, tcp_read(e)) BY <1>2, <1>5, <1>6 DEF Steps
  <1>8. Safe(e, tcp_read(e)) BY <1>1, ReadSafe
  <1> QED BY <1>0, <1>3, <1>7, <1>8, CommitSteps DEF e

\* The only handler that runs, on this socket or on what is left of it.
LEMMA RunHandlerAdvances ==
  ASSUME Safety, NEW fn \in TimerFn, RunHandler(fn)
  PROVE  Advance
  <1>1. fn = "send_delack" /\ handlers[fn] > 0 /\ Answered(tsk)
    BY DEF RunHandler, Safety
  <1>2. PICK giveup \in BOOLEAN :
          Commit(IF tsk.freed THEN Corrupt(Entered)
                 ELSE Handle(Entered, fn, giveup))
    BY DEF RunHandler
  <1>3. CASE ~tsk.freed
    <2>1. /\ Entered \in MidType /\ Good(Entered) /\ Entered.out = <<>>
          /\ Entered.state = tsk.state
      BY <1>3, InTableGood, EnteredGood
    <2>2. Answered(Entered) BY <1>1, <2>1 DEF Answered
    <2>3. Handle(Entered, fn, giveup) = tcp_send_delack(Entered)
      BY <1>1 DEF Handle
    <2>4. /\ Safe(Entered, tcp_send_delack(Entered))
          /\ Steps(Entered, tcp_send_delack(Entered))
      BY <2>1, <2>2, SendDelackSafe, SendDelackSteps
    <2> QED BY <1>2, <1>3, <2>3, <2>4, CommitSteps
  <1>4. CASE tsk.freed
    <2>1. Commit(Corrupt(Entered)) BY <1>2, <1>4
    <2> QED BY <1>4, <2>1, EnteredGone, CommitIdle
  <1> QED BY <1>3, <1>4

LEMMA NextAdvances ==
  ASSUME Safety, Next
  PROVE  Advance
  <1>1. ~tsk.freed => /\ Entered \in MidType /\ Good(Entered)
                      /\ Entered.out = <<>> /\ Entered.state = tsk.state
                      /\ Entered.ofo_queue = tsk.ofo_queue
    BY InTableGood, EnteredGood
  <1>2. ASSUME NEW nonblock \in BOOLEAN, SetFlags(nonblock) PROVE Advance
    BY <1>2, SetFlagsAdvances
  <1>3. CASE Connect BY <1>3, ConnectAdvances
  <1>4. CASE Write
    <2>1. PICK len \in Writes : Commit(tcp_write(Entered, len))
      BY <1>4 DEF Write
    <2>2. ~tsk.freed BY <1>4 DEF Write, InTable
    <2>3. tcp_write(Entered, len) = Entered
      BY <1>1, <2>2 DEF tcp_write, Good, Fresh, Connecting
    <2>4. Step(Entered, Entered) BY <1>1, <2>2, SilentCurrent DEF Step
    <2> QED BY <1>1, <2>1, <2>2, <2>3, <2>4, WriteSafe, CommitSteps DEF Steps
  <1>5. CASE Read BY <1>5, ReadAdvances
  <1>6. CASE Close
    <2>1. Commit(tcp_close(Entered)) /\ ~tsk.freed BY <1>6 DEF Close, InTable
    <2> QED BY <1>1, <2>1, CloseSafe, CloseSteps, CommitSteps
  <1>7. CASE Abort
    <2>1. Commit(tcp_abort(Entered)) /\ ~tsk.freed BY <1>7 DEF Abort, InTable
    <2> QED BY <1>1, <2>1, AbortDoomed, CommitSteps DEF Safe, Steps
  <1>8. ASSUME NEW seg \in Segments, Receive(seg) PROVE Advance
    <2>1. PICK intact \in 0 .. Len(tsk.ofo_queue) :
            Commit(tcp_input_state(Entered, seg, intact))
      BY <1>8 DEF Receive
    <2>2. seg \in SegmentType BY SegmentAssumption DEF SegmentAssumption
    <2>3. ~tsk.freed BY <1>8 DEF Receive, InTable
    <2> QED BY <1>1, <2>1, <2>2, <2>3, InputSafe, InputSteps, CommitSteps
  <1>9. CASE TickAdvances BY <1>9, TimerSteps
  <1>10. CASE timers_tick BY <1>10, TimerSteps
  <1>11. ASSUME NEW fn \in TimerFn, RunHandler(fn) PROVE Advance
    BY <1>11, RunHandlerAdvances
  <1> QED BY <1>2, <1>3, <1>4, <1>5, <1>6, <1>7, <1>8, <1>9, <1>10, <1>11
       DEF Next

-----------------------------------------------------------------------------
(* The inductive invariant and the theorems *)

\* With Safety this is inductive, and so are both of its parts.
Orderly == Current(tsk) /\ (tsk.freed \/ Fins(tsk))

LEMMA OrderlyInit == Init => Orderly
  <1> SUFFICES ASSUME Init PROVE Orderly
    OBVIOUS
  <1>1. tsk.state = "CLOSE" /\ tsk.write_queue = <<>> /\ tsk.out = <<>>
    BY DEF Init, FreshSockets
  <1>2. FinsQueued(tsk) = {} BY <1>1 DEF FinsQueued
  <1> QED BY <1>1, <1>2, SilentCurrent DEF Orderly, Fins

LEMMA OrderlyNext == Safety /\ Orderly /\ [Next]_vars => Orderly'
  <1> SUFFICES ASSUME Safety, Orderly, [Next]_vars PROVE Orderly'
    OBVIOUS
  <1>1. CASE Next /\ ~Idle
    <2>1. Step(Entered, tsk') /\ ~tsk.freed
      BY <1>1, NextAdvances DEF Advance
    <2>2. Entered.state = tsk.state /\ Entered.write_queue = tsk.write_queue
      BY DEF Entered, Safety, SocketType, Sockets
    <2>3. FinsQueued(Entered) = FinsQueued(tsk) BY <2>2 DEF FinsQueued
    <2>4. Fins(Entered) BY <2>1, <2>2, <2>3 DEF Orderly, Fins
    <2>5. Current(tsk') /\ Fins(tsk') BY <2>1, <2>4 DEF Step
    <2> QED BY <2>5 DEF Orderly, Current, Fins, FinsQueued
  <1>2. CASE Idle BY <1>2 DEF Idle, Orderly, Current
  <1>3. CASE UNCHANGED vars
    BY <1>3 DEF vars, Orderly, Current, Fins, FinsQueued
  <1> QED BY <1>1, <1>2, <1>3

\* A FIN is queued by the step to FIN_WAIT_1 and by no other that leads there,
\* and every acknowledgement was made with the numbers the step ended with.
THEOREM SocketOrderly == Spec => []Orderly
  BY SocketSafety, OrderlyInit, OrderlyNext, PTL DEF Spec

\* tcp_data_queue, the FIN branch and the delayed acknowledgement count what
\* they acknowledge before tcp_send_ack reads rcv_nxt and snd_nxt.
THEOREM AcknowledgementsCurrent == Spec => []AcksAreCurrent
  <1>1. Orderly => AcksAreCurrent BY DEF Orderly, Current, AcksAreCurrent
  <1> QED BY <1>1, SocketOrderly, PTL

\* tcp_close queues a FIN in ESTABLISHED and refuses in the states after it,
\* and write cannot append to the queue of a socket whose connect failed.
THEOREM OneFinLast == Spec => []ActiveCloseQueuesOneFin
  <1>1. Orderly => ActiveCloseQueuesOneFin
    BY DEF InTable, Orderly, Fins, ActiveCloseQueuesOneFin
  <1> QED BY <1>1, SocketOrderly, PTL

\* Neither calls nor segments, timers or handlers move the state along an edge
\* that RFC 793 does not have.
THEOREM StateFollowsRfc793 == Spec => FollowsRfc793
  <1>1. Safety /\ [Next]_vars =>
          [tsk.state # tsk'.state => <<tsk.state, tsk'.state>> \in LegalMoves]_vars
    <2> SUFFICES ASSUME Safety, Next, tsk.state # tsk'.state
                 PROVE  <<tsk.state, tsk'.state>> \in LegalMoves
      OBVIOUS
    <2>1. Step(Entered, tsk') BY NextAdvances DEF Advance, Idle
    <2>2. Entered.state = tsk.state
      BY DEF Entered, Safety, SocketType, Sockets
    <2> QED BY <2>1, <2>2 DEF Step
  <1> QED BY <1>1, SocketSafety, PTL DEF Spec, FollowsRfc793

\* The SYN leaves in the connect call: its timer is never cancelled, so
\* timers_tick never starts the handler that would send it again.
THEOREM SynSentOnce == Spec => SynNeverRetransmitted
  <1>1. Safety /\ Safety' /\ [Next]_vars =>
          [(\E i \in DOMAIN tsk'.out : "syn" \in tsk'.out[i].flags)
             => tsk.state = "CLOSE" /\ tsk'.state = "SYN_SENT"]_vars
    <2> SUFFICES ASSUME Safety, Safety', Next,
                        NEW i \in DOMAIN tsk'.out, "syn" \in tsk'.out[i].flags
                 PROVE  tsk.state = "CLOSE" /\ tsk'.state = "SYN_SENT"
      OBVIOUS
    <2>4. tsk'.out # <<>> OBVIOUS
    <2>1. Step(Entered, tsk') BY <2>4, NextAdvances DEF Advance, Idle
    <2>2. Entered.state = tsk.state
      BY DEF Entered, Safety, SocketType, Sockets
    <2>3. tsk'.state = "SYN_SENT"
      BY <2>4 DEF Safety, Good, Gone, OnWire, MayBeSent
    <2>5. tsk.state # "SYN_SENT" BY <2>1, <2>2, <2>4 DEF Step
    <2>6. <<tsk.state, tsk'.state>> \in LegalMoves
      BY <2>1, <2>2, <2>3, <2>5 DEF Step
    <2> QED BY <2>3, <2>6 DEF LegalMoves
  <1> QED BY <1>1, SocketSafety, PTL DEF Spec, SynNeverRetransmitted

=============================================================================
