------------------------------- MODULE TcpSock -------------------------------
(***************************************************************************)
(* One TCP socket of the stack: the Socket, the Sock and the Tcp_Sock that *)
(* the calls of src/inet.cpp, the segments given to tcp_in, the timers and *)
(* the timer handlers work on (src/tcp.cpp, tcp_input.cpp, tcp_output.cpp, *)
(* tcp_data.cpp).                                                          *)
(*                                                                         *)
(* Every handler holds sock->lock from its first to its last access of     *)
(* this state, so one handler is one action.  A function of the code that  *)
(* changes the socket is an operator of the same name, from the socket     *)
(* before the call to the socket after it; an action applies the operators *)
(* in the order of the calls and stores the result with Commit.            *)
(*                                                                         *)
(* Undefined behaviour is kept.  The field `live' collects what may become *)
(* of the process during a step: a null pointer that is dereferenced kills *)
(* it, a pointer or a memory block that holds garbage may kill it or not.  *)
(***************************************************************************)
EXTENDS Naturals, SequencesExt

CONSTANTS
  NULL,         \* a null Timer*
  UNINIT,       \* a Timer* that the constructor of Tcp_Sock left uninitialised
  U32,          \* the number of values of a uint32_t
  U8,           \* the number of values of a uint8_t
  Uninit32,     \* values an uninitialised uint32_t may hold
  Uninit8,      \* values an uninitialised uint8_t may hold
  RcvWnd,       \* the window of tcp_select_initial_window (44477)
  HdrLen,       \* the length of a TCP header (20)
  FullSize,     \* data_len above this counts as a full-sized segment (1000)
  ConnRetries,  \* TCP_CONN_RETRIES
  Mss,          \* smss: 536, or what the peer's MSS option says
  Iss,          \* initial sequence numbers that generate_iss may return
  Segments,     \* the segments a peer may send
  Writes,       \* the lengths an application may pass to write
  MaxSkb,       \* bound of the model: buffers in the write queue
  MaxText,      \* bound of the model: received buffers in the two other queues
  MaxTimers     \* bound of the model: timers cancelled but not yet swept

Tcp_State == {"LISTEN", "SYN_SENT", "SYN_RECEIVED", "ESTABLISHED",
              "FIN_WAIT_1", "FIN_WAIT_2", "CLOSE", "CLOSE_WAIT", "CLOSING",
              "LAST_ACK", "TIME_WAIT"}

Socket_State == {"UNCONNECTED", "CONNECTING", "CONNECTED", "DISCONNECTING"}

Errno == {"OK", "GARBAGE", "EINVAL", "EISCONN", "EALREADY", "EINPROGRESS",
          "EBADF", "ECONNREFUSED", "ECONNRESET", "EPIPE", "ETIMEDOUT"}

Flag == {"syn", "ack", "fin", "rst", "psh"}

\* The functions that the code hands to Timer::create.
TimerFn == {"connect_rto", "retransmission_timeout", "send_delack",
            "linger", "user_timeout"}

\* A timer a pointer of the Tcp_Sock refers to; due: expires < tick.
Timers == [fn : TimerFn, due : BOOLEAN]

SeqNum == 0 .. U32 - 1

SegmentType == [flags : SUBSET Flag, seq : SeqNum, ack_seq : SeqNum, len : Nat]

ASSUME WidthAssumption == /\ U32 \in Nat /\ U32 > 2
                          /\ U8 \in Nat /\ U8 > 1
ASSUME UninitAssumption == /\ Uninit32 \subseteq SeqNum
                           /\ Uninit8 \subseteq 0 .. U8 - 1
\* generate_iss draws from 0 .. INT_MAX, the lower half of the numbers.
ASSUME IssAssumption == Iss \subseteq {n \in Nat : 2 * n < U32}
\* A pointer that is null or garbage refers to no timer.
ASSUME PointerAssumption == NULL \notin Timers /\ UNINIT \notin Timers
ASSUME SegmentAssumption == Segments \subseteq SegmentType
ASSUME SizeAssumption == /\ RcvWnd \in SeqNum /\ HdrLen \in Nat \ {0}
                         /\ FullSize \in Nat /\ ConnRetries \in Nat
                         /\ Mss \in Nat \ {0} /\ Writes \subseteq Nat
                         /\ MaxSkb \in Nat /\ MaxText \in Nat /\ MaxTimers \in Nat

VARIABLES
  proc,      \* "up", or "dead" once the process was killed
  tsk,       \* the socket
  handlers   \* detached threads that timers_tick started: how many per function

vars == <<proc, tsk, handlers>>

-----------------------------------------------------------------------------
(* Pointers, buffers and timers *)

\* A call through the pointer p.
Deref(t, p) ==
  [t EXCEPT !.live = IF p = NULL THEN {"dead"}
                     ELSE IF p = UNINIT THEN @ \cup {"dead"} ELSE @]

\* Touching memory that was freed, or an index that was never initialised.
Corrupt(t) == [t EXCEPT !.live = @ \cup {"dead"}]

\* Timer::create with a Trackable timer.
Create(fn) == [fn |-> fn, due |-> FALSE]

\* Timer::cancel: the timer waits, cancelled and with no reference, for the
\* next sweep of timers_tick.
Cancel(t, p) ==
  LET d == Deref(t, p)
  IN  IF p \in Timers THEN [d EXCEPT !.cancelled = Append(@, p)] ELSE d

\* Timer::release: an uncancelled timer with no reference stays in
\* timers_queue for ever and timers_tick never acts on it.
Release(t, p) == Deref(t, p)

\* A segment given to IP, as the code fills it from the control block.  The
\* process may not survive that: ip_output goes through a route pointer that its
\* header has overwritten (Network), and the caller then hands delete[] a data
\* pointer that push has moved.
tcp_transmit_skb(t, flags, seq) ==
  [Corrupt(t) EXCEPT !.out = Append(@, [flags |-> flags, seq |-> seq,
                                        ack_seq |-> t.rcv_nxt])]

tcp_alloc_skb(flags, size) ==
  [flags |-> flags, data_len |-> size, seq |-> 0, end_seq |-> 0]

-----------------------------------------------------------------------------
(* Timers of a connection: tcp.cpp 208-254, 309-329, tcp_output.cpp 398-411 *)

tcp_stop_rto_timer(t) ==
  [Cancel(t, t.retransmit) EXCEPT !.retransmit = NULL, !.backoff = 0]

tcp_release_rto_timer(t) ==
  [Release(t, t.retransmit) EXCEPT !.retransmit = NULL]

tcp_stop_delack_timer(t) == [Cancel(t, t.delack) EXCEPT !.delack = NULL]

tcp_release_delack_timer(t) == [Release(t, t.delack) EXCEPT !.delack = NULL]

\* Mutant of tcp_clear_timers: without the second use of the pointer.
ClearTimersOnce(t) ==
  LET r == tcp_stop_rto_timer(t)
      k == [Cancel(r, r.keepalive) EXCEPT !.keepalive = NULL]
  IN  [Cancel(k, k.linger) EXCEPT !.linger = NULL]

\* Cancels and nulls the retransmission timer, then releases it through the
\* pointer it has just nulled.
tcp_clear_timers(t) ==
  LET r == tcp_release_rto_timer(tcp_stop_rto_timer(t))
      k == [Cancel(r, r.keepalive) EXCEPT !.keepalive = NULL]
  IN  [Cancel(k, k.linger) EXCEPT !.linger = NULL]

tcp_rearm_rto_timer(t) ==
  [tcp_release_rto_timer(t) EXCEPT
     !.retransmit = Create(IF t.state = "SYN_SENT" THEN "connect_rto"
                           ELSE "retransmission_timeout")]

tcp_rearm_user_timeout(t) ==
  IF t.state = "TIME_WAIT" THEN t
  ELSE [Cancel(t, t.linger) EXCEPT !.linger = Create("user_timeout")]

tcp_enter_time_wait(t) ==
  [tcp_clear_timers([t EXCEPT !.state = "TIME_WAIT"]) EXCEPT
     !.linger = Create("linger")]

\* Walks the out-of-order queue, whose buffers may have been freed.
tcp_clear_queues(t) ==
  [(IF \E i \in DOMAIN t.ofo_queue : t.ofo_queue[i].freed
    THEN Corrupt(t) ELSE t) EXCEPT !.ofo_queue = <<>>]

\* The garbage collection timer of socket_delete is never cancelled, and
\* timers_tick runs cancelled timers only: nothing of it is left to model.
tcp_done(t) ==
  [tcp_clear_queues(tcp_clear_timers([t EXCEPT !.state = "CLOSING"]))
     EXCEPT !.sstate = "DISCONNECTING"]

-----------------------------------------------------------------------------
(* Output: tcp_output.cpp *)

tcp_send_ack(t) ==
  IF t.state = "CLOSE" THEN t ELSE tcp_transmit_skb(t, {"ack"}, t.snd_nxt)

tcp_send_reset(t) ==
  tcp_transmit_skb([t EXCEPT !.snd_una = t.snd_nxt], {"rst"}, t.snd_nxt)

\* Mutant of tcp_send_synsack: answers in the state it is called in.
SynsackWhenReceived(t) ==
  IF t.state # "SYN_RECEIVED" THEN t
  ELSE tcp_transmit_skb(t, {"syn", "ack"}, t.snd_nxt)

\* The caller is in SYN_RECEIVED by now, so this sends nothing.
tcp_send_synsack(t) ==
  IF t.state # "SYN_SENT" THEN t
  ELSE tcp_transmit_skb(t, {"syn", "ack"}, t.snd_nxt)

\* Gives skb its sequence numbers and moves snd_nxt past it.
Sequenced(t, skb) ==
  LET end == (t.snd_nxt + skb.data_len) % U32
  IN  [skb |-> [skb EXCEPT !.seq = t.snd_nxt, !.end_seq = end],
       snd_nxt |-> IF "fin" \in skb.flags THEN (end + 1) % U32 ELSE end]

\* Mutant of tcp_queue_transmit_skb: the guard on inflight is lost.
TransmitWithoutInflightGuard(t, skb) ==
  LET r == IF t.write_queue = <<>> THEN tcp_rearm_rto_timer(t) ELSE t
      s == Sequenced(r, skb)
  IN  [tcp_transmit_skb(r, skb.flags, r.snd_nxt) EXCEPT
         !.inflight = (@ + 1) % U32, !.snd_nxt = s.snd_nxt,
         !.write_queue = Append(@, s.skb)]

\* Only a buffer that finds nothing in flight is transmitted and numbered.
tcp_queue_transmit_skb(t, skb) ==
  LET r == IF t.write_queue = <<>> THEN tcp_rearm_rto_timer(t) ELSE t
      s == Sequenced(r, skb)
  IN  IF r.inflight = 0
      THEN [tcp_transmit_skb(r, skb.flags, r.snd_nxt) EXCEPT
              !.inflight = (@ + 1) % U32, !.snd_nxt = s.snd_nxt,
              !.write_queue = Append(@, s.skb)]
      ELSE [r EXCEPT !.write_queue = Append(@, skb)]

\* `++i < amount' ends the walk over the queue at once unless amount is 1,
\* when every buffer is sent.
tcp_send_next(t, amount) ==
  LET Resend(u, i) ==
        LET s == Sequenced(u, u.write_queue[i])
        IN  [tcp_transmit_skb(u, s.skb.flags, u.snd_nxt) EXCEPT
               !.write_queue[i] = s.skb, !.snd_nxt = s.snd_nxt]
  IN  IF amount > 1 THEN t
      ELSE FoldLeft(Resend, t, [i \in 1 .. Len(t.write_queue) |-> i])

tcp_send_syn(t) ==
  IF t.state \notin {"SYN_SENT", "CLOSE", "LISTEN"} THEN t
  ELSE tcp_queue_transmit_skb([t EXCEPT !.state = "SYN_SENT"],
                              tcp_alloc_skb({"syn"}, 0))

tcp_queue_fin(t) ==
  tcp_queue_transmit_skb(t, tcp_alloc_skb({"fin", "ack"}, 0))

tcp_connect(t, iss) ==
  LET s == tcp_send_syn([t EXCEPT !.iss = iss, !.snd_una = iss,
                                  !.snd_nxt = iss, !.rcv_wnd = RcvWnd])
  IN  [s EXCEPT !.snd_nxt = (@ + 1) % U32]

\* All but the last piece are Mss long; the last one takes the whole length of
\* the write again (`slen > mss ? mss : len'), and carries PSH only if it is
\* also the first.
tcp_send(t, len) ==
  LET full == (len - 1) \div Mss
      Piece(i) == IF i <= full THEN tcp_alloc_skb({"ack"}, Mss)
                  ELSE tcp_alloc_skb(IF full = 0 THEN {"ack", "psh"}
                                     ELSE {"ack"}, len)
      pieces == IF len = 0 THEN <<>> ELSE [i \in 1 .. full + 1 |-> Piece(i)]
  IN  tcp_rearm_user_timeout(FoldLeft(tcp_queue_transmit_skb, t, pieces))

-----------------------------------------------------------------------------
(* Received text: tcp_data.cpp *)

\* The leading entries of the out-of-order queue that a walk still finds as
\* they were queued; the ones behind them were freed and hold garbage, which
\* compares equal to nothing.
Readable(t, intact) == SubSeq(t.ofo_queue, 1, intact)

\* A walk over the out-of-order queue reads memory that was freed.
Walk(t) == IF \E i \in DOMAIN t.ofo_queue : t.ofo_queue[i].freed
           THEN Corrupt(t) ELSE t

\* The buffer as the handler leaves it: its free_skb deletes a buffer whose
\* count is at most 1, queued or not.
Queued(skb, refcnt) ==
  [seq |-> skb.seq, data_len |-> skb.data_len, freed |-> refcnt <= 1]

\* A buffer that belongs before another one is linked there and then, always,
\* at the tail: the walk forward ends with it, and what was behind it is lost.
tcp_data_insert_ordered(t, skb, intact) ==
  LET q         == Readable(t, intact)
      precedes(i) == skb.seq < q[i].seq /\ skb.end_seq <= q[i].seq
      passed    == {n \in DOMAIN q : \A i \in 1 .. n :
                                       skb.seq # q[i].seq /\ ~precedes(i)}
      n         == Cardinality(passed)
  IN  [Walk(t) EXCEPT !.ofo_queue =
         IF n < Len(q) /\ skb.seq # q[n + 1].seq
         THEN SubSeq(@, 1, n) \o <<Queued(skb, 2)>>
         ELSE Append(@, Queued(skb, 1))]

\* Buffers that follow rcv_nxt without a gap move from the head of the
\* out-of-order queue to its tail.
tcp_consume_ofo_queue(t, intact) ==
  LET q       == Readable(t, intact)
      end(i)  == (q[i].seq + q[i].data_len) % U32
      runs    == {n \in DOMAIN q : /\ q[1].seq = t.rcv_nxt
                                   /\ \A i \in 2 .. n : q[i].seq = end(i - 1)}
      n       == Cardinality(runs)
  IN  IF runs = {} THEN Walk(t)
      ELSE [Walk(t) EXCEPT !.rcv_nxt = end(n),
                           !.ofo_queue = SubSeq(@, n + 1, Len(@))
                                         \o SubSeq(@, 1, n)]

tcp_data_queue(t, skb, intact) ==
  IF t.rcv_wnd = 0 THEN t
  ELSE IF skb.seq = t.rcv_nxt
  THEN LET dirty == \E i \in DOMAIN t.receive_queue : t.receive_queue[i].freed
           r == IF dirty THEN Corrupt(t) ELSE t
       IN  tcp_consume_ofo_queue(
             [r EXCEPT !.rcv_nxt = (@ + skb.data_len) % U32,
                       !.receive_queue = Append(@, Queued(skb, 1)),
                       !.poll_events = @ \cup {"IN"}], intact)
  ELSE \* tcp_calculate_sacks indexes sacks[] with an uninitialised sacklen
       tcp_send_ack(Corrupt(tcp_data_insert_ordered(t, skb, intact)))

-----------------------------------------------------------------------------
(* Input: tcp_input.cpp *)

\* tcp_init_segment: data_len is the payload plus twice the header.
tcp_init_segment(seg) ==
  LET data_len == seg.len + 2 * HdrLen
  IN  [seq |-> seg.seq, data_len |-> data_len,
       end_seq |-> (seg.seq + data_len) % U32]

\* Acknowledged buffers leave the head of the write queue.
tcp_clean_rto_queue(t, una) ==
  LET acked(i) == t.write_queue[i].seq > 0 /\ t.write_queue[i].end_seq <= una
      kept == {i \in DOMAIN t.write_queue : ~acked(i)}
      n    == IF kept = {} THEN Len(t.write_queue)
              ELSE (CHOOSE i \in kept : \A j \in kept : i <= j) - 1
      r    == [t EXCEPT !.write_queue = SubSeq(@, n + 1, Len(@)),
                        !.inflight = (@ + n * (U32 - 1)) % U32]
  IN  IF r.write_queue = <<>> \/ r.inflight = 0
      THEN tcp_stop_rto_timer(r) ELSE r

\* Compared as plain unsigned numbers, though seq and rcv_nxt wrap around.
tcp_verify_segment(t, seg) ==
  /\ t.rcv_wnd # 0
  /\ t.rcv_nxt <= seg.seq
  /\ seg.seq <= (t.rcv_nxt + t.rcv_wnd) % U32

\* The state of a socket is never CLOSE here: tcp_reset is called in SYN_SENT.
tcp_reset(t) ==
  LET p == [t EXCEPT !.poll_events = {"OUT", "ERR", "HUP"}]
  IN  IF t.state = "CLOSE" THEN p
      ELSE tcp_done([p EXCEPT !.err =
             CASE t.state = "SYN_SENT"   -> "ECONNREFUSED"
               [] t.state = "CLOSE_WAIT" -> "EPIPE"
               [] OTHER                  -> "ECONNRESET"])

sock_connected(t) ==
  [t EXCEPT !.sstate = "CONNECTED", !.err = "OK", !.poll_events = {"OUT"}]

\* Mutant of Synchronised: rcv_nxt does not wrap around.
SynchronisedWide(t, seg) == [t EXCEPT !.rcv_nxt = seg.seq + 1]

Synchronised(t, seg) == [t EXCEPT !.rcv_nxt = (seg.seq + 1) % U32]

tcp_synsent(t, seg) ==
  IF "ack" \in seg.flags THEN t
  ELSE IF "rst" \in seg.flags THEN tcp_reset(t)
  ELSE IF "syn" \notin seg.flags THEN t
  ELSE LET r == Synchronised(t, seg)
       IN  IF r.snd_una > r.iss
           THEN sock_connected(tcp_rearm_user_timeout(tcp_send_ack(
                  [r EXCEPT !.state = "ESTABLISHED", !.backoff = 0,
                            !.snd_una = r.snd_nxt])))
           ELSE tcp_send_synsack([r EXCEPT !.state = "SYN_RECEIVED",
                                           !.snd_una = r.iss])

tcp_closed(t, seg) == IF "rst" \in seg.flags THEN t ELSE tcp_send_reset(t)

\* The states whose acknowledgements are checked.
AckStates == {"SYN_RECEIVED", "ESTABLISHED", "FIN_WAIT_1", "CLOSE_WAIT",
              "CLOSING", "LAST_ACK"}

\* Mutant of AckAcceptable: accepts the acknowledgement of the SYN.
AckAcceptableInclusive(t, seg) ==
  t.snd_una <= seg.ack_seq /\ seg.ack_seq <= t.snd_nxt

\* The number acknowledges something, but never everything, that was sent.  In
\* SYN_RECEIVED this alone decides; the other states ask in addition that it
\* differs from snd_una (Acknowledge).
AckAcceptable(t, seg) ==
  t.snd_una <= seg.ack_seq /\ seg.ack_seq < t.snd_nxt

\* The acknowledgement number makes the code drop the segment.
AckDropped(t, seg) ==
  /\ t.state \in AckStates
  /\ IF t.state = "SYN_RECEIVED" THEN ~AckAcceptable(t, seg)
     ELSE seg.ack_seq < t.snd_una \/ seg.ack_seq > t.snd_nxt

\* Mutant of Establish: the connect of the application completes here.
EstablishAndConnect(t) ==
  IF t.state = "SYN_RECEIVED"
  THEN sock_connected([t EXCEPT !.state = "ESTABLISHED"]) ELSE t

Establish(t) ==
  IF t.state = "SYN_RECEIVED" THEN [t EXCEPT !.state = "ESTABLISHED"] ELSE t

Acknowledge(t, seg) ==
  IF /\ t.state \in AckStates
     /\ AckAcceptable(t, seg) /\ seg.ack_seq # t.snd_una
  THEN tcp_clean_rto_queue([t EXCEPT !.snd_una = seg.ack_seq], seg.ack_seq)
  ELSE t

\* The switch on an empty write queue, but for the return of LAST_ACK.
AllAcknowledged(t, seg) ==
  IF t.write_queue # <<>> THEN t
  ELSE CASE t.state = "FIN_WAIT_1" -> [t EXCEPT !.state = "FIN_WAIT_2"]
         [] t.state = "CLOSING"    -> [t EXCEPT !.state = "TIME_WAIT"]
         [] t.state = "TIME_WAIT" /\ t.rcv_nxt = seg.seq ->
              tcp_send_ack([t EXCEPT !.flags = @ \cup {"fin"}])
         [] OTHER -> t

Receiving == {"ESTABLISHED", "FIN_WAIT_1", "FIN_WAIT_2"}

\* Mutant of InSequenceFin: acknowledges before it counts the FIN.
FinAcknowledgedEarly(t) ==
  [tcp_send_ack(t) EXCEPT !.rcv_nxt = (@ + 1) % U32, !.flags = @ \cup {"fin"},
                          !.poll_events = @ \cup {"IN"}]

InSequenceFin(t) ==
  tcp_send_ack([t EXCEPT !.rcv_nxt = (@ + 1) % U32, !.flags = @ \cup {"fin"},
                         !.poll_events = @ \cup {"IN"}])

\* Mutant of AfterFin: a simultaneous close is taken for a passive one.
AfterFinPassive(t) ==
  IF t.state \in {"ESTABLISHED", "SYN_RECEIVED", "FIN_WAIT_1"}
  THEN [t EXCEPT !.state = "CLOSE_WAIT"] ELSE t

\* The state after a FIN in sequence.
AfterFin(t) ==
  CASE t.state \in {"ESTABLISHED", "SYN_RECEIVED"} ->
         [t EXCEPT !.state = "CLOSE_WAIT"]
    [] t.state = "FIN_WAIT_1" /\ t.write_queue # <<>> ->
         [t EXCEPT !.state = "CLOSING"]
    [] \/ t.state = "FIN_WAIT_1" /\ t.write_queue = <<>>
       \/ t.state = "FIN_WAIT_2" -> tcp_enter_time_wait(t)
    [] OTHER -> t

\* A segment in sequence: acknowledge it now, with the next text, or within
\* 200 ms.
DelayedAck(t, seg, skb) ==
  LET s       == tcp_stop_delack_timer(t)
      pending == IF Len(s.write_queue) < 3 THEN Len(s.write_queue) ELSE 3
      full    == skb.data_len > FullSize
      delacks == (s.delacks + 1) % U8
      counted == IF "psh" \notin seg.flags /\ full
                 THEN [s EXCEPT !.delacks = delacks] ELSE s
  IN  IF s.inflight = 0 /\ pending > 0
      THEN tcp_rearm_rto_timer([tcp_send_next(s, pending) EXCEPT
                                  !.inflight = (@ + pending) % U32])
      ELSE IF "psh" \in seg.flags \/ (full /\ delacks > 1)
      THEN tcp_send_ack([counted EXCEPT !.delack = NULL])
      ELSE IF skb.data_len > 0
      THEN [counted EXCEPT !.delack = Create("send_delack")]
      ELSE counted

\* Text, FIN and acknowledgement of a segment that passed all the checks.
ProcessSegment(t, seg, intact) ==
  LET skb      == tcp_init_segment(seg)
      expected == skb.seq = t.rcv_nxt
      text     == "psh" \in seg.flags \/ skb.data_len > 0
      r        == IF t.state \in Receiving /\ text
                  THEN tcp_data_queue(t, skb, intact) ELSE t
      f        == IF "fin" \in seg.flags /\ expected
                  THEN AfterFin(InSequenceFin(r)) ELSE r
  IN  IF f.state \in Receiving /\ expected THEN DelayedAck(f, seg, skb) ELSE f

tcp_input_state(t, seg, intact) ==
  IF t.state = "CLOSE" THEN tcp_closed(t, seg)
  ELSE IF t.state = "LISTEN" THEN t
  ELSE IF t.state = "SYN_SENT" THEN tcp_synsent(t, seg)
  ELSE IF ~tcp_verify_segment(t, seg)
  THEN IF "rst" \in seg.flags THEN t ELSE tcp_send_ack(t)
  ELSE IF "rst" \in seg.flags THEN tcp_enter_time_wait(t)
  ELSE IF "syn" \in seg.flags \/ "ack" \notin seg.flags THEN t
  ELSE IF AckDropped(t, seg) THEN t
  ELSE LET a == Acknowledge(Establish(t), seg)
       IN  IF a.write_queue = <<>> /\ a.state = "LAST_ACK" THEN tcp_done(a)
           ELSE ProcessSegment(AllAcknowledged(a, seg), seg, intact)

-----------------------------------------------------------------------------
(* Timer handlers: tcp.cpp 273-307, tcp_output.cpp 167-183, 311-396 *)

tcp_send_delack(t) ==
  tcp_send_ack(tcp_release_delack_timer([t EXCEPT !.delacks = 0]))

tcp_linger(t) == tcp_done([Cancel(t, t.linger) EXCEPT !.linger = NULL])

tcp_abort(t) == tcp_done(tcp_send_reset(t))

tcp_user_timeout(t) == tcp_abort([Cancel(t, t.linger) EXCEPT !.linger = NULL])

\* Sends the first buffer of the write queue again.
Retransmit(t) == tcp_transmit_skb(t, Head(t.write_queue).flags, t.snd_una)

tcp_connect_rto(t) ==
  LET r == tcp_release_rto_timer(t)
  IN  IF r.state # "SYN_SENT" THEN r
      ELSE IF r.backoff > ConnRetries
      THEN tcp_done([r EXCEPT !.err = "ETIMEDOUT",
                              !.poll_events = @ \cup {"OUT", "ERR", "HUP"}])
      ELSE IF r.write_queue = <<>> THEN r
      ELSE tcp_rearm_rto_timer([Retransmit(r) EXCEPT !.backoff = (@ + 1) % U8])

tcp_handle_fin_state(t) ==
  [t EXCEPT !.state = CASE @ = "CLOSE_WAIT"  -> "LAST_ACK"
                        [] @ = "ESTABLISHED" -> "FIN_WAIT_1"
                        [] OTHER             -> @]

\* giveup: rto, which doubles every time, has passed 60 seconds.
tcp_retransmission_timeout(t, giveup) ==
  LET r == tcp_release_rto_timer(t)
  IN  IF r.write_queue = <<>> THEN [r EXCEPT !.backoff = 0]
      ELSE IF giveup
      THEN [tcp_done(Retransmit(r)) EXCEPT !.err = "ETIMEDOUT",
                                           !.poll_events = {"OUT", "ERR", "HUP"}]
      ELSE LET s == [Retransmit(r) EXCEPT
                       !.backoff = (@ + 1) % U8,
                       !.retransmit = Create("retransmission_timeout")]
           IN  IF "fin" \in Head(s.write_queue).flags
               THEN tcp_handle_fin_state(s) ELSE s

Handle(t, fn, giveup) ==
  CASE fn = "connect_rto"            -> tcp_connect_rto(t)
    [] fn = "retransmission_timeout" -> tcp_retransmission_timeout(t, giveup)
    [] fn = "send_delack"            -> tcp_send_delack(t)
    [] fn = "linger"                 -> tcp_linger(t)
    [] fn = "user_timeout"           -> tcp_user_timeout(t)

-----------------------------------------------------------------------------
(* Calls of the application: inet.cpp, tcp.cpp 80-182 *)

\* The switch on sock->state.  A blocking connect takes sock->lock again in the
\* thread that holds it: the shared_mutex throws system_error, which nothing
\* catches.
ConnectSwitch(t, iss) ==
  CASE t.sstate = "CONNECTED"     -> [t EXCEPT !.err = "EISCONN"]
    [] t.sstate = "CONNECTING"    -> [t EXCEPT !.err = "EALREADY"]
    [] t.sstate = "DISCONNECTING" -> [t EXCEPT !.err = "EINVAL"]
    [] t.sstate = "UNCONNECTED" /\ t.state # "CLOSE" ->
         [t EXCEPT !.err = "EISCONN"]
    [] t.sstate = "UNCONNECTED" /\ t.state = "CLOSE" ->
         LET c == [tcp_connect(t, iss) EXCEPT !.sstate = "CONNECTING",
                                              !.err = "EINPROGRESS"]
         IN  IF c.nonblock THEN c ELSE [c EXCEPT !.live = {"dead"}]

\* What a sockaddr may be: too short for its family, of family AF_UNSPEC (its
\* disconnect is empty), or anything else, whose family nobody looks at.
Sockaddr == {"short", "unspec", "inet"}

\* The socket and what is returned: a bad address is not stored in err.
inet_stream_connect(t, addr, iss) ==
  IF addr = "short" THEN [sock |-> t, rc |-> "EINVAL"]
  ELSE IF addr = "unspec" THEN [sock |-> t, rc |-> "EAFNOSUPPORT"]
  ELSE LET c == ConnectSwitch(t, iss) IN [sock |-> c, rc |-> c.err]

\* Deletes the buffers of two queues and the Sock under the Tcp_Sock; timers and
\* out-of-order queue stay.  A buffer that is still in a queue was moved by push
\* or deleted before.
inet_free(t) ==
  [(IF t.write_queue = <<>> /\ t.receive_queue = <<>> THEN t ELSE Corrupt(t))
     EXCEPT !.write_queue = <<>>, !.receive_queue = <<>>, !.freed = TRUE]

\* The codes after which connect frees the socket, in whatever state it is.
Refusals == {"EINVAL", "EAFNOSUPPORT", "ECONNREFUSED", "ETIMEDOUT"}

connect(t, addr, iss) ==
  LET c == inet_stream_connect(t, addr, iss)
  IN  IF c.rc \in Refusals THEN inet_free(c.sock) ELSE c.sock

tcp_write(t, len) ==
  IF t.err = "OK" /\ t.state \in {"ESTABLISHED", "CLOSE_WAIT"}
  THEN tcp_send(t, len) ELSE t

\* No text is ever delivered; what is left is the end-of-file flag.
tcp_read(t) ==
  IF t.state = "CLOSE_WAIT" /\ t.receive_queue # <<>>
  THEN [t EXCEPT !.flags = @ \ {"fin"}] ELSE t

\* Mutant of tcp_close: a second close queues a second FIN.
CloseAgainQueuesFin(t) ==
  CASE t.state \in {"ESTABLISHED", "FIN_WAIT_1"} ->
         tcp_queue_fin([t EXCEPT !.state = "FIN_WAIT_1"])
    [] OTHER -> t

tcp_close(t) ==
  CASE t.state = "ESTABLISHED" ->
         tcp_queue_fin([t EXCEPT !.state = "FIN_WAIT_1"])
    [] t.state = "CLOSE_WAIT" -> tcp_queue_fin(t)
    [] t.state \in {"LISTEN", "SYN_SENT", "SYN_RECEIVED"} -> tcp_done(t)
    [] OTHER -> [t EXCEPT !.err = "EBADF"]

-----------------------------------------------------------------------------
(* The next-state relation *)

\* A socket as socket() leaves it.  The constructor of Tcp_Sock sets none of
\* inflight, delacks, err, the control block and the four timer pointers; of
\* those, the fields below that start at 0 are never read before they are
\* written.
FreshSockets ==
  {[state |-> "CLOSE", sstate |-> "UNCONNECTED", nonblock |-> FALSE,
    err |-> e, poll_events |-> {}, iss |-> 0, snd_una |-> 0, snd_nxt |-> n,
    rcv_nxt |-> 0, rcv_wnd |-> 0, inflight |-> i, backoff |-> 0,
    delacks |-> d, flags |-> {}, write_queue |-> <<>>,
    receive_queue |-> <<>>, ofo_queue |-> <<>>, retransmit |-> UNINIT,
    delack |-> UNINIT, keepalive |-> UNINIT, linger |-> UNINIT,
    cancelled |-> <<>>, out |-> <<>>, freed |-> FALSE, live |-> {"up"}] :
     e \in {"OK", "GARBAGE"}, n \in Uninit32, i \in Uninit32, d \in Uninit8}

Init == /\ proc = "up"
        /\ tsk \in FreshSockets
        /\ handlers = [fn \in TimerFn |-> 0]

\* The socket a handler finds; `out' collects the segments of one step.
Entered == [tsk EXCEPT !.out = <<>>]

\* The handler is over; t is the socket it leaves.  What a step sent before it
\* killed the process is not kept.
Commit(t) ==
  \/ "up" \in t.live /\ proc' = "up" /\ tsk' = [t EXCEPT !.live = {"up"}]
  \/ "dead" \in t.live /\ proc' = "dead" /\ tsk' = Entered

\* The socket stays within the bounds of the model.
Bounded(t) == /\ Len(t.write_queue) <= MaxSkb
              /\ Len(t.receive_queue) + Len(t.ofo_queue) <= MaxText
              /\ Len(t.cancelled) <= MaxTimers

\* Calls and segments reach a socket through the table, which a freed one has
\* left (SocketTable has the calls that had found it before).
InTable == proc = "up" /\ ~tsk.freed

SetFlags(nonblock) ==
  /\ InTable
  /\ Commit([Entered EXCEPT !.nonblock = nonblock])
  /\ UNCHANGED handlers

Connect ==
  /\ InTable
  /\ \E addr \in Sockaddr, iss \in Iss : Commit(connect(Entered, addr, iss))
  /\ UNCHANGED handlers

Write ==
  /\ InTable
  /\ \E len \in Writes : LET t == tcp_write(Entered, len)
                         IN  Bounded(t) /\ Commit(t)
  /\ UNCHANGED handlers

Read ==
  /\ InTable
  /\ Commit(tcp_read(Entered))
  /\ UNCHANGED handlers

Close ==
  /\ InTable
  /\ LET t == tcp_close(Entered) IN Bounded(t) /\ Commit(t)
  /\ UNCHANGED handlers

Abort ==
  /\ InTable
  /\ Commit(tcp_abort(Entered))
  /\ UNCHANGED handlers

\* tcp_in with a segment that inet_lookup finds this socket for.
Receive(seg) ==
  /\ InTable
  /\ \E intact \in 0 .. Len(tsk.ofo_queue) :
       LET t == tcp_input_state(Entered, seg, intact)
       IN  Bounded(t) /\ Commit(t)
  /\ UNCHANGED handlers

\* The thread of timers_start adds 10 to tick: some timers are due by now.
Expired(p) == IF p \in Timers THEN [p EXCEPT !.due = TRUE] ELSE p

ClockAdvances(r, d, l, c) ==
  /\ proc = "up"
  /\ tsk' = [tsk EXCEPT
       !.retransmit = IF r THEN Expired(@) ELSE @,
       !.delack     = IF d THEN Expired(@) ELSE @,
       !.linger     = IF l THEN Expired(@) ELSE @,
       !.cancelled  = [i \in DOMAIN @ |-> IF i \in c THEN Expired(@[i])
                                          ELSE @[i]],
       !.out        = <<>>]
  /\ UNCHANGED <<proc, handlers>>

TickAdvances ==
  \E r, d, l \in BOOLEAN, c \in SUBSET DOMAIN tsk.cancelled :
    ClockAdvances(r, d, l, c)

\* Mutant of TimerFires: the sign of `cancelled' is the usual one.
TimerFiresUncancelled(timer, cancelled) == timer.due /\ ~cancelled

\* timers_tick starts the handler of a timer that is due and cancelled.
TimerFires(timer, cancelled) == timer.due /\ cancelled

\* timers_tick: one sweep of timers_queue.
timers_tick ==
  LET armed == {p \in {tsk.retransmit, tsk.delack, tsk.linger} : p \in Timers}
      fired(fn) ==
        Cardinality({i \in DOMAIN tsk.cancelled :
                       /\ tsk.cancelled[i].fn = fn
                       /\ TimerFires(tsk.cancelled[i], TRUE)})
        + Cardinality({p \in armed : p.fn = fn /\ TimerFires(p, FALSE)})
  IN  /\ proc = "up"
      /\ \A fn \in TimerFn : handlers[fn] + fired(fn) <= MaxTimers
      /\ handlers' = [fn \in TimerFn |-> handlers[fn] + fired(fn)]
      /\ tsk' = [tsk EXCEPT !.cancelled = <<>>, !.out = <<>>]
      /\ UNCHANGED proc

\* A detached handler thread gets sock->lock and runs; nothing stops it when the
\* Sock it was given is freed, and what it finds there is not this socket.
RunHandler(fn) ==
  /\ proc = "up" /\ handlers[fn] > 0
  /\ \E giveup \in BOOLEAN :
       Commit(IF tsk.freed THEN Corrupt(Entered) ELSE Handle(Entered, fn, giveup))
  /\ handlers' = [handlers EXCEPT ![fn] = @ - 1]

Next == \/ \E nonblock \in BOOLEAN : SetFlags(nonblock)
        \/ Connect
        \/ Write
        \/ Read
        \/ Close
        \/ Abort
        \/ \E seg \in Segments : Receive(seg)
        \/ TickAdvances
        \/ timers_tick
        \/ \E fn \in TimerFn : RunHandler(fn)

Spec == Init /\ [][Next]_vars

\* The thread of timers_start never ends, so time passes every timer and the
\* sweeps go on; a detached handler thread is scheduled in the end.
Fairness == /\ WF_vars(ClockAdvances(TRUE, TRUE, TRUE, DOMAIN tsk.cancelled))
            /\ WF_vars(timers_tick)
            /\ \A fn \in TimerFn : WF_vars(RunHandler(fn))

FairSpec == Spec /\ Fairness

-----------------------------------------------------------------------------
(* Properties *)

TimerPointers == {NULL, UNINIT} \cup Timers

Skb == [flags : SUBSET Flag, data_len : Nat, seq : SeqNum, end_seq : SeqNum]

Received == [seq : SeqNum, data_len : Nat, freed : BOOLEAN]

Sent == [flags : SUBSET Flag, seq : SeqNum, ack_seq : SeqNum]

WriteQueue == Seq(Skb)
ReadQueue == Seq(Received)
Wire == Seq(Sent)
TimerSeq == Seq(Timers)
Byte == 0 .. U8 - 1
Poll == SUBSET {"IN", "OUT", "ERR", "HUP"}
TcpFlags == SUBSET {"fin"}

\* Sockets between the calls (lives is {{"up"}}) and in the middle of one.
Sockets(lives) ==
  [state : Tcp_State, sstate : Socket_State, nonblock : BOOLEAN, err : Errno,
   poll_events : Poll, iss : SeqNum, snd_una : SeqNum, snd_nxt : SeqNum,
   rcv_nxt : SeqNum, rcv_wnd : SeqNum, inflight : SeqNum, backoff : Byte,
   delacks : Byte, flags : TcpFlags, write_queue : WriteQueue,
   receive_queue : ReadQueue, ofo_queue : ReadQueue,
   retransmit : TimerPointers, delack : TimerPointers,
   keepalive : TimerPointers, linger : TimerPointers,
   cancelled : TimerSeq, out : Wire, freed : BOOLEAN, live : lives]

SocketType == Sockets({{"up"}})

\* Every field keeps its type, whatever the peer sends.
TypeOK == /\ proc \in {"up", "dead"}
          /\ tsk \in SocketType
          /\ handlers \in [TimerFn -> Nat]

\* The SYN of an active open is never taken off the write queue: the tests of
\* tcp_input_state (`ack_seq < snd_nxt') refuse the one number that would
\* acknowledge it, so snd_una and snd_nxt stay where tcp_connect put them and
\* inflight stays above zero for the life of the connection.
SynPinned ==
  InTable /\ tsk.state # "CLOSE" =>
    /\ tsk.write_queue # <<>> /\ "syn" \in Head(tsk.write_queue).flags
    /\ tsk.snd_una = tsk.iss /\ tsk.snd_nxt = tsk.iss + 1
    /\ tsk.inflight # 0

\* What reaches the wire: a RST while the socket is closed, the SYN in
\* SYN_SENT, and then nothing but pure acknowledgements.  Text and FIN stay
\* behind the SYN in the write queue, whatever the state says.
OnlySynAndAckOnWire ==
  \A i \in DOMAIN tsk.out :
    \/ tsk.out[i].flags = {"rst"} /\ tsk.state = "CLOSE"
    \/ tsk.out[i].flags = {"syn"} /\ tsk.state = "SYN_SENT"
    \/ tsk.out[i].flags = {"ack"} /\ tsk.state \notin {"CLOSE", "SYN_SENT"}

\* The SYN is handed to IP by the connect call or not at all: its
\* retransmission timer is never cancelled, and only cancelled timers fire.
SynNeverRetransmitted ==
  [][(\E i \in DOMAIN tsk'.out : "syn" \in tsk'.out[i].flags)
       => tsk.state = "CLOSE" /\ tsk'.state = "SYN_SENT"]_vars

\* Of the five timer functions only tcp_send_delack is ever started.
OnlyDelackHandlerRuns ==
  \A fn \in TimerFn \ {"send_delack"} : handlers[fn] = 0

\* A process that is still up has never torn a connection down.  tcp_done and
\* tcp_enter_time_wait call release through the pointer tcp_clear_timers has
\* just nulled.  The other ways to these states ask for something that never
\* happens: FIN_WAIT_2 and TIME_WAIT of tcp_input_state for an empty write queue,
\* LAST_ACK of tcp_handle_fin_state for a retransmission timer that fires.  A
\* socket whose connect is refused does end with the process up, but as it is:
\* inet_free changes no state.
NeverTornDown ==
  proc = "up" => /\ tsk.state \notin {"FIN_WAIT_2", "LAST_ACK", "TIME_WAIT"}
                 /\ tsk.sstate # "DISCONNECTING"

\* An acknowledgement that leaves in a step carries rcv_nxt and snd_nxt as the
\* step leaves them: FIN and text are counted before they are acknowledged.
AcksAreCurrent ==
  \A i \in DOMAIN tsk.out :
    "ack" \in tsk.out[i].flags => /\ tsk.out[i].ack_seq = tsk.rcv_nxt
                                  /\ tsk.out[i].seq = tsk.snd_nxt

\* A connect never completes: the socket stays CONNECTING, SO_ERROR stays an
\* error (so write is always refused) and POLLOUT is never raised.
ConnectNeverCompletes ==
  InTable /\ tsk.state # "CLOSE" => /\ tsk.sstate = "CONNECTING"
                                    /\ tsk.err \notin {"OK", "GARBAGE"}
                                    /\ "OUT" \notin tsk.poll_events

FinsQueued(t) ==
  {i \in DOMAIN t.write_queue : "fin" \in t.write_queue[i].flags}

\* However often close is called, an active close has queued one FIN, and it
\* is the last thing that will ever be sent.
ActiveCloseQueuesOneFin ==
  InTable /\ tsk.state \in {"FIN_WAIT_1", "CLOSING"}
    => FinsQueued(tsk) = {Len(tsk.write_queue)}

\* Between states the socket moves along the edges of RFC 793 (a segment that
\* both acknowledges the SYN and carries a FIN takes two of them at once).
LegalMoves ==
  {<<"CLOSE", "SYN_SENT">>, <<"SYN_SENT", "SYN_RECEIVED">>,
   <<"SYN_RECEIVED", "ESTABLISHED">>, <<"SYN_RECEIVED", "CLOSE_WAIT">>,
   <<"ESTABLISHED", "FIN_WAIT_1">>, <<"ESTABLISHED", "CLOSE_WAIT">>,
   <<"FIN_WAIT_1", "CLOSING">>}

FollowsRfc793 ==
  [][tsk.state # tsk'.state => <<tsk.state, tsk'.state>> \in LegalMoves]_vars

-----------------------------------------------------------------------------
(* What the documentation says and the code does not do *)

\* include/tcp.hpp:103: SYN_RECEIVED means "SYN received and SYN-ACK sent".
SynReceivedSentSynAck ==
  [][tsk.state # "SYN_RECEIVED" /\ tsk'.state = "SYN_RECEIVED"
       => \E i \in DOMAIN tsk'.out : tsk'.out[i].flags = {"syn", "ack"}]_vars

\* include/tcp.hpp:110 and 123: FIN_WAIT_1 and CLOSING mean "FIN sent"; the one
\* is entered by the call that queues the FIN, the other only from there.
FinWaitSentFin ==
  [][tsk.state # "FIN_WAIT_1" /\ tsk'.state = "FIN_WAIT_1"
       => \E i \in DOMAIN tsk'.out : "fin" \in tsk'.out[i].flags]_vars

\* src/tcp_input.cpp:210-211: a closed socket answers a segment with a
\* "valid matching RST", whose number is the acknowledgement of the segment.
ResetMatchesSegment ==
  [][\A seg \in Segments :
       /\ tsk.state = "CLOSE" /\ "rst" \notin seg.flags
       /\ Receive(seg) /\ proc' = "up"
       => \E i \in DOMAIN tsk'.out :
            /\ "rst" \in tsk'.out[i].flags
            /\ tsk'.out[i].seq = IF "ack" \in seg.flags THEN seg.ack_seq
                                 ELSE 0]_vars

\* src/tcp_input.cpp:470: "Max Delay: MUST be < 0.5 seconds".
DelayedAckSent ==
  tsk.delack \in Timers ~> tsk.delack \notin Timers \/ ~InTable

\* src/tcp_data.cpp:103: an out-of-order segment is queued "for later
\* processing", so its buffer outlives the handler.
QueuedSkbStaysAllocated ==
  proc = "up" => \A i \in DOMAIN tsk.ofo_queue : ~tsk.ofo_queue[i].freed

=============================================================================
