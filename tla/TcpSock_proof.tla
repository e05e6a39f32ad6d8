---------------------------- MODULE TcpSock_proof ----------------------------
(***************************************************************************)
(* What one socket can and can never do, for every width of the numbers,   *)
(* every window, every set of segments and every bound of TcpSock.         *)
(*                                                                         *)
(* The argument: a socket is either as socket() left it (Fresh) or has     *)
(* sent its SYN and can never have it acknowledged (Connecting).  Of the   *)
(* functions that would lead out of these two, those that go through       *)
(* tcp_clear_timers kill the process, and those that ask for an empty      *)
(* write queue or a retransmission find neither; a socket whose connect    *)
(* was refused leaves the table in the state it has (Gone).                *)
(***************************************************************************)
EXTENDS TcpSock, FiniteSetTheorems, SequenceTheorems, TLAPS

LiveSets == SUBSET {"up", "dead"}

\* A socket in the middle of a call.
MidType == Sockets(LiveSets)

\* No outcome of the call so far leaves the process up.
Doomed(t) == "up" \notin t.live

Fresh(t) == /\ t.state = "CLOSE" /\ t.sstate = "UNCONNECTED"
            /\ t.write_queue = <<>> /\ "OUT" \notin t.poll_events

ConnectingStates == {"SYN_SENT", "SYN_RECEIVED", "ESTABLISHED", "FIN_WAIT_1",
                     "CLOSE_WAIT", "CLOSING"}

\* The SYN heads the write queue and its acknowledgement is unacceptable.
Connecting(t) ==
  /\ t.state \in ConnectingStates /\ t.sstate = "CONNECTING"
  /\ t.err \notin {"OK", "GARBAGE"} /\ "OUT" \notin t.poll_events
  /\ t.snd_una = t.iss /\ t.snd_nxt = t.iss + 1 /\ t.inflight # 0
  /\ t.write_queue # <<>> /\ "syn" \in t.write_queue[1].flags

\* The peer has answered the SYN.
Answered(t) == t.state \notin {"CLOSE", "SYN_SENT"}

\* The timers that a sweep may fire are delayed acknowledgements, and there is
\* none before the peer has answered.
DelackTimers(t) ==
  /\ t.delack \in Timers \/ t.cancelled # <<>> => Answered(t)
  /\ t.delack \in Timers => t.delack.fn = "send_delack"
  /\ \A i \in DOMAIN t.cancelled : t.cancelled[i].fn = "send_delack"

MayBeSent(m, state) ==
  \/ m.flags = {"rst"} /\ state = "CLOSE"
  \/ m.flags = {"syn"} /\ state = "SYN_SENT"
  \/ m.flags = {"ack"} /\ state \notin {"CLOSE", "SYN_SENT"}

OnWire(t) == \A i \in DOMAIN t.out : MayBeSent(t.out[i], t.state)

Good(t) == (Fresh(t) \/ Connecting(t)) /\ DelackTimers(t) /\ OnWire(t)

\* A socket that was freed: its queues are empty, its state is what it was.
Gone(t) == /\ t.freed /\ t.out = <<>> /\ DelackTimers(t)
           /\ t.state \in ConnectingStates \cup {"CLOSE"}
           /\ t.sstate \in {"UNCONNECTED", "CONNECTING"}

-----------------------------------------------------------------------------
(* Pointers and timers *)

LEMMA DerefType ==
  ASSUME NEW t \in MidType, NEW p
  PROVE  /\ Deref(t, p) \in MidType
         /\ Deref(t, p) = [t EXCEPT !.live = Deref(t, p).live]
         /\ p = NULL \/ Doomed(t) => Doomed(Deref(t, p))
  <1> DEFINE l == IF p = NULL THEN {"dead"}
                  ELSE IF p = UNINIT THEN t.live \cup {"dead"} ELSE t.live
  <1>1. l \in LiveSets BY DEF MidType, Sockets, LiveSets
  <1>2. Deref(t, p) = [t EXCEPT !.live = l] BY DEF Deref
  <1>3. p = NULL \/ Doomed(t) => "up" \notin l BY DEF Doomed
  <1> HIDE DEF l
  <1>4. [t EXCEPT !.live = l] \in MidType /\ [t EXCEPT !.live = l].live = l
    BY <1>1 DEF MidType, Sockets
  <1> QED BY <1>2, <1>3, <1>4 DEF Doomed

LEMMA CorruptType ==
  ASSUME NEW t \in MidType
  PROVE  /\ Corrupt(t) \in MidType
         /\ Corrupt(t) = [t EXCEPT !.live = Corrupt(t).live]
         /\ Doomed(t) => Doomed(Corrupt(t))
  <1> DEFINE l == t.live \cup {"dead"}
  <1>1. l \in LiveSets BY DEF MidType, Sockets, LiveSets
  <1>2. Corrupt(t) = [t EXCEPT !.live = l] BY DEF Corrupt
  <1>3. Doomed(t) => "up" \notin l BY DEF Doomed
  <1> HIDE DEF l
  <1>4. [t EXCEPT !.live = l] \in MidType /\ [t EXCEPT !.live = l].live = l
    BY <1>1 DEF MidType, Sockets
  <1> QED BY <1>2, <1>3, <1>4 DEF Doomed

LEMMA CancelType ==
  ASSUME NEW t \in MidType, NEW p \in TimerPointers
  PROVE  /\ Cancel(t, p) \in MidType
         /\ Cancel(t, p) = [t EXCEPT !.live = Cancel(t, p).live,
                                     !.cancelled = Cancel(t, p).cancelled]
         /\ p \in Timers => Cancel(t, p).cancelled = Append(t.cancelled, p)
         /\ p \notin Timers => Cancel(t, p).cancelled = t.cancelled
         /\ p = NULL \/ Doomed(t) => Doomed(Cancel(t, p))
  <1> DEFINE d == Deref(t, p)
  <1>1. /\ d \in MidType /\ d = [t EXCEPT !.live = d.live]
        /\ p = NULL \/ Doomed(t) => Doomed(d)
    BY DerefType
  <1>2. Cancel(t, p) = IF p \in Timers
                       THEN [d EXCEPT !.cancelled = Append(d.cancelled, p)]
                       ELSE d
    BY DEF Cancel
  <1> HIDE DEF d
  <1>3. d.cancelled = t.cancelled BY <1>1 DEF MidType, Sockets
  <1>4. CASE p \notin Timers
    BY <1>1, <1>2, <1>3, <1>4 DEF MidType, Sockets
  <1>5. CASE p \in Timers
    <2> DEFINE c == Append(t.cancelled, p)
    <2>1. c \in TimerSeq BY <1>5 DEF TimerSeq, MidType, Sockets
    <2>2. Cancel(t, p) = [d EXCEPT !.cancelled = c] BY <1>2, <1>3, <1>5
    <2> HIDE DEF c
    <2>3. /\ [d EXCEPT !.cancelled = c] \in MidType
          /\ [d EXCEPT !.cancelled = c].cancelled = c
          /\ [d EXCEPT !.cancelled = c].live = d.live
      BY <2>1, <1>1 DEF MidType, Sockets
    <2>4. [d EXCEPT !.cancelled = c] = [t EXCEPT !.live = d.live, !.cancelled = c]
      BY <1>1 DEF MidType, Sockets
    <2> QED BY <1>1, <1>5, <2>2, <2>3, <2>4 DEF Doomed, c
  <1> QED BY <1>4, <1>5

LEMMA ReleaseType ==
  ASSUME NEW t \in MidType, NEW p
  PROVE  /\ Release(t, p) \in MidType
         /\ Release(t, p) = [t EXCEPT !.live = Release(t, p).live]
         /\ p = NULL \/ Doomed(t) => Doomed(Release(t, p))
  BY DerefType DEF Release

LEMMA NullPointer == NULL \in TimerPointers
  BY DEF TimerPointers

LEMMA CreateType ==
  ASSUME NEW fn \in TimerFn
  PROVE  Create(fn) \in TimerPointers /\ Create(fn).fn = fn
  BY DEF Create, TimerPointers, Timers

LEMMA SmallBytes == 0 \in Byte /\ \A n \in Nat : n % U8 \in Byte
  BY WidthAssumption DEF Byte, WidthAssumption

LEMMA StopRtoType ==
  ASSUME NEW t \in MidType
  PROVE  /\ tcp_stop_rto_timer(t) \in MidType
         /\ tcp_stop_rto_timer(t).retransmit = NULL
  <1> DEFINE c == Cancel(t, t.retransmit)
  <1>1. t.retransmit \in TimerPointers BY DEF MidType, Sockets
  <1>2. c \in MidType BY <1>1, CancelType
  <1>3. tcp_stop_rto_timer(t) = [c EXCEPT !.retransmit = NULL, !.backoff = 0]
    BY DEF tcp_stop_rto_timer
  <1> HIDE DEF c
  <1> QED BY <1>2, <1>3, NullPointer, SmallBytes, ZenonT(60) DEF MidType, Sockets

\* Every way to tear a connection down kills the process.
LEMMA ClearTimersDoomed ==
  ASSUME NEW t \in MidType
  PROVE  tcp_clear_timers(t) \in MidType /\ Doomed(tcp_clear_timers(t))
  <1> DEFINE s == tcp_stop_rto_timer(t)
             a == Release(s, s.retransmit)
             r == [a EXCEPT !.retransmit = NULL]
             b == Cancel(r, r.keepalive)
             k == [b EXCEPT !.keepalive = NULL]
             c == Cancel(k, k.linger)
             l == [c EXCEPT !.linger = NULL]
  <1>1. s \in MidType /\ s.retransmit = NULL BY StopRtoType
  <1>2. a \in MidType /\ Doomed(a)
    <2> HIDE DEF s
    <2> QED BY <1>1, ReleaseType
  <1>3. r \in MidType /\ Doomed(r)
    <2> HIDE DEF a
    <2> QED BY <1>2, NullPointer DEF MidType, Sockets, Doomed
  <1>4. b \in MidType /\ Doomed(b)
    <2> HIDE DEF r
    <2>1. r.keepalive \in TimerPointers BY <1>3 DEF MidType, Sockets
    <2> QED BY <1>3, <2>1, CancelType
  <1>5. k \in MidType /\ Doomed(k)
    <2> HIDE DEF b
    <2> QED BY <1>4, NullPointer DEF MidType, Sockets, Doomed
  <1>6. c \in MidType /\ Doomed(c)
    <2> HIDE DEF k
    <2>1. k.linger \in TimerPointers BY <1>5 DEF MidType, Sockets
    <2> QED BY <1>5, <2>1, CancelType
  <1>7. l \in MidType /\ Doomed(l)
    <2> HIDE DEF c
    <2> QED BY <1>6, NullPointer DEF MidType, Sockets, Doomed
  <1>8. tcp_clear_timers(t) = l
    BY DEF tcp_clear_timers, tcp_release_rto_timer
  <1> QED BY <1>7, <1>8

LEMMA EmptyQueues == <<>> \in ReadQueue /\ <<>> \in WriteQueue
                     /\ <<>> \in Wire /\ <<>> \in TimerSeq
  BY DEF ReadQueue, WriteQueue, Wire, TimerSeq

LEMMA DoneDoomed ==
  ASSUME NEW t \in MidType
  PROVE  tcp_done(t) \in MidType /\ Doomed(tcp_done(t))
  <1> DEFINE a == [t EXCEPT !.state = "CLOSING"]
             b == tcp_clear_timers(a)
             w == IF \E i \in DOMAIN b.ofo_queue : b.ofo_queue[i].freed
                  THEN Corrupt(b) ELSE b
             c == [w EXCEPT !.ofo_queue = <<>>]
             d == [c EXCEPT !.sstate = "DISCONNECTING"]
  <1>1. a \in MidType
    <2>1. "CLOSING" \in Tcp_State BY DEF Tcp_State
    <2> QED BY <2>1 DEF MidType, Sockets
  <1>2. b \in MidType /\ Doomed(b) BY <1>1, ClearTimersDoomed
  <1> HIDE DEF b
  <1>3. w \in MidType /\ Doomed(w) BY <1>2, CorruptType
  <1>4. tcp_done(t) = d BY DEF tcp_done, tcp_clear_queues, b
  <1> HIDE DEF w
  <1>5. c \in MidType /\ Doomed(c)
    BY <1>3, EmptyQueues DEF MidType, Sockets, Doomed
  <1> HIDE DEF c
  <1>6. d \in MidType /\ Doomed(d)
    <2>1. "DISCONNECTING" \in Socket_State BY DEF Socket_State
    <2> QED BY <1>5, <2>1 DEF MidType, Sockets, Doomed
  <1> QED BY <1>4, <1>6

LEMMA TimeWaitDoomed ==
  ASSUME NEW t \in MidType
  PROVE  Doomed(tcp_enter_time_wait(t))
  <1> DEFINE a == [t EXCEPT !.state = "TIME_WAIT"]
             b == tcp_clear_timers(a)
  <1>1. a \in MidType
    <2>1. "TIME_WAIT" \in Tcp_State BY DEF Tcp_State
    <2> QED BY <2>1 DEF MidType, Sockets
  <1>2. b \in MidType /\ Doomed(b) BY <1>1, ClearTimersDoomed
  <1>3. tcp_enter_time_wait(t) = [b EXCEPT !.linger = Create("linger")]
    BY DEF tcp_enter_time_wait
  <1> HIDE DEF b
  <1> QED BY <1>2, <1>3 DEF MidType, Sockets, Doomed

-----------------------------------------------------------------------------
(* Output *)

LEMMA TransmitType ==
  ASSUME NEW t \in MidType, NEW flags \in SUBSET Flag, NEW seq \in SeqNum
  PROVE  /\ tcp_transmit_skb(t, flags, seq) \in MidType
         /\ tcp_transmit_skb(t, flags, seq) =
              [t EXCEPT !.out = tcp_transmit_skb(t, flags, seq).out,
                        !.live = tcp_transmit_skb(t, flags, seq).live]
         /\ Doomed(t) => Doomed(tcp_transmit_skb(t, flags, seq))
         /\ OnWire(t) /\ MayBeSent([flags |-> flags, seq |-> seq,
                                    ack_seq |-> t.rcv_nxt], t.state)
             => OnWire(tcp_transmit_skb(t, flags, seq))
  <1> DEFINE m == [flags |-> flags, seq |-> seq, ack_seq |-> t.rcv_nxt]
             o == Append(t.out, m)
             c == Corrupt(t)
             r == [c EXCEPT !.out = o]
  <1>1. m \in Sent BY DEF Sent, MidType, Sockets
  <1>2. t.out \in Seq(Sent) BY DEF MidType, Sockets, Wire
  <1>3. o \in Wire
    <2> HIDE DEF m
    <2> QED BY <1>1, <1>2 DEF Wire
  <1>0. /\ c \in MidType /\ c = [t EXCEPT !.live = c.live]
        /\ Doomed(t) => Doomed(c)
    BY CorruptType
  <1>4. tcp_transmit_skb(t, flags, seq) = r
    <2>1. c.out = t.out BY DEF Corrupt, MidType, Sockets
    <2> HIDE DEF c
    <2> QED BY <2>1 DEF tcp_transmit_skb, c
  <1>5. ASSUME OnWire(t), MayBeSent(m, t.state)
        PROVE  \A i \in DOMAIN o : MayBeSent(o[i], t.state)
    <2> HIDE DEF m
    <2> QED BY <1>1, <1>2, <1>5 DEF OnWire
  <1> HIDE DEF o, c
  <1>6. /\ r \in MidType /\ r.out = o /\ r.state = t.state /\ r.live = c.live
        /\ r = [t EXCEPT !.out = o, !.live = c.live]
    BY <1>0, <1>3 DEF MidType, Sockets
  <1> QED BY <1>0, <1>4, <1>5, <1>6 DEF OnWire, Doomed

LEMMA ResetTransmitted ==
  ASSUME NEW t \in MidType, NEW seq \in SeqNum
  PROVE  LET r == tcp_transmit_skb(t, {"rst"}, seq)
         IN  /\ r \in MidType /\ r = [t EXCEPT !.out = r.out, !.live = r.live]
             /\ OnWire(t) /\ t.state = "CLOSE" => OnWire(r)
  <1> DEFINE r == tcp_transmit_skb(t, {"rst"}, seq)
  <1>1. {"rst"} \in SUBSET Flag BY DEF Flag
  <1>2. r \in MidType /\ r = [t EXCEPT !.out = r.out, !.live = r.live]
    BY <1>1, TransmitType, Zenon
  <1>3. ASSUME t.state = "CLOSE"
        PROVE  MayBeSent([flags |-> {"rst"}, seq |-> seq,
                          ack_seq |-> t.rcv_nxt], t.state)
    BY <1>3 DEF MayBeSent
  <1>4. OnWire(t) /\ t.state = "CLOSE" => OnWire(r)
    BY <1>1, <1>3, TransmitType, Zenon
  <1> QED BY <1>2, <1>4

LEMMA SendResetType ==
  ASSUME NEW t \in MidType
  PROVE  /\ tcp_send_reset(t) \in MidType
         /\ Fresh(t) /\ Good(t) => Fresh(tcp_send_reset(t)) /\ Good(tcp_send_reset(t))
  <1> DEFINE a == [t EXCEPT !.snd_una = t.snd_nxt]
             r == tcp_transmit_skb(a, {"rst"}, t.snd_nxt)
  <1>1. /\ a \in MidType /\ t.snd_nxt \in SeqNum /\ a.state = t.state
        /\ a.out = t.out
    BY DEF MidType, Sockets
  <1>3. tcp_send_reset(t) = r BY DEF tcp_send_reset
  <1>4. /\ r \in MidType /\ r = [a EXCEPT !.out = r.out, !.live = r.live]
        /\ OnWire(a) /\ a.state = "CLOSE" => OnWire(r)
    <2> HIDE DEF a
    <2> QED BY <1>1, ResetTransmitted
  <1>5. OnWire(t) => OnWire(a) BY <1>1 DEF OnWire
  <1>6. ASSUME Fresh(t), Good(t) PROVE Fresh(r) /\ Good(r)
    <2> HIDE DEF r
    <2>1. /\ r.state = t.state /\ r.sstate = t.sstate
          /\ r.write_queue = t.write_queue /\ r.poll_events = t.poll_events
          /\ r.delack = t.delack /\ r.cancelled = t.cancelled
      BY <1>4 DEF MidType, Sockets
    <2> QED BY <2>1, <1>1, <1>4, <1>5, <1>6
         DEF Fresh, Good, DelackTimers, Answered
  <1> QED BY <1>3, <1>4, <1>6

LEMMA AbortDoomed ==
  ASSUME NEW t \in MidType
  PROVE  Doomed(tcp_abort(t))
  BY SendResetType, DoneDoomed DEF tcp_abort

LEMMA ResetDoomed ==
  ASSUME NEW t \in MidType, t.state # "CLOSE"
  PROVE  Doomed(tcp_reset(t))
  <1> DEFINE p == [t EXCEPT !.poll_events = {"OUT", "ERR", "HUP"}]
             e == CASE t.state = "SYN_SENT"   -> "ECONNREFUSED"
                    [] t.state = "CLOSE_WAIT" -> "EPIPE"
                    [] OTHER                  -> "ECONNRESET"
             r == [p EXCEPT !.err = e]
  <1>1. p \in MidType
    <2>1. {"OUT", "ERR", "HUP"} \in Poll BY DEF Poll
    <2> QED BY <2>1 DEF MidType, Sockets
  <1>2. e \in Errno BY DEF Errno
  <1>3. tcp_reset(t) = tcp_done(r) BY DEF tcp_reset
  <1> HIDE DEF p, e
  <1>4. r \in MidType BY <1>1, <1>2 DEF MidType, Sockets
  <1> QED BY <1>3, <1>4, DoneDoomed

LEMMA SendAckType ==
  ASSUME NEW t \in MidType
  PROVE  /\ tcp_send_ack(t) \in MidType
         /\ tcp_send_ack(t) = [t EXCEPT !.out = tcp_send_ack(t).out,
                                        !.live = tcp_send_ack(t).live]
         /\ Doomed(t) => Doomed(tcp_send_ack(t))
         /\ OnWire(t) /\ t.state # "SYN_SENT" => OnWire(tcp_send_ack(t))
  <1>1. t.snd_nxt \in SeqNum BY DEF MidType, Sockets
  <1>2. {"ack"} \in SUBSET Flag BY DEF Flag
  <1>3. CASE t.state = "CLOSE"
    <2>1. tcp_send_ack(t) = t BY <1>3 DEF tcp_send_ack
    <2> QED BY <2>1 DEF MidType, Sockets
  <1>4. CASE t.state # "CLOSE"
    <2> DEFINE m == [flags |-> {"ack"}, seq |-> t.snd_nxt,
                     ack_seq |-> t.rcv_nxt]
               o == tcp_transmit_skb(t, {"ack"}, t.snd_nxt)
    <2>1. tcp_send_ack(t) = o BY <1>4 DEF tcp_send_ack
    <2>2. t.state # "SYN_SENT" => MayBeSent(m, t.state)
      BY <1>4 DEF MayBeSent
    <2>3. /\ o \in MidType /\ o = [t EXCEPT !.out = o.out, !.live = o.live]
          /\ Doomed(t) => Doomed(o)
          /\ OnWire(t) /\ MayBeSent(m, t.state) => OnWire(o)
      BY <1>1, <1>2, TransmitType
    <2> HIDE DEF m, o
    <2> QED BY <2>1, <2>2, <2>3
  <1> QED BY <1>3, <1>4

\* An update of the socket that leaves what Good speaks of alone.
Keeps(t, r) ==
  /\ r.state = t.state /\ r.sstate = t.sstate /\ r.err = t.err /\ r.iss = t.iss
  /\ r.snd_una = t.snd_una /\ r.snd_nxt = t.snd_nxt /\ r.inflight = t.inflight
  /\ r.write_queue = t.write_queue
  /\ "OUT" \in r.poll_events => "OUT" \in t.poll_events

LEMMA KeepsGood ==
  ASSUME NEW t, NEW r, Keeps(t, r)
  PROVE  /\ Fresh(t) => Fresh(r)
         /\ Connecting(t) => Connecting(r)
  BY DEF Keeps, Fresh, Connecting

LEMMA SendAckGood ==
  ASSUME NEW t \in MidType, Good(t), t.state # "SYN_SENT"
  PROVE  /\ tcp_send_ack(t) \in MidType /\ Good(tcp_send_ack(t))
         /\ Connecting(t) => Connecting(tcp_send_ack(t))
         /\ tcp_send_ack(t) = [t EXCEPT !.out = tcp_send_ack(t).out,
                                        !.live = tcp_send_ack(t).live]
         /\ Doomed(t) => Doomed(tcp_send_ack(t))
  <1> DEFINE r == tcp_send_ack(t)
  <1>1. /\ r \in MidType /\ OnWire(r) /\ (Doomed(t) => Doomed(r))
        /\ r = [t EXCEPT !.out = r.out, !.live = r.live]
    BY SendAckType DEF Good
  <1> HIDE DEF r
  <1>2. Keeps(t, r) /\ r.delack = t.delack /\ r.cancelled = t.cancelled
    BY <1>1 DEF Keeps, MidType, Sockets
  <1>3. Good(r) /\ (Connecting(t) => Connecting(r))
    BY <1>1, <1>2, KeepsGood DEF Good, DelackTimers, Answered, Keeps
  <1> QED BY <1>1, <1>3 DEF r

\* Behind the SYN a buffer is queued and nothing is sent.
LEMMA QueueBehindSyn ==
  ASSUME NEW t \in MidType, Good(t), Connecting(t), NEW skb \in Skb
  PROVE  /\ tcp_queue_transmit_skb(t, skb) \in MidType
         /\ Good(tcp_queue_transmit_skb(t, skb))
         /\ tcp_queue_transmit_skb(t, skb).state = t.state
  <1> DEFINE q == Append(t.write_queue, skb)
             r == [t EXCEPT !.write_queue = q]
  <1>1. t.write_queue \in Seq(Skb) BY DEF MidType, Sockets, WriteQueue
  <1>2. q \in WriteQueue /\ q # <<>> /\ q[1] = t.write_queue[1]
    BY <1>1 DEF Connecting, WriteQueue
  <1>3. tcp_queue_transmit_skb(t, skb) = r
    BY DEF tcp_queue_transmit_skb, Connecting
  <1> HIDE DEF q
  <1>4. r \in MidType BY <1>2 DEF MidType, Sockets
  <1>5. /\ r.state = t.state /\ r.sstate = t.sstate /\ r.err = t.err
        /\ r.iss = t.iss /\ r.snd_una = t.snd_una /\ r.snd_nxt = t.snd_nxt
        /\ r.inflight = t.inflight /\ r.write_queue = q
        /\ r.poll_events = t.poll_events /\ r.delack = t.delack
        /\ r.cancelled = t.cancelled /\ r.out = t.out
    BY DEF MidType, Sockets
  <1>6. Good(r)
    BY <1>2, <1>5 DEF Good, Connecting, DelackTimers, Answered, OnWire
  <1> QED BY <1>3, <1>4, <1>6

LEMMA ModU32 ==
  /\ 0 \in SeqNum /\ 1 \in SeqNum
  /\ \A n \in Nat : n % U32 \in SeqNum
  /\ \A n \in SeqNum : n % U32 = n
  BY WidthAssumption DEF WidthAssumption, SeqNum

\* The lower half of the numbers has a successor.
LEMMA IssFits ==
  ASSUME NEW iss \in Iss
  PROVE  iss \in SeqNum /\ iss + 1 \in SeqNum
  BY IssAssumption, WidthAssumption DEF IssAssumption, WidthAssumption, SeqNum

LEMMA RearmRtoType ==
  ASSUME NEW t \in MidType
  PROVE  /\ tcp_rearm_rto_timer(t) \in MidType
         /\ tcp_rearm_rto_timer(t) =
              [t EXCEPT !.live = tcp_rearm_rto_timer(t).live,
                        !.retransmit = tcp_rearm_rto_timer(t).retransmit]
  <1> DEFINE a == Release(t, t.retransmit)
             b == [a EXCEPT !.retransmit = NULL]
             c == Create(IF t.state = "SYN_SENT" THEN "connect_rto"
                         ELSE "retransmission_timeout")
             r == [b EXCEPT !.retransmit = c]
  <1>1. a \in MidType /\ a = [t EXCEPT !.live = a.live] BY ReleaseType
  <1>2. c \in TimerPointers
    <2>1. /\ "connect_rto" \in TimerFn
          /\ "retransmission_timeout" \in TimerFn
      BY DEF TimerFn
    <2> QED BY <2>1, CreateType
  <1>3. tcp_rearm_rto_timer(t) = r
    <2>1. tcp_release_rto_timer(t) = b BY DEF tcp_release_rto_timer
    <2> QED BY <2>1 DEF tcp_rearm_rto_timer
  <1> HIDE DEF a, c
  <1>4. b \in MidType BY <1>1, NullPointer DEF MidType, Sockets
  <1>5. r \in MidType
    <2> HIDE DEF b
    <2> QED BY <1>2, <1>4 DEF MidType, Sockets
  <1>6. r = [t EXCEPT !.live = r.live, !.retransmit = r.retransmit]
    BY <1>1, <1>2 DEF MidType, Sockets
  <1> QED BY <1>3, <1>5, <1>6

\* The socket t after its SYN was queued.
SynQueued(t, r, iss) ==
  /\ r \in MidType /\ r.inflight # 0 /\ r.snd_nxt = iss
  /\ r.write_queue # <<>> /\ "syn" \in r.write_queue[1].flags
  /\ OnWire(r)
  /\ r = [t EXCEPT !.live = r.live, !.retransmit = r.retransmit,
            !.inflight = r.inflight, !.snd_nxt = r.snd_nxt,
            !.write_queue = r.write_queue, !.out = r.out]

\* The first buffer of a connection is sent, or left behind what an
\* uninitialised inflight counts; either way it heads the queue.
LEMMA SendSynGood ==
  ASSUME NEW t \in MidType, NEW iss \in Iss, t.state = "SYN_SENT",
         t.write_queue = <<>>, t.snd_nxt = iss, t.out = <<>>
  PROVE  SynQueued(t, tcp_queue_transmit_skb(t, tcp_alloc_skb({"syn"}, 0)), iss)
  <1> DEFINE skb == tcp_alloc_skb({"syn"}, 0)
             a   == tcp_rearm_rto_timer(t)
             num == [skb EXCEPT !.seq = iss, !.end_seq = iss]
             m   == [flags |-> {"syn"}, seq |-> iss, ack_seq |-> a.rcv_nxt]
             w   == [a EXCEPT !.write_queue = <<skb>>]
             k   == Corrupt(a)
             x   == [k EXCEPT !.out = <<m>>]
             y   == [x EXCEPT !.inflight = 1, !.snd_nxt = iss,
                              !.write_queue = <<num>>]
  <1>1. /\ a \in MidType
        /\ a = [t EXCEPT !.live = a.live, !.retransmit = a.retransmit]
    BY RearmRtoType
  <1>2. iss \in SeqNum /\ iss % U32 = iss /\ iss + 0 = iss /\ (0 + 1) % U32 = 1
    BY IssFits, ModU32 DEF SeqNum
  <1>3. {"syn"} \in SUBSET Flag BY DEF Flag
  <1>4. skb \in Skb /\ num \in Skb /\ skb.flags = {"syn"} /\ num.flags = {"syn"}
        /\ skb.data_len = 0
    BY <1>2, <1>3, ModU32 DEF tcp_alloc_skb, Skb
  <1> HIDE DEF a
  <1>5. /\ a.state = "SYN_SENT" /\ a.snd_nxt = iss /\ a.out = <<>>
        /\ a.write_queue = <<>> /\ a.rcv_nxt \in SeqNum
    BY <1>1 DEF MidType, Sockets
  <1>6. m \in Sent BY <1>2, <1>3, <1>5 DEF Sent
  <1>7. <<m>> \in Wire /\ <<skb>> \in WriteQueue /\ <<num>> \in WriteQueue
    <2> HIDE DEF m, skb, num
    <2> QED BY <1>4, <1>6 DEF Wire, WriteQueue
  <1>8. MayBeSent(m, "SYN_SENT") BY DEF MayBeSent
  <1>11. k \in MidType /\ k = [a EXCEPT !.live = k.live] BY <1>1, CorruptType
  <1> HIDE DEF k
  <1>9. CASE a.inflight = 0
    <2>1. tcp_queue_transmit_skb(t, skb) = y
      <3>1. tcp_transmit_skb(a, skb.flags, a.snd_nxt) = x
        <4>1. Append(a.out, m) = <<m>> BY <1>5
        <4>2. k.out = a.out BY <1>1, <1>11 DEF MidType, Sockets
        <4> HIDE DEF m
        <4>3. tcp_transmit_skb(a, skb.flags, a.snd_nxt) =
                [k EXCEPT !.out = Append(k.out, m)]
          BY <1>4, <1>5 DEF tcp_transmit_skb, m, k
        <4> QED BY <4>1, <4>2, <4>3
      <3>2. /\ Sequenced(a, skb).skb = num
            /\ Sequenced(a, skb).snd_nxt = iss
        BY <1>2, <1>4, <1>5 DEF Sequenced
      <3>3. x.inflight = 0 /\ x.write_queue = <<>>
        BY <1>1, <1>5, <1>9, <1>11 DEF MidType, Sockets
      <3> HIDE DEF m, num, skb, x
      <3>4. tcp_queue_transmit_skb(t, skb) =
              [x EXCEPT !.inflight = (x.inflight + 1) % U32, !.snd_nxt = iss,
                        !.write_queue = Append(x.write_queue, num)]
        BY <1>9, <3>1, <3>2 DEF tcp_queue_transmit_skb, a
      <3>5. (x.inflight + 1) % U32 = 1 /\ Append(x.write_queue, num) = <<num>>
        BY <1>2, <3>3
      <3> QED BY <3>4, <3>5
    <2> HIDE DEF m, num, skb
    <2>2. x \in MidType BY <1>7, <1>11 DEF MidType, Sockets
    <2>3. y \in MidType
      <3> HIDE DEF x
      <3> QED BY <1>2, <1>7, <2>2, ModU32 DEF MidType, Sockets
    <2>4. /\ y.inflight = 1 /\ y.snd_nxt = iss /\ y.write_queue = <<num>>
          /\ y.out = <<m>> /\ y.state = "SYN_SENT"
      BY <1>1, <1>5, <1>11 DEF MidType, Sockets
    <2>5. OnWire(y) BY <2>4, <1>8 DEF OnWire
    <2>6. y = [t EXCEPT !.live = y.live, !.retransmit = y.retransmit,
                 !.inflight = y.inflight, !.snd_nxt = y.snd_nxt,
                 !.write_queue = y.write_queue, !.out = y.out]
      BY <1>1, <1>11, ZenonT(60) DEF MidType, Sockets
    <2>7. "syn" \in y.write_queue[1].flags BY <1>4, <2>4
    <2>8. SynQueued(t, y, iss)
      <3> HIDE DEF y
      <3> QED BY <2>3, <2>4, <2>5, <2>6, <2>7 DEF SynQueued
    <2> QED BY <2>1, <2>8 DEF skb
  <1>10. CASE a.inflight # 0
    <2>1. tcp_queue_transmit_skb(t, skb) = w
      <3>1. Append(a.write_queue, skb) = <<skb>> BY <1>5
      <3> QED BY <1>10, <3>1 DEF tcp_queue_transmit_skb, a
    <2> HIDE DEF skb
    <2>2. w \in MidType BY <1>1, <1>7 DEF MidType, Sockets
    <2>3. /\ w.inflight = a.inflight /\ w.snd_nxt = iss
          /\ w.write_queue = <<skb>> /\ w.out = <<>>
      BY <1>1, <1>5 DEF MidType, Sockets
    <2>4. OnWire(w) BY <2>3 DEF OnWire
    <2>5. w = [t EXCEPT !.live = w.live, !.retransmit = w.retransmit,
                 !.inflight = w.inflight, !.snd_nxt = w.snd_nxt,
                 !.write_queue = w.write_queue, !.out = w.out]
      BY <1>1 DEF MidType, Sockets
    <2>6. "syn" \in w.write_queue[1].flags BY <1>4, <2>3
    <2>7. SynQueued(t, w, iss)
      <3> HIDE DEF w
      <3> QED BY <1>10, <2>2, <2>3, <2>4, <2>5, <2>6 DEF SynQueued
    <2> QED BY <2>1, <2>7 DEF skb
  <1> QED BY <1>9, <1>10

-----------------------------------------------------------------------------
(* Calls of the application *)

\* A call that finds t and leaves r, if it leaves the process up.
Safe(t, r) ==
  Doomed(r) \/ (r \in MidType /\ Good(r) /\ (Answered(t) => Answered(r)))

LEMMA KeepsSafe ==
  ASSUME NEW t \in MidType, NEW r \in MidType, Good(t), Keeps(t, r),
         r.delack = t.delack, r.cancelled = t.cancelled, r.out = t.out
  PROVE  Safe(t, r)
  <1>1. OnWire(r) BY DEF OnWire, Keeps, Good
  <1> QED BY <1>1, KeepsGood DEF Safe, Good, DelackTimers, Answered, Keeps

\* Writing err leaves a socket as it was, but for values that mean success.
LEMMA ErrSafe ==
  ASSUME NEW t \in MidType, Good(t),
         NEW e \in {"EALREADY", "EBADF", "EISCONN", "EINVAL"}
  PROVE  Safe(t, [t EXCEPT !.err = e])
  <1> DEFINE r == [t EXCEPT !.err = e]
  <1>1. e \in Errno BY DEF Errno
  <1>2. r \in MidType BY <1>1 DEF MidType, Sockets
  <1>3. /\ r.state = t.state /\ r.sstate = t.sstate /\ r.err = e
        /\ r.iss = t.iss /\ r.snd_una = t.snd_una /\ r.snd_nxt = t.snd_nxt
        /\ r.inflight = t.inflight /\ r.write_queue = t.write_queue
        /\ r.poll_events = t.poll_events /\ r.delack = t.delack
        /\ r.cancelled = t.cancelled /\ r.out = t.out
    BY DEF MidType, Sockets
  <1> HIDE DEF r
  <1>4. Good(r)
    BY <1>3 DEF Good, Fresh, Connecting, DelackTimers, Answered, OnWire
  <1> QED BY <1>2, <1>3, <1>4 DEF Safe, Answered, r

LEMMA TcpConnectGood ==
  ASSUME NEW t \in MidType, Good(t), Fresh(t), t.out = <<>>, NEW iss \in Iss
  PROVE  LET c == [tcp_connect(t, iss) EXCEPT !.sstate = "CONNECTING",
                                               !.err = "EINPROGRESS"]
         IN  c \in MidType /\ Good(c)
  <1> DEFINE a == [t EXCEPT !.iss = iss, !.snd_una = iss, !.snd_nxt = iss,
                            !.rcv_wnd = RcvWnd]
             b == [a EXCEPT !.state = "SYN_SENT"]
             s == tcp_queue_transmit_skb(b, tcp_alloc_skb({"syn"}, 0))
             c == [s EXCEPT !.snd_nxt = (s.snd_nxt + 1) % U32]
             d == [c EXCEPT !.sstate = "CONNECTING", !.err = "EINPROGRESS"]
  <1>1. iss \in SeqNum /\ iss + 1 \in SeqNum /\ (iss + 1) % U32 = iss + 1
    BY IssFits, ModU32
  <1>2. a \in MidType BY <1>1, SizeAssumption DEF SizeAssumption, MidType, Sockets
  <1>3. /\ a.state = "CLOSE" /\ a.iss = iss /\ a.snd_una = iss
        /\ a.snd_nxt = iss /\ a.write_queue = <<>> /\ a.out = <<>>
        /\ a.delack = t.delack /\ a.cancelled = t.cancelled
        /\ a.poll_events = t.poll_events
    BY DEF MidType, Sockets, Fresh
  <1> HIDE DEF a
  <1>4. b \in MidType
    <2>1. "SYN_SENT" \in Tcp_State BY DEF Tcp_State
    <2> QED BY <1>2, <2>1 DEF MidType, Sockets
  <1>5. /\ b.state = "SYN_SENT" /\ b.iss = iss /\ b.snd_una = iss
        /\ b.snd_nxt = iss /\ b.write_queue = <<>> /\ b.out = <<>>
        /\ b.delack = t.delack /\ b.cancelled = t.cancelled
        /\ b.poll_events = t.poll_events
    BY <1>2, <1>3 DEF MidType, Sockets
  <1>6. tcp_send_syn(a) = s BY <1>3 DEF tcp_send_syn
  <1>7. tcp_connect(t, iss) = c BY <1>6 DEF tcp_connect, a
  <1> HIDE DEF b
  <1>8. SynQueued(b, s, iss) BY <1>4, <1>5, SendSynGood
  <1> HIDE DEF s
  <1>9. /\ s.state = "SYN_SENT" /\ s.iss = iss /\ s.snd_una = iss
        /\ s.delack = t.delack /\ s.cancelled = t.cancelled
        /\ s.poll_events = t.poll_events
    BY <1>4, <1>5, <1>8 DEF SynQueued, MidType, Sockets
  <1>10. s.snd_nxt = iss BY <1>8 DEF SynQueued
  <1>11. d = [s EXCEPT !.snd_nxt = iss + 1, !.sstate = "CONNECTING",
                       !.err = "EINPROGRESS"]
    BY <1>1, <1>10
  <1> HIDE DEF d
  <1>12. d \in MidType
    <2>1. "CONNECTING" \in Socket_State /\ "EINPROGRESS" \in Errno
      BY DEF Socket_State, Errno
    <2> QED BY <1>1, <1>8, <1>11, <2>1 DEF SynQueued, MidType, Sockets
  <1>13. /\ d.state = "SYN_SENT" /\ d.sstate = "CONNECTING"
         /\ d.err = "EINPROGRESS" /\ d.iss = iss /\ d.snd_una = iss
         /\ d.snd_nxt = iss + 1 /\ d.inflight = s.inflight
         /\ d.write_queue = s.write_queue /\ d.poll_events = t.poll_events
         /\ d.delack = t.delack /\ d.cancelled = t.cancelled /\ d.out = s.out
    BY <1>8, <1>9, <1>11 DEF SynQueued, MidType, Sockets
  <1>14. Connecting(d)
    BY <1>8, <1>13 DEF SynQueued, Connecting, ConnectingStates, Fresh
  <1>15. OnWire(d)
    BY <1>8, <1>9, <1>13 DEF SynQueued, OnWire
  <1>16. Good(d)
    BY <1>13, <1>14, <1>15 DEF Good, DelackTimers, Answered, Fresh
  <1> QED BY <1>7, <1>12, <1>16 DEF d

LEMMA ConnectSwitchSafe ==
  ASSUME NEW t \in MidType, Good(t), t.out = <<>>, NEW iss \in Iss
  PROVE  /\ Safe(t, ConnectSwitch(t, iss))
         /\ ConnectSwitch(t, iss).err \in {"EALREADY", "EINPROGRESS"}
  <1> DEFINE r == ConnectSwitch(t, iss)
             c == [tcp_connect(t, iss) EXCEPT !.sstate = "CONNECTING",
                                              !.err = "EINPROGRESS"]
             d == [c EXCEPT !.live = {"dead"}]
  <1>1. CASE Fresh(t)
    <2>1. c \in MidType /\ Good(c) BY <1>1, TcpConnectGood
    <2>2. r = IF c.nonblock THEN c ELSE d
      BY <1>1 DEF ConnectSwitch, Fresh
    <2>3. c.err = "EINPROGRESS"
      <3> DEFINE k == [tcp_connect(t, iss) EXCEPT !.sstate = "CONNECTING"]
      <3>1. c = [k EXCEPT !.err = "EINPROGRESS"] OBVIOUS
      <3> HIDE DEF k
      <3>2. "err" \in DOMAIN c
        <4> HIDE DEF c
        <4> QED BY <2>1 DEF MidType, Sockets
      <3>3. DOMAIN c = DOMAIN k BY <3>1
      <3> QED BY <3>1, <3>2, <3>3
    <2> HIDE DEF c
    <2>4. "up" \notin d.live /\ d.err = c.err
      BY <2>1 DEF MidType, Sockets
    <2> HIDE DEF d, r
    <2> QED BY <1>1, <2>1, <2>2, <2>3, <2>4 DEF Safe, Doomed, Answered, Fresh, r
  <1>2. CASE Connecting(t)
    <2>1. r = [t EXCEPT !.err = "EALREADY"]
      BY <1>2 DEF ConnectSwitch, Connecting
    <2>2. r.err = "EALREADY" BY <2>1 DEF MidType, Sockets
    <2> QED BY <2>1, <2>2, ErrSafe
  <1> QED BY <1>1, <1>2 DEF Good

\* A connect to an address of the internet is never refused, and one to any
\* other is refused before it changes the socket.
LEMMA ConnectCases ==
  ASSUME NEW t \in MidType, Good(t), t.out = <<>>, NEW addr \in Sockaddr,
         NEW iss \in Iss
  PROVE  connect(t, addr, iss) = IF addr = "inet" THEN ConnectSwitch(t, iss)
                                 ELSE inet_free(t)
  <1> DEFINE c == inet_stream_connect(t, addr, iss)
             w == ConnectSwitch(t, iss)
  <1>1. w.err \notin Refusals BY ConnectSwitchSafe DEF Refusals
  <1> HIDE DEF w
  <1>2. CASE addr = "inet"
    <2>1. c = [sock |-> w, rc |-> w.err]
      BY <1>2 DEF inet_stream_connect, w
    <2> QED BY <1>1, <1>2, <2>1 DEF connect, w
  <1>3. CASE addr # "inet"
    <2>1. c.sock = t /\ c.rc \in Refusals
      BY <1>3 DEF Sockaddr, inet_stream_connect, Refusals
    <2> QED BY <1>3, <2>1 DEF connect
  <1> QED BY <1>2, <1>3

LEMMA FreeGone ==
  ASSUME NEW t \in MidType, Good(t), t.out = <<>>
  PROVE  /\ inet_free(t) \in MidType /\ Gone(inet_free(t))
         /\ inet_free(t).state = t.state
  <1> DEFINE c == IF t.write_queue = <<>> /\ t.receive_queue = <<>> THEN t
                  ELSE Corrupt(t)
             r == [c EXCEPT !.write_queue = <<>>, !.receive_queue = <<>>,
                            !.freed = TRUE]
  <1>1. c \in MidType /\ c = [t EXCEPT !.live = c.live]
    <2>1. CASE c = Corrupt(t) BY <2>1, CorruptType
    <2>2. CASE c = t BY <2>2 DEF MidType, Sockets
    <2> QED BY <2>1, <2>2
  <1>2. inet_free(t) = r BY DEF inet_free
  <1> HIDE DEF c
  <1>3. r \in MidType BY <1>1, EmptyQueues DEF MidType, Sockets
  <1>4. /\ r.freed /\ r.out = t.out /\ r.state = t.state /\ r.sstate = t.sstate
        /\ r.delack = t.delack /\ r.cancelled = t.cancelled
    BY <1>1 DEF MidType, Sockets
  <1> HIDE DEF r
  <1>5. Gone(r)
    BY <1>4 DEF Gone, Good, Fresh, Connecting, DelackTimers, Answered
  <1> QED BY <1>2, <1>3, <1>4, <1>5

LEMMA WriteSafe ==
  ASSUME NEW t \in MidType, Good(t), NEW len
  PROVE  Safe(t, tcp_write(t, len))
  <1>1. tcp_write(t, len) = t
    BY DEF tcp_write, Good, Fresh, Connecting
  <1> QED BY <1>1 DEF Safe

LEMMA ReadSafe ==
  ASSUME NEW t \in MidType, Good(t)
  PROVE  Safe(t, tcp_read(t))
  <1> DEFINE f == t.flags \ {"fin"}
             r == [t EXCEPT !.flags = f]
  <1>1. f \in TcpFlags BY DEF MidType, Sockets, TcpFlags
  <1>2. tcp_read(t) = t \/ tcp_read(t) = r BY DEF tcp_read
  <1> HIDE DEF f
  <1>3. r \in MidType BY <1>1 DEF MidType, Sockets
  <1>4. /\ Keeps(t, r) /\ r.delack = t.delack
        /\ r.cancelled = t.cancelled /\ r.out = t.out
    BY DEF Keeps, MidType, Sockets
  <1>5. Safe(t, r) BY <1>3, <1>4, KeepsSafe
  <1> QED BY <1>2, <1>5 DEF Safe

LEMMA StateGood ==
  ASSUME NEW t \in MidType, Good(t), Connecting(t), t.state # "SYN_SENT",
         NEW s \in ConnectingStates \ {"SYN_SENT"}
  PROVE  LET r == [t EXCEPT !.state = s]
         IN  /\ r \in MidType /\ Good(r) /\ Connecting(r)
             /\ r.rcv_nxt = t.rcv_nxt /\ r.rcv_wnd = t.rcv_wnd
             /\ r.ofo_queue = t.ofo_queue /\ r.receive_queue = t.receive_queue
  <1> DEFINE r == [t EXCEPT !.state = s]
  <1>1. s \in Tcp_State BY DEF ConnectingStates, Tcp_State
  <1>2. r \in MidType BY <1>1 DEF MidType, Sockets
  <1>3. /\ r.state = s /\ r.sstate = t.sstate /\ r.err = t.err
        /\ r.iss = t.iss /\ r.snd_una = t.snd_una /\ r.snd_nxt = t.snd_nxt
        /\ r.inflight = t.inflight /\ r.write_queue = t.write_queue
        /\ r.poll_events = t.poll_events /\ r.delack = t.delack
        /\ r.cancelled = t.cancelled /\ r.out = t.out
        /\ r.rcv_nxt = t.rcv_nxt /\ r.rcv_wnd = t.rcv_wnd
        /\ r.ofo_queue = t.ofo_queue /\ r.receive_queue = t.receive_queue
    BY DEF MidType, Sockets
  <1> HIDE DEF r
  <1>4. Connecting(r) BY <1>3 DEF Connecting
  <1>5. \A m : MayBeSent(m, t.state) => MayBeSent(m, s)
    BY DEF MayBeSent, ConnectingStates, Connecting
  <1>6. OnWire(r) BY <1>3, <1>5 DEF OnWire, Good
  <1>7. Good(r)
    BY <1>3, <1>4, <1>6
       DEF Good, DelackTimers, Answered, ConnectingStates
  <1> QED BY <1>2, <1>3, <1>4, <1>7 DEF r

LEMMA QueueFinGood ==
  ASSUME NEW t \in MidType, Good(t), Connecting(t)
  PROVE  /\ tcp_queue_fin(t) \in MidType /\ Good(tcp_queue_fin(t))
         /\ tcp_queue_fin(t).state = t.state
  <1> DEFINE skb == tcp_alloc_skb({"fin", "ack"}, 0)
  <1>1. {"fin", "ack"} \in SUBSET Flag BY DEF Flag
  <1>2. skb \in Skb BY <1>1, ModU32 DEF tcp_alloc_skb, Skb
  <1>3. tcp_queue_fin(t) = tcp_queue_transmit_skb(t, skb) BY DEF tcp_queue_fin
  <1> HIDE DEF skb
  <1> QED BY <1>2, <1>3, QueueBehindSyn

LEMMA CloseSafe ==
  ASSUME NEW t \in MidType, Good(t)
  PROVE  Safe(t, tcp_close(t))
  <1>1. CASE t.state = "ESTABLISHED"
    <2> DEFINE r == [t EXCEPT !.state = "FIN_WAIT_1"]
    <2>1. Connecting(t) BY <1>1 DEF Good, Fresh
    <2>2. "FIN_WAIT_1" \in ConnectingStates \ {"SYN_SENT"}
      BY DEF ConnectingStates
    <2>3. /\ r \in MidType /\ Good(r) /\ Connecting(r)
          /\ r.state = "FIN_WAIT_1"
      BY <1>1, <2>1, <2>2, StateGood DEF MidType, Sockets
    <2>4. tcp_close(t) = tcp_queue_fin(r) BY <1>1 DEF tcp_close
    <2> HIDE DEF r
    <2> QED BY <2>3, <2>4, QueueFinGood DEF Safe, Answered
  <1>2. CASE t.state = "CLOSE_WAIT"
    <2>1. Connecting(t) BY <1>2 DEF Good, Fresh
    <2>2. tcp_close(t) = tcp_queue_fin(t) BY <1>2 DEF tcp_close
    <2> QED BY <2>1, <2>2, QueueFinGood DEF Safe, Answered
  <1>3. CASE t.state \in {"LISTEN", "SYN_SENT", "SYN_RECEIVED"}
    <2>1. tcp_close(t) = tcp_done(t) BY <1>3 DEF tcp_close
    <2> QED BY <2>1, DoneDoomed DEF Safe
  <1>4. CASE t.state \notin {"ESTABLISHED", "CLOSE_WAIT", "LISTEN",
                             "SYN_SENT", "SYN_RECEIVED"}
    <2>1. tcp_close(t) = [t EXCEPT !.err = "EBADF"] BY <1>4 DEF tcp_close
    <2> QED BY <2>1, ErrSafe
  <1> QED BY <1>1, <1>2, <1>3, <1>4

\* The only handler that ever runs: it acknowledges, or dies of the pointer
\* that a later segment has nulled.
LEMMA SendDelackSafe ==
  ASSUME NEW t \in MidType, Good(t), t.out = <<>>, Answered(t)
  PROVE  Safe(t, tcp_send_delack(t))
  <1> DEFINE a == [t EXCEPT !.delacks = 0]
             b == Release(a, a.delack)
             c == [b EXCEPT !.delack = NULL]
             r == tcp_send_ack(c)
  <1>1. a \in MidType BY SmallBytes DEF MidType, Sockets
  <1> HIDE DEF a
  <1>2. b \in MidType /\ b = [a EXCEPT !.live = b.live] BY <1>1, ReleaseType
  <1>3. tcp_send_delack(t) = r
    BY DEF tcp_send_delack, tcp_release_delack_timer, a
  <1> HIDE DEF b
  <1>4. c \in MidType BY <1>2, NullPointer DEF MidType, Sockets
  <1>5. c = [t EXCEPT !.delacks = 0, !.live = b.live, !.delack = NULL]
    BY <1>2 DEF a, MidType, Sockets
  <1> HIDE DEF c
  <1>6. /\ Keeps(t, c) /\ c.cancelled = t.cancelled /\ c.delack = NULL
        /\ c.out = <<>>
    BY <1>5 DEF Keeps, MidType, Sockets
  <1>7. Good(c)
    BY <1>6, KeepsGood, PointerAssumption
       DEF PointerAssumption, Good, DelackTimers, Answered, OnWire, Keeps
  <1>8. Answered(c) BY <1>6 DEF Answered, Keeps
  <1>9. r \in MidType /\ Good(r) /\ r.state = c.state
    <2>1. c.state # "SYN_SENT" BY <1>8 DEF Answered
    <2>2. /\ r \in MidType /\ Good(r)
          /\ r = [c EXCEPT !.out = r.out, !.live = r.live]
      BY <1>4, <1>7, <2>1, SendAckGood, Zenon
    <2> HIDE DEF r
    <2> QED BY <1>4, <2>2 DEF MidType, Sockets
  <1> QED BY <1>3, <1>8, <1>9 DEF Safe, Answered

-----------------------------------------------------------------------------
(* Received text *)

\* An update that touches neither the connection nor its timers nor the wire.
Same(t, r) == /\ Keeps(t, r) /\ r.delack = t.delack
              /\ r.cancelled = t.cancelled /\ r.out = t.out

LEMMA SameGood ==
  ASSUME NEW t, NEW r, Same(t, r), Good(t)
  PROVE  /\ Good(r) /\ (Connecting(t) => Connecting(r))
         /\ (Answered(t) => Answered(r))
  <1>1. OnWire(r) BY DEF OnWire, Same, Keeps, Good
  <1>2. DelackTimers(r) BY DEF DelackTimers, Answered, Same, Keeps, Good
  <1>3. /\ Fresh(t) => Fresh(r)
        /\ Connecting(t) => Connecting(r)
    BY KeepsGood DEF Same
  <1> QED BY <1>1, <1>2, <1>3 DEF Good, Answered, Same, Keeps

LEMMA SameTransitive ==
  ASSUME NEW t, NEW r, NEW u, Same(t, r), Same(r, u)
  PROVE  Same(t, u)
  BY DEF Same, Keeps

\* What the control block sees of a received buffer.
RxSkb == [seq : SeqNum, data_len : Nat, end_seq : SeqNum]

LEMMA InitSegmentType ==
  ASSUME NEW seg \in SegmentType
  PROVE  /\ tcp_init_segment(seg) \in RxSkb
         /\ tcp_init_segment(seg).seq = seg.seq
         /\ tcp_init_segment(seg).data_len > 0
  <1>1. seg.seq \in SeqNum /\ seg.len \in Nat BY DEF SegmentType
  <1>2. HdrLen \in Nat /\ HdrLen > 0 BY SizeAssumption DEF SizeAssumption
  <1> DEFINE n == seg.len + 2 * HdrLen
  <1>3. n \in Nat /\ n > 0 BY <1>1, <1>2
  <1>4. tcp_init_segment(seg) =
          [seq |-> seg.seq, data_len |-> n, end_seq |-> (seg.seq + n) % U32]
    BY DEF tcp_init_segment
  <1> HIDE DEF n
  <1>5. seg.seq + n \in Nat BY <1>1, <1>3 DEF SeqNum
  <1> QED BY <1>1, <1>3, <1>4, <1>5, ModU32 DEF RxSkb

LEMMA WalkType ==
  ASSUME NEW t \in MidType
  PROVE  Walk(t) \in MidType /\ Walk(t) = [t EXCEPT !.live = Walk(t).live]
  <1>1. CASE \E i \in DOMAIN t.ofo_queue : t.ofo_queue[i].freed
    BY <1>1, CorruptType DEF Walk
  <1>2. CASE ~ \E i \in DOMAIN t.ofo_queue : t.ofo_queue[i].freed
    BY <1>2 DEF Walk, MidType, Sockets
  <1> QED BY <1>1, <1>2

LEMMA QueuedType ==
  ASSUME NEW skb \in RxSkb, NEW n \in Nat
  PROVE  Queued(skb, n) \in Received
  BY DEF Queued, Received, RxSkb

\* A walk over the leading entries passes some of them.
LEMMA PassedEntries ==
  ASSUME NEW q \in ReadQueue, NEW intact \in 0 .. Len(q),
         NEW S \in SUBSET DOMAIN SubSeq(q, 1, intact)
  PROVE  /\ Cardinality(S) \in 0 .. intact
         /\ S # {} => Cardinality(S) > 0
         /\ DOMAIN SubSeq(q, 1, intact) = 1 .. intact
         /\ \A i \in 1 .. intact : SubSeq(q, 1, intact)[i] = q[i]
  <1>1. q \in Seq(Received) BY DEF ReadQueue
  <1>2. intact \in Nat /\ intact <= Len(q) /\ Len(q) \in Nat BY <1>1
  <1>3. \A i \in 1 .. intact : q[i] \in Received BY <1>1, <1>2
  <1>4. /\ Len(SubSeq(q, 1, intact)) = intact
        /\ \A i \in 1 .. intact : SubSeq(q, 1, intact)[i] = q[i]
        /\ SubSeq(q, 1, intact) \in Seq(Received)
    BY <1>2, <1>3, SubSeqProperties
  <1>5. DOMAIN SubSeq(q, 1, intact) = 1 .. intact BY <1>4
  <1>6. IsFiniteSet(1 .. intact) /\ Cardinality(1 .. intact) = intact
    BY <1>2, FS_Interval
  <1>7. S \in SUBSET (1 .. intact) BY <1>5
  <1>8. IsFiniteSet(S) /\ Cardinality(S) <= intact BY <1>6, <1>7, FS_Subset
  <1>9. Cardinality(S) \in Nat BY <1>8, FS_CardinalityType
  <1>10. S # {} => Cardinality(S) # 0 BY <1>8, FS_EmptySet
  <1> QED BY <1>2, <1>4, <1>5, <1>8, <1>9, <1>10

LEMMA SubSeqQueue ==
  ASSUME NEW q \in ReadQueue, NEW m \in 1 .. Len(q) + 1, NEW n \in 0 .. Len(q)
  PROVE  SubSeq(q, m, n) \in ReadQueue
  <1>1. q \in Seq(Received) /\ Len(q) \in Nat BY DEF ReadQueue
  <1>2. \A i \in m .. n : q[i] \in Received BY <1>1
  <1>3. m \in Int /\ n \in Int BY <1>1
  <1> QED BY <1>2, <1>3, SubSeqProperties DEF ReadQueue

LEMMA InsertOrderedType ==
  ASSUME NEW t \in MidType, NEW skb \in RxSkb,
         NEW intact \in 0 .. Len(t.ofo_queue)
  PROVE  LET r == tcp_data_insert_ordered(t, skb, intact)
         IN  r \in MidType /\ Same(t, r) /\ r.rcv_nxt = t.rcv_nxt
  <1> DEFINE q == SubSeq(t.ofo_queue, 1, intact)
             precedes(i) == skb.seq < q[i].seq /\ skb.end_seq <= q[i].seq
             passed == {n \in DOMAIN q : \A i \in 1 .. n :
                          skb.seq # q[i].seq /\ ~precedes(i)}
             n == Cardinality(passed)
             w == Walk(t)
             o == IF n < Len(q) /\ skb.seq # q[n + 1].seq
                  THEN SubSeq(w.ofo_queue, 1, n) \o <<Queued(skb, 2)>>
                  ELSE Append(w.ofo_queue, Queued(skb, 1))
             r == [w EXCEPT !.ofo_queue = o]
  <1>1. t.ofo_queue \in ReadQueue /\ Len(t.ofo_queue) \in Nat
    BY DEF MidType, Sockets, ReadQueue
  <1>2. w \in MidType /\ w = [t EXCEPT !.live = w.live] BY WalkType
  <1>3. w.ofo_queue = t.ofo_queue
    <2> HIDE DEF w
    <2> QED BY <1>2 DEF MidType, Sockets
  <1>4. passed \in SUBSET DOMAIN SubSeq(t.ofo_queue, 1, intact) OBVIOUS
  <1>5. n \in 0 .. intact
    <2> HIDE DEF passed
    <2> QED BY <1>1, <1>4, PassedEntries
  <1>6. Queued(skb, 1) \in Received /\ Queued(skb, 2) \in Received
    BY QueuedType
  <1>7. tcp_data_insert_ordered(t, skb, intact) = r
    BY DEF tcp_data_insert_ordered, Readable
  <1> HIDE DEF n, w
  <1>8. SubSeq(w.ofo_queue, 1, n) \in ReadQueue
    BY <1>1, <1>3, <1>5, SubSeqQueue
  <1>9. o \in ReadQueue
    <2>1. \A s \in Seq(Received), e \in Received :
            Append(s, e) \in Seq(Received) /\ s \o <<e>> \in Seq(Received)
      OBVIOUS
    <2> QED BY <1>1, <1>3, <1>6, <1>8, <2>1 DEF ReadQueue
  <1> HIDE DEF o
  <1>10. r \in MidType BY <1>2, <1>9 DEF MidType, Sockets
  <1>11. Same(t, r) /\ r.rcv_nxt = t.rcv_nxt
    BY <1>2 DEF Same, Keeps, MidType, Sockets
  <1> QED BY <1>7, <1>10, <1>11

LEMMA ConsumeType ==
  ASSUME NEW t \in MidType, NEW intact \in 0 .. Len(t.ofo_queue)
  PROVE  LET r == tcp_consume_ofo_queue(t, intact)
         IN  r \in MidType /\ Same(t, r)
  <1> DEFINE q == SubSeq(t.ofo_queue, 1, intact)
             end(i) == (q[i].seq + q[i].data_len) % U32
             runs == {n \in DOMAIN q : /\ q[1].seq = t.rcv_nxt
                                       /\ \A i \in 2 .. n : q[i].seq = end(i - 1)}
             n == Cardinality(runs)
             w == Walk(t)
             x == end(n)
             o == SubSeq(w.ofo_queue, n + 1, Len(w.ofo_queue))
                  \o SubSeq(w.ofo_queue, 1, n)
             r == [w EXCEPT !.rcv_nxt = x, !.ofo_queue = o]
  <1>1. t.ofo_queue \in ReadQueue /\ Len(t.ofo_queue) \in Nat
    BY DEF MidType, Sockets, ReadQueue
  <1>2. w \in MidType /\ w = [t EXCEPT !.live = w.live] BY WalkType
  <1>3. w.ofo_queue = t.ofo_queue
    <2> HIDE DEF w
    <2> QED BY <1>2 DEF MidType, Sockets
  <1>4. runs \in SUBSET DOMAIN SubSeq(t.ofo_queue, 1, intact) OBVIOUS
  <1>5. /\ n \in 0 .. intact /\ (runs # {} => n > 0)
        /\ \A i \in 1 .. intact : q[i] = t.ofo_queue[i]
    <2> HIDE DEF runs
    <2> QED BY <1>1, <1>4, PassedEntries
  <1>6. tcp_consume_ofo_queue(t, intact) = IF runs = {} THEN w ELSE r
    BY SMTT(40) DEF tcp_consume_ofo_queue, Readable
  <1>7. CASE runs = {}
    <2> HIDE DEF w
    <2>1. Same(t, w) BY <1>2 DEF Same, Keeps, MidType, Sockets
    <2> QED BY <1>2, <1>6, <1>7, <2>1
  <1>8. CASE runs # {}
    <2>1. n \in 1 .. Len(t.ofo_queue)
      <3>1. n \in 0 .. intact /\ n > 0 BY <1>5, <1>8
      <3> HIDE DEF n
      <3> QED BY <1>1, <3>1
    <2>2. q[n] \in Received
      <3>1. n \in 0 .. intact /\ n > 0 BY <1>5, <1>8
      <3>2. \A i \in 1 .. intact : q[i] = t.ofo_queue[i] BY <1>5
      <3> HIDE DEF n, q
      <3> QED BY <1>1, <2>1, <3>1, <3>2 DEF ReadQueue
    <2>3. x \in SeqNum
      <3> HIDE DEF q, n
      <3>1. q[n].seq + q[n].data_len \in Nat BY <2>2 DEF Received, SeqNum
      <3> QED BY <3>1, ModU32
    <2> HIDE DEF n, w, x
    <2>4. /\ SubSeq(w.ofo_queue, n + 1, Len(w.ofo_queue)) \in ReadQueue
          /\ SubSeq(w.ofo_queue, 1, n) \in ReadQueue
      BY <1>1, <1>3, <2>1, SubSeqQueue, SMTT(40)
    <2>5. o \in ReadQueue
      <3>1. \A s, u \in Seq(Received) : s \o u \in Seq(Received) OBVIOUS
      <3> QED BY <2>4, <3>1 DEF ReadQueue
    <2> HIDE DEF o
    <2>6. r \in MidType BY <1>2, <2>3, <2>5 DEF MidType, Sockets
    <2>7. Same(t, r) BY <1>2 DEF Same, Keeps, MidType, Sockets
    <2> QED BY <1>6, <1>8, <2>6, <2>7
  <1> QED BY <1>7, <1>8

LEMMA PollIn ==
  ASSUME NEW t \in MidType
  PROVE  t.poll_events \cup {"IN"} \in Poll
  BY DEF MidType, Sockets, Poll

\* Established(t): a connection whose SYN was answered, in the middle of a call.
Established(t) == t \in MidType /\ Good(t) /\ Connecting(t) /\ Answered(t)

LEMMA SameEstablished ==
  ASSUME NEW t, NEW r \in MidType, Established(t), Same(t, r)
  PROVE  Established(r) /\ r.state = t.state
  BY SameGood DEF Established, Same, Keeps

LEMMA AckEstablished ==
  ASSUME NEW t, Established(t)
  PROVE  Established(tcp_send_ack(t)) /\ tcp_send_ack(t).state = t.state
  <1>1. t \in MidType /\ Good(t) /\ Connecting(t) /\ Answered(t)
    BY DEF Established
  <1>2. t.state # "SYN_SENT" BY <1>1 DEF Answered
  <1> DEFINE r == tcp_send_ack(t)
  <1>3. /\ r \in MidType /\ Good(r) /\ Connecting(r)
        /\ r = [t EXCEPT !.out = r.out, !.live = r.live]
    BY <1>1, <1>2, SendAckGood
  <1> HIDE DEF r
  <1>4. r.state = t.state BY <1>1, <1>3 DEF MidType, Sockets
  <1> QED BY <1>1, <1>3, <1>4 DEF Established, Answered, r

LEMMA DataQueueEstablished ==
  ASSUME NEW t, Established(t), NEW skb \in RxSkb,
         NEW intact \in 0 .. Len(t.ofo_queue)
  PROVE  LET r == tcp_data_queue(t, skb, intact)
         IN  Established(r) /\ r.state = t.state
  <1> DEFINE r == tcp_data_queue(t, skb, intact)
  <1>1. t \in MidType BY DEF Established
  <1>2. CASE t.rcv_wnd = 0
    <2>1. r = t BY <1>2 DEF tcp_data_queue
    <2> QED BY <2>1
  <1>3. CASE t.rcv_wnd # 0 /\ skb.seq = t.rcv_nxt
    <2> DEFINE d == IF \E i \in DOMAIN t.receive_queue : t.receive_queue[i].freed
                    THEN Corrupt(t) ELSE t
               n == (d.rcv_nxt + skb.data_len) % U32
               q == Append(d.receive_queue, Queued(skb, 1))
               e == d.poll_events \cup {"IN"}
               u == [d EXCEPT !.rcv_nxt = n, !.receive_queue = q,
                              !.poll_events = e]
    <2>1. d \in MidType /\ d = [t EXCEPT !.live = d.live]
      <3>1. CASE d = Corrupt(t) BY <1>1, <3>1, CorruptType
      <3>2. CASE d = t BY <1>1, <3>2 DEF MidType, Sockets
      <3> QED BY <3>1, <3>2
    <2>2. r = tcp_consume_ofo_queue(u, intact)
      BY <1>3 DEF tcp_data_queue
    <2> HIDE DEF d
    <2>3. n \in SeqNum
      <3>1. d.rcv_nxt + skb.data_len \in Nat
        BY <2>1 DEF MidType, Sockets, RxSkb, SeqNum
      <3> QED BY <3>1, ModU32
    <2>4. q \in ReadQueue
      <3>1. Queued(skb, 1) \in Received BY QueuedType
      <3>2. d.receive_queue \in Seq(Received)
        BY <2>1 DEF MidType, Sockets, ReadQueue
      <3> QED BY <3>1, <3>2 DEF ReadQueue
    <2>5. e \in Poll BY <2>1, PollIn
    <2>6. e = t.poll_events \cup {"IN"} BY <1>1, <2>1 DEF MidType, Sockets
    <2> HIDE DEF n, q, e
    <2>7. u \in MidType BY <2>1, <2>3, <2>4, <2>5 DEF MidType, Sockets
    <2>8. /\ u.state = t.state /\ u.sstate = t.sstate /\ u.err = t.err
          /\ u.iss = t.iss /\ u.snd_una = t.snd_una /\ u.snd_nxt = t.snd_nxt
          /\ u.inflight = t.inflight /\ u.write_queue = t.write_queue
          /\ u.poll_events = e /\ u.delack = t.delack
          /\ u.cancelled = t.cancelled /\ u.out = t.out
          /\ u.ofo_queue = t.ofo_queue
      BY <1>1, <2>1 DEF MidType, Sockets
    <2>9. Same(t, u) BY <2>6, <2>8 DEF Same, Keeps
    <2> HIDE DEF u, r
    <2>10. r \in MidType /\ Same(u, r) BY <2>2, <2>7, <2>8, ConsumeType
    <2> QED BY <2>9, <2>10, SameTransitive, SameEstablished DEF r
  <1>4. CASE t.rcv_wnd # 0 /\ skb.seq # t.rcv_nxt
    <2> DEFINE u == tcp_data_insert_ordered(t, skb, intact)
               c == Corrupt(u)
    <2>1. r = tcp_send_ack(c) BY <1>4 DEF tcp_data_queue
    <2>2. u \in MidType /\ Same(t, u) BY <1>1, InsertOrderedType
    <2> HIDE DEF u
    <2>3. c \in MidType /\ c = [u EXCEPT !.live = c.live]
      BY <2>2, CorruptType
    <2> HIDE DEF c
    <2>4. Same(u, c) BY <2>2, <2>3 DEF Same, Keeps, MidType, Sockets
    <2>5. Established(c) /\ c.state = t.state
      BY <2>2, <2>3, <2>4, SameTransitive, SameEstablished
    <2> QED BY <2>1, <2>5, AckEstablished
  <1> QED BY <1>2, <1>3, <1>4

LEMMA FinEstablished ==
  ASSUME NEW t, Established(t)
  PROVE  Established(InSequenceFin(t)) /\ InSequenceFin(t).state = t.state
  <1> DEFINE n == (t.rcv_nxt + 1) % U32
             f == t.flags \cup {"fin"}
             e == t.poll_events \cup {"IN"}
             u == [t EXCEPT !.rcv_nxt = n, !.flags = f, !.poll_events = e]
  <1>1. t \in MidType BY DEF Established
  <1>2. n \in SeqNum
    <2>1. t.rcv_nxt + 1 \in Nat BY <1>1 DEF MidType, Sockets, SeqNum
    <2> QED BY <2>1, ModU32
  <1>3. f \in TcpFlags BY <1>1 DEF MidType, Sockets, TcpFlags
  <1>4. e \in Poll BY <1>1, PollIn
  <1>5. "OUT" \in e => "OUT" \in t.poll_events OBVIOUS
  <1>6. InSequenceFin(t) = tcp_send_ack(u) BY DEF InSequenceFin
  <1> HIDE DEF n, f, e
  <1>7. u \in MidType BY <1>1, <1>2, <1>3, <1>4 DEF MidType, Sockets
  <1>8. Same(t, u) BY <1>1, <1>5 DEF Same, Keeps, MidType, Sockets
  <1> HIDE DEF u
  <1>9. Established(u) /\ u.state = t.state BY <1>7, <1>8, SameEstablished
  <1> QED BY <1>6, <1>9, AckEstablished

\* A FIN moves a connection on, and never to TIME_WAIT: its SYN is still queued.
LEMMA AfterFinEstablished ==
  ASSUME NEW t, Established(t)
  PROVE  Established(AfterFin(t))
  <1>1. t \in MidType /\ Good(t) /\ Connecting(t) /\ t.state # "SYN_SENT"
    BY DEF Established, Answered
  <1>2. "CLOSE_WAIT" \in ConnectingStates \ {"SYN_SENT"}
        /\ "CLOSING" \in ConnectingStates \ {"SYN_SENT"}
    BY DEF ConnectingStates
  <1> DEFINE w == [t EXCEPT !.state = "CLOSE_WAIT"]
             c == [t EXCEPT !.state = "CLOSING"]
  <1>3. /\ w \in MidType /\ Good(w) /\ Connecting(w)
        /\ c \in MidType /\ Good(c) /\ Connecting(c)
    BY <1>1, <1>2, StateGood
  <1>4. w.state = "CLOSE_WAIT" /\ c.state = "CLOSING"
    BY <1>1 DEF MidType, Sockets
  <1>5. AfterFin(t) \in {w, c, t}
    <2> DEFINE z == tcp_enter_time_wait(t)
    <2>1. t.write_queue # <<>> /\ t.state # "FIN_WAIT_2"
      BY <1>1 DEF Connecting, ConnectingStates
    <2>2. AfterFin(t) =
            CASE t.state \in {"ESTABLISHED", "SYN_RECEIVED"} -> w
              [] t.state = "FIN_WAIT_1" /\ t.write_queue # <<>> -> c
              [] \/ t.state = "FIN_WAIT_1" /\ t.write_queue = <<>>
                 \/ t.state = "FIN_WAIT_2" -> z
              [] OTHER -> t
      BY DEF AfterFin
    <2> HIDE DEF w, c, z
    <2>3. CASE t.state \in {"ESTABLISHED", "SYN_RECEIVED"} BY <2>2, <2>3
    <2>4. CASE t.state = "FIN_WAIT_1" BY <2>1, <2>2, <2>4
    <2>5. CASE t.state \notin {"ESTABLISHED", "SYN_RECEIVED", "FIN_WAIT_1"}
      BY <2>1, <2>2, <2>5
    <2> QED BY <2>3, <2>4, <2>5
  <1> HIDE DEF w, c
  <1> QED BY <1>3, <1>4, <1>5 DEF Established, Answered

LEMMA SetDelackGood ==
  ASSUME NEW t, Established(t), NEW p \in TimerPointers,
         p \in Timers => p.fn = "send_delack"
  PROVE  Established([t EXCEPT !.delack = p])
  <1> DEFINE r == [t EXCEPT !.delack = p]
  <1>1. t \in MidType BY DEF Established
  <1>2. r \in MidType BY <1>1 DEF MidType, Sockets
  <1>3. /\ Keeps(t, r) /\ r.delack = p /\ r.cancelled = t.cancelled
        /\ r.out = t.out
    BY <1>1 DEF Keeps, MidType, Sockets
  <1> HIDE DEF r
  <1>4. Connecting(r) /\ Answered(r)
    BY <1>3, KeepsGood DEF Established, Answered, Keeps
  <1>5. OnWire(r) BY <1>3 DEF OnWire, Keeps, Established, Good
  <1>6. DelackTimers(r)
    BY <1>3, <1>4 DEF DelackTimers, Established, Good
  <1> QED BY <1>2, <1>4, <1>5, <1>6 DEF Established, Good, r

LEMMA StopDelackEstablished ==
  ASSUME NEW t, Established(t)
  PROVE  LET s == tcp_stop_delack_timer(t)
         IN  Established(s) /\ s.inflight # 0 /\ s.write_queue = t.write_queue
             /\ s.delacks \in Byte
  <1> DEFINE p == t.delack
             c == Cancel(t, p)
             s == [c EXCEPT !.delack = NULL]
  <1>1. t \in MidType /\ p \in TimerPointers BY DEF Established, MidType, Sockets
  <1>2. /\ c \in MidType
        /\ c = [t EXCEPT !.live = c.live, !.cancelled = c.cancelled]
        /\ p \in Timers => c.cancelled = Append(t.cancelled, p)
        /\ p \notin Timers => c.cancelled = t.cancelled
    BY <1>1, CancelType
  <1>3. tcp_stop_delack_timer(t) = s BY DEF tcp_stop_delack_timer
  <1>4. \A i \in DOMAIN c.cancelled : c.cancelled[i].fn = "send_delack"
    <2>1. t.cancelled \in Seq(Timers) BY <1>1 DEF MidType, Sockets, TimerSeq
    <2>2. /\ \A i \in DOMAIN t.cancelled : t.cancelled[i].fn = "send_delack"
          /\ p \in Timers => p.fn = "send_delack"
      BY DEF Established, Good, DelackTimers
    <2> HIDE DEF p, c
    <2>3. CASE p \notin Timers BY <1>2, <2>2, <2>3
    <2>4. CASE p \in Timers
      <3>1. c.cancelled = Append(t.cancelled, p) BY <1>2, <2>4
      <3> QED BY <2>1, <2>2, <2>4, <3>1
    <2> QED BY <2>3, <2>4
  <1> HIDE DEF c
  <1>5. s \in MidType BY <1>2, NullPointer DEF MidType, Sockets
  <1>6. /\ Keeps(t, s) /\ s.delack = NULL /\ s.cancelled = c.cancelled
        /\ s.out = t.out
    BY <1>1, <1>2, ZenonT(60) DEF Keeps, MidType, Sockets
  <1> HIDE DEF s
  <1>7. Connecting(s) /\ Answered(s)
    BY <1>6, KeepsGood DEF Established, Answered, Keeps
  <1>8. OnWire(s) BY <1>6 DEF OnWire, Keeps, Established, Good
  <1>9. DelackTimers(s)
    BY <1>4, <1>6, <1>7, PointerAssumption
       DEF DelackTimers, PointerAssumption
  <1>10. Established(s) BY <1>5, <1>7, <1>8, <1>9 DEF Established, Good
  <1>11. s.delacks \in Byte BY <1>5 DEF MidType, Sockets
  <1> QED BY <1>3, <1>6, <1>7, <1>10, <1>11 DEF Connecting, Keeps

LEMMA DelayedAckEstablished ==
  ASSUME NEW t, Established(t), NEW seg, NEW skb \in RxSkb
  PROVE  Established(DelayedAck(t, seg, skb))
  <1> DEFINE s    == tcp_stop_delack_timer(t)
             full == skb.data_len > FullSize
             n    == (s.delacks + 1) % U8
             k    == IF "psh" \notin seg.flags /\ full
                     THEN [s EXCEPT !.delacks = n] ELSE s
             a    == [k EXCEPT !.delack = NULL]
             d    == [k EXCEPT !.delack = Create("send_delack")]
  <1>1. Established(s) /\ s.inflight # 0 /\ s.delacks \in Byte
    BY StopDelackEstablished
  <1>2. n \in Byte
    <2> HIDE DEF s
    <2>1. s.delacks + 1 \in Nat BY <1>1, WidthAssumption DEF WidthAssumption, Byte
    <2> QED BY <2>1, SmallBytes
  <1>3. DelayedAck(t, seg, skb) \in {tcp_send_ack(a), d, k}
    <2> HIDE DEF s
    <2>1. DelayedAck(t, seg, skb) =
            IF "psh" \in seg.flags \/ (full /\ n > 1) THEN tcp_send_ack(a)
            ELSE IF skb.data_len > 0 THEN d ELSE k
      BY <1>1 DEF DelayedAck, s
    <2> HIDE DEF a, d, k, n, full
    <2> QED BY <2>1
  <1> HIDE DEF s
  <1>4. Established(k)
    <2>1. CASE k = s BY <1>1, <2>1
    <2>2. CASE k = [s EXCEPT !.delacks = n]
      <3> DEFINE z == [s EXCEPT !.delacks = n]
      <3> HIDE DEF n
      <3>1. s \in MidType BY <1>1 DEF Established
      <3>2. z \in MidType BY <1>2, <3>1 DEF MidType, Sockets
      <3>3. Same(s, z) BY <3>1 DEF Same, Keeps, MidType, Sockets
      <3> HIDE DEF z
      <3>4. Established(z) BY <1>1, <3>2, <3>3, SameEstablished
      <3> QED BY <2>2, <3>4 DEF z
    <2> QED BY <2>1, <2>2
  <1> HIDE DEF k
  <1>5. Established(a)
    BY <1>4, NullPointer, SetDelackGood, PointerAssumption DEF PointerAssumption
  <1>6. Established(d)
    <2>1. "send_delack" \in TimerFn BY DEF TimerFn
    <2> QED BY <1>4, <2>1, CreateType, SetDelackGood
  <1>7. Established(tcp_send_ack(a)) BY <1>5, AckEstablished
  <1> QED BY <1>3, <1>4, <1>6, <1>7

LEMMA ProcessSegmentEstablished ==
  ASSUME NEW t, Established(t), NEW seg \in SegmentType,
         NEW intact \in 0 .. Len(t.ofo_queue)
  PROVE  Established(ProcessSegment(t, seg, intact))
  <1> DEFINE skb      == tcp_init_segment(seg)
             expected == skb.seq = t.rcv_nxt
             text     == "psh" \in seg.flags \/ skb.data_len > 0
             r        == IF t.state \in Receiving /\ text
                         THEN tcp_data_queue(t, skb, intact) ELSE t
             f        == IF "fin" \in seg.flags /\ expected
                         THEN AfterFin(InSequenceFin(r)) ELSE r
  <1>1. skb \in RxSkb BY InitSegmentType
  <1>2. ProcessSegment(t, seg, intact) =
          IF f.state \in Receiving /\ expected THEN DelayedAck(f, seg, skb)
          ELSE f
    BY DEF ProcessSegment
  <1> HIDE DEF skb
  <1>3. Established(r) BY <1>1, DataQueueEstablished
  <1> HIDE DEF r
  <1>4. Established(f) BY <1>3, FinEstablished, AfterFinEstablished
  <1> HIDE DEF f, expected
  <1>5. Established(DelayedAck(f, seg, skb)) BY <1>1, <1>4, DelayedAckEstablished
  <1> QED BY <1>2, <1>4, <1>5

\* The reply to a SYN is lost between two state tests; a RST kills the process.
LEMMA SynsentSafe ==
  ASSUME NEW t \in MidType, Good(t), t.state = "SYN_SENT", t.out = <<>>,
         NEW seg \in SegmentType
  PROVE  Safe(t, tcp_synsent(t, seg))
  <1> DEFINE n == (seg.seq + 1) % U32
             r == [t EXCEPT !.rcv_nxt = n]
             u == [r EXCEPT !.state = "SYN_RECEIVED", !.snd_una = r.iss]
  <1>1. Connecting(t) BY DEF Good, Fresh
  <1>2. n \in SeqNum
    <2>1. seg.seq + 1 \in Nat BY DEF SegmentType, SeqNum
    <2> QED BY <2>1, ModU32
  <1> HIDE DEF n
  <1>3. r \in MidType BY <1>2 DEF MidType, Sockets
  <1>4. r.snd_una = r.iss /\ r.iss \in Nat
    BY <1>1 DEF Connecting, MidType, Sockets, SeqNum
  <1>5. ~(r.snd_una > r.iss) BY <1>4
  <1>6. u.state = "SYN_RECEIVED" BY <1>3 DEF MidType, Sockets
  <1>7. tcp_send_synsack(u) = u
    <2> HIDE DEF u
    <2> QED BY <1>6 DEF tcp_send_synsack
  <1>8. \/ tcp_synsent(t, seg) = t
        \/ tcp_synsent(t, seg) = tcp_reset(t)
        \/ tcp_synsent(t, seg) = tcp_send_synsack(u)
    <2>1. tcp_synsent(t, seg) =
            IF "ack" \in seg.flags THEN t
            ELSE IF "rst" \in seg.flags THEN tcp_reset(t)
            ELSE IF "syn" \notin seg.flags THEN t
            ELSE IF r.snd_una > r.iss
                 THEN sock_connected(tcp_rearm_user_timeout(tcp_send_ack(
                        [r EXCEPT !.state = "ESTABLISHED", !.backoff = 0,
                                  !.snd_una = r.snd_nxt])))
                 ELSE tcp_send_synsack(u)
      BY DEF tcp_synsent, Synchronised, n
    <2> HIDE DEF r, u
    <2> QED BY <1>5, <2>1
  <1>9. Safe(t, t) BY DEF Safe
  <1>10. Safe(t, tcp_reset(t)) BY ResetDoomed DEF Safe
  <1>11. Safe(t, u)
    <2>1. u \in MidType
      <3>1. "SYN_RECEIVED" \in Tcp_State BY DEF Tcp_State
      <3>2. r.iss \in SeqNum BY <1>3 DEF MidType, Sockets
      <3> HIDE DEF r
      <3> QED BY <1>3, <3>1, <3>2 DEF MidType, Sockets
    <2>2. /\ u.sstate = t.sstate /\ u.err = t.err /\ u.iss = t.iss
          /\ u.snd_una = t.iss /\ u.snd_nxt = t.snd_nxt
          /\ u.inflight = t.inflight /\ u.write_queue = t.write_queue
          /\ u.poll_events = t.poll_events /\ u.delack = t.delack
          /\ u.cancelled = t.cancelled /\ u.out = <<>>
      BY DEF MidType, Sockets
    <2> HIDE DEF u
    <2>3. Connecting(u)
      BY <1>1, <1>6, <2>2 DEF Connecting, ConnectingStates
    <2>4. OnWire(u) BY <2>2 DEF OnWire
    <2>5. Answered(u) BY <1>6 DEF Answered
    <2>6. DelackTimers(u)
      BY <2>2, <2>5 DEF DelackTimers, Good
    <2> QED BY <2>1, <2>3, <2>4, <2>5, <2>6 DEF Safe, Good
  <1> HIDE DEF u
  <1> QED BY <1>7, <1>8, <1>9, <1>10, <1>11

\* No number is both above snd_una and below snd_nxt.
LEMMA NothingAcknowledged ==
  ASSUME NEW t, Established(t), NEW seg \in SegmentType
  PROVE  Acknowledge(t, seg) = t
  <1>1. t.iss \in Nat /\ seg.ack_seq \in Nat
    BY DEF Established, MidType, Sockets, SegmentType, SeqNum
  <1>2. t.snd_una = t.iss /\ t.snd_nxt = t.iss + 1
    BY DEF Established, Connecting
  <1>3. ~(AckAcceptable(t, seg) /\ seg.ack_seq # t.snd_una)
    BY <1>1, <1>2 DEF AckAcceptable
  <1> QED BY <1>3 DEF Acknowledge

LEMMA InputSafe ==
  ASSUME NEW t \in MidType, Good(t), t.out = <<>>, NEW seg \in SegmentType,
         NEW intact \in 0 .. Len(t.ofo_queue)
  PROVE  Safe(t, tcp_input_state(t, seg, intact))
  <1> DEFINE r == tcp_input_state(t, seg, intact)
             e == Establish(t)
             a == Acknowledge(e, seg)
             p == ProcessSegment(AllAcknowledged(a, seg), seg, intact)
  <1>1. CASE t.state = "CLOSE"
    <2>1. Fresh(t)
      BY <1>1 DEF Good, Connecting, ConnectingStates
    <2>2. r = t \/ r = tcp_send_reset(t)
      BY <1>1 DEF tcp_input_state, tcp_closed
    <2> QED BY <1>1, <2>1, <2>2, SendResetType DEF Safe, Answered
  <1>2. CASE t.state = "SYN_SENT"
    <2>1. r = tcp_synsent(t, seg) BY <1>2 DEF tcp_input_state
    <2> QED BY <1>2, <2>1, SynsentSafe
  <1>3. CASE Answered(t)
    <2>1. Connecting(t) BY <1>3 DEF Good, Fresh, Answered
    <2>2. Established(t) BY <1>3, <2>1 DEF Established
    <2>3. t.state # "LISTEN" BY <2>1 DEF Connecting, ConnectingStates
    <2>4. Established(e) /\ e.ofo_queue = t.ofo_queue
      <3> DEFINE x == [t EXCEPT !.state = "ESTABLISHED"]
      <3>1. "ESTABLISHED" \in ConnectingStates \ {"SYN_SENT"}
        BY DEF ConnectingStates
      <3>2. t.state # "SYN_SENT" BY <1>3 DEF Answered
      <3>3. /\ x \in MidType /\ Good(x) /\ Connecting(x)
            /\ x.ofo_queue = t.ofo_queue
        BY <2>1, <3>1, <3>2, StateGood
      <3>4. x.state = "ESTABLISHED" BY DEF MidType, Sockets
      <3>5. e = x \/ e = t BY DEF Establish
      <3> HIDE DEF x, e
      <3> QED BY <2>2, <3>3, <3>4, <3>5 DEF Established, Answered
    <2> HIDE DEF e
    <2>5. a = e BY <2>4, NothingAcknowledged
    <2>6. a.write_queue # <<>> /\ a.state # "LAST_ACK"
      <3>1. Connecting(e) BY <2>4 DEF Established
      <3> QED BY <2>5, <3>1 DEF Connecting, ConnectingStates
    <2>7. AllAcknowledged(a, seg) = e
      <3> HIDE DEF a
      <3> QED BY <2>5, <2>6 DEF AllAcknowledged
    <2>8. Established(p) BY <2>4, <2>7, ProcessSegmentEstablished
    <2>9. r \in {t, tcp_send_ack(t), tcp_enter_time_wait(t), p}
      <3>1. r = IF ~tcp_verify_segment(t, seg)
                THEN IF "rst" \in seg.flags THEN t ELSE tcp_send_ack(t)
                ELSE IF "rst" \in seg.flags THEN tcp_enter_time_wait(t)
                ELSE IF "syn" \in seg.flags \/ "ack" \notin seg.flags THEN t
                ELSE IF AckDropped(t, seg) THEN t
                ELSE IF a.write_queue = <<>> /\ a.state = "LAST_ACK"
                     THEN tcp_done(a) ELSE p
        BY <1>3, <2>3 DEF tcp_input_state, Answered, e
      <3> HIDE DEF r, a, p
      <3> QED BY <2>6, <3>1
    <2>10. Established(tcp_send_ack(t)) BY <2>2, AckEstablished
    <2>11. Doomed(tcp_enter_time_wait(t)) BY TimeWaitDoomed
    <2>12. Safe(t, r)
      <3> HIDE DEF r, p
      <3> QED BY <2>2, <2>8, <2>9, <2>10, <2>11 DEF Safe, Established
    <2> QED BY <2>12
  <1> QED BY <1>1, <1>2, <1>3 DEF Answered

-----------------------------------------------------------------------------
(* The inductive invariant *)

Safety == /\ proc \in {"up", "dead"}
          /\ tsk \in SocketType /\ (Good(tsk) \/ Gone(tsk))
          /\ handlers \in [TimerFn -> Nat]
          /\ \A fn \in TimerFn \ {"send_delack"} : handlers[fn] = 0
          /\ handlers["send_delack"] > 0 => Answered(tsk)

LEMMA SocketIsMid ==
  ASSUME NEW t \in SocketType
  PROVE  t \in MidType /\ t.live = {"up"}
  BY DEF SocketType, MidType, Sockets, LiveSets

LEMMA EnteredGood ==
  ASSUME tsk \in SocketType, Good(tsk)
  PROVE  /\ Entered \in SocketType /\ Entered \in MidType /\ Good(Entered)
         /\ Entered.out = <<>> /\ Entered.state = tsk.state
         /\ Entered.ofo_queue = tsk.ofo_queue
         /\ Fresh(Entered) <=> Fresh(tsk)
  <1> DEFINE e == [tsk EXCEPT !.out = <<>>]
  <1>1. e \in SocketType BY EmptyQueues DEF SocketType, Sockets
  <1>2. /\ Keeps(tsk, e) /\ e.delack = tsk.delack
        /\ e.cancelled = tsk.cancelled /\ e.out = <<>>
        /\ e.ofo_queue = tsk.ofo_queue /\ e.poll_events = tsk.poll_events
    BY DEF Keeps, SocketType, Sockets
  <1> HIDE DEF e
  <1>3. Good(e)
    BY <1>2, KeepsGood DEF Good, DelackTimers, Answered, OnWire, Keeps
  <1>4. Fresh(e) <=> Fresh(tsk) BY <1>2 DEF Fresh, Keeps
  <1> QED BY <1>1, <1>2, <1>3, <1>4, SocketIsMid DEF Entered, e, Keeps

\* Calls and segments find a socket that was not freed.
LEMMA InTableGood ==
  ASSUME Safety, ~tsk.freed
  PROVE  tsk \in SocketType /\ Good(tsk)
  BY DEF Safety, Gone

LEMMA GoneKept ==
  ASSUME NEW t, Gone(t), NEW r, r.freed = t.freed, r.state = t.state,
         r.sstate = t.sstate, r.out = <<>>, DelackTimers(r)
  PROVE  Gone(r)
  BY DEF Gone

\* A step that ends in Commit keeps the invariant of the socket.
LEMMA CommitSafe ==
  ASSUME NEW t, Safety, ~tsk.freed, Safe(Entered, t), Commit(t)
  PROVE  /\ proc' \in {"up", "dead"} /\ tsk' \in SocketType /\ Good(tsk')
         /\ Answered(tsk) => Answered(tsk')
  <1>0. tsk \in SocketType /\ Good(tsk) BY InTableGood
  <1>1. CASE "up" \in t.live /\ proc' = "up" /\ tsk' = [t EXCEPT !.live = {"up"}]
    <2> DEFINE r == [t EXCEPT !.live = {"up"}]
    <2>1. t \in MidType /\ Good(t) /\ (Answered(Entered) => Answered(t))
      BY <1>1 DEF Safe, Doomed
    <2>2. r \in SocketType BY <2>1 DEF SocketType, MidType, Sockets
    <2>3. Same(t, r) BY <2>1 DEF Same, Keeps, MidType, Sockets
    <2>4. Entered.state = tsk.state BY <1>0, EnteredGood
    <2> HIDE DEF r
    <2>5. Good(r) /\ (Answered(t) => Answered(r)) BY <2>1, <2>3, SameGood
    <2> QED BY <1>1, <2>1, <2>2, <2>4, <2>5 DEF Answered, r
  <1>2. CASE proc' = "dead" /\ tsk' = Entered
    BY <1>0, <1>2, EnteredGood DEF Answered
  <1> QED BY <1>1, <1>2 DEF Commit

\* A step that ends in Commit with a freed socket.
LEMMA CommitGone ==
  ASSUME NEW t \in MidType, Safety, Gone(t), t.state = tsk.state, Commit(t)
  PROVE  /\ proc' \in {"up", "dead"} /\ tsk' \in SocketType
         /\ Good(tsk') \/ Gone(tsk')
         /\ tsk'.state = tsk.state /\ tsk'.out = <<>>
         /\ proc' = "up" => tsk'.freed
  <1>1. CASE proc' = "up" /\ tsk' = [t EXCEPT !.live = {"up"}]
    <2> DEFINE r == [t EXCEPT !.live = {"up"}]
    <2>1. r \in SocketType BY DEF SocketType, MidType, Sockets
    <2>2. /\ r.freed = t.freed /\ r.state = t.state /\ r.sstate = t.sstate
          /\ r.out = t.out /\ r.delack = t.delack /\ r.cancelled = t.cancelled
      BY DEF MidType, Sockets
    <2> HIDE DEF r
    <2>3. DelackTimers(r) BY <2>2 DEF Gone, DelackTimers, Answered
    <2>4. Gone(r) BY <2>2, <2>3, GoneKept DEF Gone
    <2> QED BY <1>1, <2>1, <2>2, <2>4 DEF Gone, r
  <1>2. CASE proc' = "dead" /\ tsk' = Entered
    <2>1. tsk \in SocketType /\ (Good(tsk) \/ Gone(tsk)) BY DEF Safety
    <2>2. /\ Entered \in SocketType /\ Entered.out = <<>>
          /\ Entered.state = tsk.state /\ Entered.sstate = tsk.sstate
          /\ Entered.freed = tsk.freed /\ Entered.delack = tsk.delack
          /\ Entered.cancelled = tsk.cancelled
      BY <2>1, EmptyQueues DEF Entered, SocketType, Sockets
    <2>3. CASE Good(tsk) BY <1>2, <2>1, <2>2, <2>3, EnteredGood
    <2>4. CASE Gone(tsk)
      <3>1. DelackTimers(Entered)
        BY <2>2, <2>4 DEF Gone, DelackTimers, Answered
      <3>2. Gone(Entered) BY <2>2, <2>4, <3>1, GoneKept
      <3> QED BY <1>2, <2>2, <3>2
    <2> QED BY <2>1, <2>3, <2>4
  <1> QED BY <1>1, <1>2 DEF Commit

\* A handler that works on a freed Sock.
LEMMA EnteredGone ==
  ASSUME Safety, tsk.freed
  PROVE  /\ Corrupt(Entered) \in MidType /\ Gone(Corrupt(Entered))
         /\ Corrupt(Entered).state = tsk.state
  <1> DEFINE e == Entered
             c == Corrupt(e)
  <1>1. e \in SocketType /\ e \in MidType
    <2>1. e \in SocketType
      BY EmptyQueues DEF Safety, Entered, SocketType, Sockets
    <2> QED BY <2>1, SocketIsMid
  <1>2. /\ e.out = <<>> /\ e.state = tsk.state /\ e.sstate = tsk.sstate
        /\ e.freed = tsk.freed /\ e.delack = tsk.delack
        /\ e.cancelled = tsk.cancelled
    BY DEF Safety, Entered, SocketType, Sockets
  <1> HIDE DEF e
  <1>3. c \in MidType /\ c = [e EXCEPT !.live = c.live]
    BY <1>1, CorruptType
  <1> HIDE DEF c
  <1>4. /\ c.out = <<>> /\ c.state = tsk.state /\ c.sstate = tsk.sstate
        /\ c.freed = tsk.freed /\ c.delack = tsk.delack
        /\ c.cancelled = tsk.cancelled
    BY <1>1, <1>2, <1>3 DEF MidType, Sockets
  <1>5. DelackTimers(c)
    BY <1>4 DEF Safety, Good, Gone, DelackTimers, Answered
  <1>6. Gone(c)
    BY <1>4, <1>5 DEF Safety, Gone, Good, Fresh, Connecting
  <1> QED BY <1>3, <1>4, <1>6 DEF c, e

LEMMA SafetyInit == Init => Safety
  <1> SUFFICES ASSUME Init PROVE Safety
    OBVIOUS
  <1>1. PICK e \in {"OK", "GARBAGE"}, n \in Uninit32, i \in Uninit32,
             d \in Uninit8 :
          tsk = [state |-> "CLOSE", sstate |-> "UNCONNECTED", nonblock |-> FALSE,
            err |-> e, poll_events |-> {}, iss |-> 0, snd_una |-> 0,
            snd_nxt |-> n, rcv_nxt |-> 0, rcv_wnd |-> 0, inflight |-> i,
            backoff |-> 0, delacks |-> d, flags |-> {}, write_queue |-> <<>>,
            receive_queue |-> <<>>, ofo_queue |-> <<>>, retransmit |-> UNINIT,
            delack |-> UNINIT, keepalive |-> UNINIT, linger |-> UNINIT,
            cancelled |-> <<>>, out |-> <<>>, freed |-> FALSE, live |-> {"up"}]
    BY DEF Init, FreshSockets
  <1>2. /\ "CLOSE" \in Tcp_State /\ "UNCONNECTED" \in Socket_State
        /\ e \in Errno /\ {} \in Poll /\ {} \in TcpFlags
        /\ UNINIT \in TimerPointers
    BY DEF Tcp_State, Socket_State, Errno, Poll, TcpFlags, TimerPointers
  <1>3. n \in SeqNum /\ i \in SeqNum /\ d \in Byte
    BY UninitAssumption DEF UninitAssumption, Byte
  <1>4. tsk \in SocketType
    BY <1>1, <1>2, <1>3, EmptyQueues, ModU32, SmallBytes DEF SocketType, Sockets
  <1>5. /\ tsk.state = "CLOSE" /\ tsk.sstate = "UNCONNECTED"
        /\ tsk.write_queue = <<>> /\ tsk.poll_events = {}
        /\ tsk.delack = UNINIT /\ tsk.cancelled = <<>> /\ tsk.out = <<>>
    BY <1>1
  <1>6. Good(tsk)
    BY <1>5, PointerAssumption
       DEF PointerAssumption, Good, Fresh, DelackTimers, OnWire
  <1> QED BY <1>4, <1>6 DEF Init, Safety, TimerFn

-----------------------------------------------------------------------------
(* Every step keeps the invariant *)

\* The clock changes nothing of a timer but whether it is due.
LEMMA ExpiredType ==
  ASSUME NEW p \in TimerPointers
  PROVE  /\ Expired(p) \in TimerPointers
         /\ Expired(p) \in Timers <=> p \in Timers
         /\ p \in Timers => Expired(p).fn = p.fn
  <1>1. CASE p \in Timers
    BY <1>1 DEF Expired, Timers, TimerPointers
  <1>2. CASE p \notin Timers
    BY <1>2 DEF Expired
  <1> QED BY <1>1, <1>2

\* A step of the application or of the peer leaves the handlers alone.
LEMMA CommitKeepsSafety ==
  ASSUME NEW t, Safety, ~tsk.freed, Safe(Entered, t), Commit(t),
         UNCHANGED handlers
  PROVE  Safety'
  BY CommitSafe DEF Safety

LEMMA SetFlagsSafety ==
  ASSUME Safety, NEW nonblock \in BOOLEAN, SetFlags(nonblock)
  PROVE  Safety'
  <1> DEFINE e == Entered
             r == [e EXCEPT !.nonblock = nonblock]
  <1>0. ~tsk.freed BY DEF SetFlags, InTable
  <1>1. e \in MidType /\ Good(e) BY <1>0, InTableGood, EnteredGood
  <1> HIDE DEF e
  <1>2. r \in MidType BY <1>1 DEF MidType, Sockets
  <1>3. Same(e, r) BY <1>1 DEF Same, Keeps, MidType, Sockets
  <1> HIDE DEF r
  <1>4. Safe(e, r) BY <1>1, <1>2, <1>3, SameGood DEF Safe
  <1>5. Commit(r) /\ UNCHANGED handlers BY DEF SetFlags, r, e
  <1> QED BY <1>0, <1>4, <1>5, CommitKeepsSafety DEF e

LEMMA ConnectSafety == Safety /\ Connect => Safety'
  <1> SUFFICES ASSUME Safety, Connect PROVE Safety'
    OBVIOUS
  <1>1. PICK addr \in Sockaddr, iss \in Iss : Commit(connect(Entered, addr, iss))
    BY DEF Connect
  <1>2. ~tsk.freed /\ UNCHANGED handlers BY DEF Connect, InTable
  <1>3. /\ Entered \in MidType /\ Good(Entered) /\ Entered.out = <<>>
        /\ Entered.state = tsk.state
    BY <1>2, InTableGood, EnteredGood
  <1>4. connect(Entered, addr, iss) =
          IF addr = "inet" THEN ConnectSwitch(Entered, iss) ELSE inet_free(Entered)
    BY <1>3, ConnectCases
  <1>5. CASE addr = "inet"
    <2>1. Safe(Entered, ConnectSwitch(Entered, iss))
      BY <1>3, ConnectSwitchSafe
    <2> QED BY <1>1, <1>2, <1>4, <1>5, <2>1, CommitKeepsSafety
  <1>6. CASE addr # "inet"
    <2>1. /\ inet_free(Entered) \in MidType /\ Gone(inet_free(Entered))
          /\ inet_free(Entered).state = tsk.state
      BY <1>3, FreeGone
    <2>2. Commit(inet_free(Entered)) BY <1>1, <1>4, <1>6
    <2> QED BY <1>2, <2>1, <2>2, CommitGone DEF Safety, Answered
  <1> QED BY <1>5, <1>6

LEMMA WriteSafety == Safety /\ Write => Safety'
  <1> SUFFICES ASSUME Safety, Write PROVE Safety'
    OBVIOUS
  <1>1. PICK len \in Writes : Commit(tcp_write(Entered, len))
    BY DEF Write
  <1>2. ~tsk.freed /\ UNCHANGED handlers BY DEF Write, InTable
  <1>3. Safe(Entered, tcp_write(Entered, len))
    BY <1>2, InTableGood, EnteredGood, WriteSafe
  <1> QED BY <1>1, <1>2, <1>3, CommitKeepsSafety

LEMMA ReceiveSafety ==
  ASSUME Safety, NEW seg \in Segments, Receive(seg)
  PROVE  Safety'
  <1>1. PICK intact \in 0 .. Len(tsk.ofo_queue) :
          Commit(tcp_input_state(Entered, seg, intact))
    BY DEF Receive
  <1>2. seg \in SegmentType BY SegmentAssumption DEF SegmentAssumption
  <1>3. ~tsk.freed /\ UNCHANGED handlers BY DEF Receive, InTable
  <1>4. Safe(Entered, tcp_input_state(Entered, seg, intact))
    BY <1>1, <1>2, <1>3, InTableGood, EnteredGood, InputSafe
  <1> QED BY <1>1, <1>3, <1>4, CommitKeepsSafety

LEMMA TickSafety == Safety /\ TickAdvances => Safety'
  <1> SUFFICES ASSUME Safety, TickAdvances PROVE Safety'
    OBVIOUS
  <1>1. PICK r \in BOOLEAN, d \in BOOLEAN, l \in BOOLEAN,
             c \in SUBSET DOMAIN tsk.cancelled : ClockAdvances(r, d, l, c)
    BY DEF TickAdvances
  <1> DEFINE nr == IF r THEN Expired(tsk.retransmit) ELSE tsk.retransmit
             nd == IF d THEN Expired(tsk.delack) ELSE tsk.delack
             nl == IF l THEN Expired(tsk.linger) ELSE tsk.linger
             nc == [i \in DOMAIN tsk.cancelled |->
                      IF i \in c THEN Expired(tsk.cancelled[i])
                      ELSE tsk.cancelled[i]]
             n == [tsk EXCEPT !.retransmit = nr, !.delack = nd, !.linger = nl,
                              !.cancelled = nc, !.out = <<>>]
  <1>2. tsk' = n /\ UNCHANGED <<proc, handlers>>
    BY <1>1 DEF ClockAdvances
  <1>3. /\ tsk \in SocketType /\ tsk.retransmit \in TimerPointers
        /\ tsk.delack \in TimerPointers /\ tsk.linger \in TimerPointers
        /\ tsk.cancelled \in Seq(Timers)
    BY DEF Safety, SocketType, Sockets, TimerSeq
  <1>4. nr \in TimerPointers /\ nd \in TimerPointers /\ nl \in TimerPointers
    BY <1>3, ExpiredType
  <1>5. /\ nd \in Timers <=> tsk.delack \in Timers
        /\ nd \in Timers => nd.fn = tsk.delack.fn
    BY <1>3, ExpiredType
  <1>6. \A i \in DOMAIN tsk.cancelled :
          nc[i] \in Timers /\ nc[i].fn = tsk.cancelled[i].fn
    <2> TAKE i \in DOMAIN tsk.cancelled
    <2>1. tsk.cancelled[i] \in Timers BY <1>3
    <2> QED BY <2>1, ExpiredType DEF TimerPointers
  <1>7. nc \in TimerSeq /\ DOMAIN nc = DOMAIN tsk.cancelled
    <2>1. PICK k \in Nat : DOMAIN tsk.cancelled = 1 .. k
      BY <1>3, LenProperties
    <2>2. nc \in [1 .. k -> Timers] BY <1>6, <2>1
    <2>3. [1 .. k -> Timers] \subseteq Seq(Timers) BY <2>1
    <2> HIDE DEF nc
    <2> QED BY <2>1, <2>2, <2>3 DEF TimerSeq
  <1>8. nc # <<>> <=> tsk.cancelled # <<>>
    BY <1>3, <1>7 DEF TimerSeq
  <1> HIDE DEF nr, nd, nl, nc
  <1>9. n \in SocketType
    BY <1>3, <1>4, <1>7, EmptyQueues DEF SocketType, Sockets
  <1>10. /\ Keeps(tsk, n) /\ n.delack = nd /\ n.cancelled = nc /\ n.out = <<>>
         /\ n.freed = tsk.freed
    BY <1>3 DEF Keeps, SocketType, Sockets
  <1> HIDE DEF n
  <1>11. Good(tsk) \/ Gone(tsk) BY DEF Safety
  <1>12. DelackTimers(n) /\ (Answered(tsk) <=> Answered(n))
    BY <1>5, <1>6, <1>7, <1>8, <1>10, <1>11
       DEF DelackTimers, Good, Gone, Answered, Keeps
  <1>13. OnWire(n) BY <1>10 DEF OnWire
  <1>14. Good(n) \/ Gone(n)
    BY <1>10, <1>11, <1>12, <1>13, KeepsGood, GoneKept DEF Good, Keeps
  <1> QED BY <1>2, <1>9, <1>12, <1>14 DEF Safety

LEMMA RunHandlerSafety ==
  ASSUME Safety, NEW fn \in TimerFn, RunHandler(fn)
  PROVE  Safety'
  <1>1. /\ fn = "send_delack" /\ handlers[fn] > 0 /\ Answered(tsk)
        /\ handlers' = [handlers EXCEPT ![fn] = @ - 1]
    BY DEF RunHandler, Safety
  <1>2. PICK giveup \in BOOLEAN :
          Commit(IF tsk.freed THEN Corrupt(Entered)
                 ELSE Handle(Entered, fn, giveup))
    BY DEF RunHandler
  <1>3. /\ proc' \in {"up", "dead"} /\ tsk' \in SocketType
        /\ Good(tsk') \/ Gone(tsk')
        /\ Answered(tsk')
    <2>1. CASE ~tsk.freed
      <3>1. /\ Entered \in MidType /\ Good(Entered) /\ Entered.out = <<>>
            /\ Entered.state = tsk.state
        BY <2>1, InTableGood, EnteredGood
      <3>2. Answered(Entered) BY <1>1, <3>1 DEF Answered
      <3>3. Handle(Entered, fn, giveup) = tcp_send_delack(Entered)
        BY <1>1 DEF Handle
      <3>4. Safe(Entered, tcp_send_delack(Entered))
        BY <3>1, <3>2, SendDelackSafe
      <3> QED BY <1>1, <1>2, <2>1, <3>3, <3>4, CommitSafe
    <2>2. CASE tsk.freed
      <3>1. Commit(Corrupt(Entered)) BY <1>2, <2>2
      <3> QED BY <1>1, <2>2, <3>1, EnteredGone, CommitGone DEF Answered
    <2> QED BY <2>1, <2>2
  <1>4. /\ handlers' \in [TimerFn -> Nat]
        /\ \A g \in TimerFn \ {"send_delack"} : handlers'[g] = 0
    BY <1>1 DEF Safety
  <1> QED BY <1>3, <1>4 DEF Safety

\* A sweep starts handlers of cancelled timers only, and those are delayed
\* acknowledgements.
LEMMA SweepSafety == Safety /\ timers_tick => Safety'
  <1> SUFFICES ASSUME Safety, timers_tick PROVE Safety'
    OBVIOUS
  <1> DEFINE armed == {p \in {tsk.retransmit, tsk.delack, tsk.linger} :
                         p \in Timers}
             gone(fn) == {i \in DOMAIN tsk.cancelled :
                            /\ tsk.cancelled[i].fn = fn
                            /\ TimerFires(tsk.cancelled[i], TRUE)}
             live(fn) == {p \in armed : p.fn = fn /\ TimerFires(p, FALSE)}
             fired(fn) == Cardinality(gone(fn)) + Cardinality(live(fn))
             n == [tsk EXCEPT !.cancelled = <<>>, !.out = <<>>]
  <1>1. /\ handlers' = [fn \in TimerFn |-> handlers[fn] + fired(fn)]
        /\ tsk' = n /\ proc' = proc
    BY DEF timers_tick
  <1>2. /\ tsk \in SocketType /\ tsk.cancelled \in Seq(Timers)
        /\ Good(tsk) \/ Gone(tsk)
        /\ DelackTimers(tsk)
    BY DEF Safety, Good, Gone, SocketType, Sockets, TimerSeq
  <1>3. \A fn : live(fn) = {} BY DEF TimerFires
  <1>4. \A fn : Cardinality(gone(fn)) \in Nat
    <2> TAKE fn
    <2>1. IsFiniteSet(DOMAIN tsk.cancelled)
      <3>1. DOMAIN tsk.cancelled = 1 .. Len(tsk.cancelled)
            /\ Len(tsk.cancelled) \in Nat
        BY <1>2, LenProperties
      <3> QED BY <3>1, FS_Interval
    <2>2. IsFiniteSet(gone(fn)) BY <2>1, FS_Subset
    <2> QED BY <2>2, FS_CardinalityType
  <1>5. Cardinality({}) = 0 BY FS_EmptySet
  <1>6. \A fn : fired(fn) = Cardinality(gone(fn)) /\ fired(fn) \in Nat
    <2> TAKE fn
    <2> HIDE DEF gone, live
    <2>1. Cardinality(live(fn)) = 0 BY <1>3, <1>5
    <2> QED BY <1>4, <2>1
  <1>7. \A fn \in TimerFn \ {"send_delack"} : gone(fn) = {}
    BY <1>2 DEF DelackTimers
  <1>8. fired("send_delack") > 0 => Answered(tsk)
    <2>1. CASE tsk.cancelled = <<>>
      <3>1. gone("send_delack") = {} BY <1>2, <2>1
      <3> HIDE DEF gone, fired
      <3>2. fired("send_delack") = 0 BY <1>5, <1>6, <3>1
      <3> QED BY <3>2
    <2>2. CASE tsk.cancelled # <<>>
      BY <1>2, <2>2 DEF DelackTimers
    <2> QED BY <2>1, <2>2
  <1>9. \A fn \in TimerFn \ {"send_delack"} : fired(fn) = 0
    BY <1>5, <1>6, <1>7
  <1> HIDE DEF fired
  <1>10. /\ handlers' \in [TimerFn -> Nat]
         /\ \A fn \in TimerFn \ {"send_delack"} : handlers'[fn] = 0
         /\ handlers'["send_delack"] > 0 => Answered(tsk)
    BY <1>1, <1>6, <1>8, <1>9 DEF Safety, TimerFn
  <1>11. <<>> \in TimerSeq BY DEF TimerSeq
  <1>12. n \in SocketType
    BY <1>2, <1>11, EmptyQueues DEF SocketType, Sockets
  <1>13. /\ Keeps(tsk, n) /\ n.delack = tsk.delack /\ n.cancelled = <<>>
         /\ n.out = <<>> /\ n.freed = tsk.freed
    BY <1>2 DEF Keeps, SocketType, Sockets
  <1> HIDE DEF n
  <1>14. /\ Good(n) \/ Gone(n)
         /\ Answered(tsk) => Answered(n)
    <2>1. DelackTimers(n) /\ OnWire(n) /\ (Answered(tsk) => Answered(n))
      BY <1>2, <1>13 DEF DelackTimers, OnWire, Answered, Keeps
    <2> QED BY <1>2, <1>13, <2>1, KeepsGood, GoneKept DEF Good, Keeps
  <1> QED BY <1>1, <1>10, <1>12, <1>14 DEF Safety

LEMMA SafetyNext == Safety /\ [Next]_vars => Safety'
  <1> SUFFICES ASSUME Safety, [Next]_vars PROVE Safety'
    OBVIOUS
  <1>1. ASSUME NEW nonblock \in BOOLEAN, SetFlags(nonblock) PROVE Safety'
    BY <1>1, SetFlagsSafety
  <1>2. CASE Connect BY <1>2, ConnectSafety
  <1>3. CASE Write BY <1>3, WriteSafety
  <1>4. CASE Read
    <2>1. ~tsk.freed BY <1>4 DEF Read, InTable
    <2>2. Safe(Entered, tcp_read(Entered))
      BY <2>1, InTableGood, EnteredGood, ReadSafe
    <2> QED BY <1>4, <2>1, <2>2, CommitKeepsSafety DEF Read
  <1>5. CASE Close
    <2>1. ~tsk.freed BY <1>5 DEF Close, InTable
    <2>2. Safe(Entered, tcp_close(Entered))
      BY <2>1, InTableGood, EnteredGood, CloseSafe
    <2> QED BY <1>5, <2>1, <2>2, CommitKeepsSafety DEF Close
  <1>6. CASE Abort
    <2>1. ~tsk.freed BY <1>6 DEF Abort, InTable
    <2>2. Safe(Entered, tcp_abort(Entered))
      BY <2>1, InTableGood, EnteredGood, AbortDoomed DEF Safe
    <2> QED BY <1>6, <2>1, <2>2, CommitKeepsSafety DEF Abort
  <1>7. ASSUME NEW seg \in Segments, Receive(seg) PROVE Safety'
    BY <1>7, ReceiveSafety
  <1>8. CASE TickAdvances BY <1>8, TickSafety
  <1>9. CASE timers_tick BY <1>9, SweepSafety
  <1>10. ASSUME NEW fn \in TimerFn, RunHandler(fn) PROVE Safety'
    BY <1>10, RunHandlerSafety
  <1>11. CASE UNCHANGED vars BY <1>11 DEF vars, Safety, Good, Gone, Fresh,
         Connecting, DelackTimers, Answered, OnWire
  <1> QED BY <1>1, <1>2, <1>3, <1>4, <1>5, <1>6, <1>7, <1>8, <1>9, <1>10,
            <1>11 DEF Next

\* Whatever the application, the peer and the clock do, the socket is fresh,
\* connecting or freed: the invariant that the theorems below are read off from.
THEOREM SocketSafety == Spec => []Safety
  BY SafetyInit, SafetyNext, PTL DEF Spec

-----------------------------------------------------------------------------
(* Theorems *)

\* Every field keeps its type, whatever the peer sends: sequence numbers and
\* counters stay inside their width, and a timer pointer is null, garbage or a
\* timer.
THEOREM TypeCorrect == Spec => []TypeOK
  <1>1. Safety => TypeOK BY DEF Safety, TypeOK
  <1> QED BY <1>1, SocketSafety, PTL

\* tcp_input_state refuses the one number that acknowledges the SYN, so the SYN
\* heads the write queue of every socket that connected, until it is freed.
THEOREM SynStaysPinned == Spec => []SynPinned
  <1>1. Safety => SynPinned
    <2> SUFFICES ASSUME Safety, InTable, tsk.state # "CLOSE" PROVE SynPinned
      BY DEF SynPinned
    <2>1. Connecting(tsk) BY InTableGood DEF InTable, Good, Fresh
    <2>2. tsk.write_queue \in Seq(Skb)
      BY DEF Safety, SocketType, Sockets, WriteQueue
    <2>3. Head(tsk.write_queue) = tsk.write_queue[1] BY <2>2
    <2> QED BY <2>1, <2>3 DEF SynPinned, Connecting
  <1> QED BY <1>1, SocketSafety, PTL

\* A RST of a closed socket, the SYN, and pure acknowledgements are all that
\* tcp_transmit_skb ever hands to IP.
THEOREM NoTextOrFinOnWire == Spec => []OnlySynAndAckOnWire
  <1>1. Safety => OnlySynAndAckOnWire
    BY DEF Safety, Good, Gone, OnWire, MayBeSent, OnlySynAndAckOnWire
  <1> QED BY <1>1, SocketSafety, PTL

\* timers_tick fires cancelled timers, and of all timers only the delayed
\* acknowledgement is ever cancelled by a process that survives it.
THEOREM OtherHandlersNeverRun == Spec => []OnlyDelackHandlerRuns
  <1>1. Safety => OnlyDelackHandlerRuns
    BY DEF Safety, OnlyDelackHandlerRuns
  <1> QED BY <1>1, SocketSafety, PTL

\* The functions that go through tcp_clear_timers kill the process, and the
\* branches that set FIN_WAIT_2, TIME_WAIT or LAST_ACK without it are never
\* reached; a refused connect frees a socket in the state it is in.
THEOREM TearDownNeverSurvives == Spec => []NeverTornDown
  <1>1. Safety => NeverTornDown
    BY DEF Safety, Good, Gone, Fresh, Connecting, ConnectingStates,
           NeverTornDown
  <1> QED BY <1>1, SocketSafety, PTL

\* sock_connected is out of reach: its guard asks for a snd_una above iss.
THEOREM ConnectNeverSucceeds == Spec => []ConnectNeverCompletes
  <1>1. Safety => ConnectNeverCompletes
    BY InTableGood DEF InTable, Good, Fresh, Connecting, ConnectNeverCompletes
  <1> QED BY <1>1, SocketSafety, PTL

=============================================================================
