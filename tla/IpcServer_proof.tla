---------------------------- MODULE IpcServer_proof ----------------------------
(***************************************************************************)
(* Proofs about IpcServer for any number of clients and descriptors.  The  *)
(* invariant has three parts: the types; how the accept loop, the list and *)
(* the descriptors hang together (Bound), which says that a descriptor     *)
(* leads to one serving thread only; and what is on the way on a channel   *)
(* whose tails were read whole (Exchange).                                 *)
(***************************************************************************)
EXTENDS IpcServer, QueueLemmas, FiniteSetTheorems

-----------------------------------------------------------------------------
(* The invariant *)

\* A client that still sends has pieces left, and one that waits has none.
ClientTyped ==
  /\ client \in [Clients ->
       [pc : {"new", "idle", "sending", "waiting", "closed"},
        call : Calls \cup {NULL}, left : 0 .. MaxRest]]
  /\ \A c \in Clients : client[c].pc = "sending" <=> client[c].left # 0

ChannelsTyped ==
  /\ up \in [Clients -> Seq(Pieces)] /\ down \in [Clients -> Seq(Calls)]
  /\ torn \subseteq Clients

\* A thread runs a call, and a tail has pieces.
ThreadTyped ==
  /\ thread \in [Clients ->
       [pc : {"none", "starting", "reading", "tail", "running", "close", "free",
              "freeFailed", "throw", "ended", "left"},
        fd : Fds \cup {NULL}, call : Calls \cup {NULL}, want : 0 .. MaxRest]]
  /\ \A c \in Clients :
       /\ thread[c].pc = "tail" => thread[c].want # 0
       /\ thread[c].pc = "running" => thread[c].call \in Calls

TableTyped ==
  /\ files \in [Fds -> Clients \cup {NULL}]
  /\ backlog \in Seq(Clients)
  /\ acceptor \in [pc : {"accept", "enlist", "start", "setId"},
                   conn : Clients \cup {NULL}]
  /\ sockets_queue \in Seq(Clients) /\ socket_count \in Nat
  /\ proc \in {"up", "down"}

Typed == ClientTyped /\ ChannelsTyped /\ ThreadTyped /\ TableTyped

\* Nobody has a channel before accept returns it.
Newcomers ==
  /\ NoDuplicates(backlog)
  /\ \A c \in Clients :
       /\ client[c].pc = "new" => c \notin Range(backlog)
       /\ client[c].pc = "new" \/ c \in Range(backlog) =>
            /\ thread[c].pc = "none" /\ c \notin Range(sockets_queue)
            /\ c # acceptor.conn

\* The descriptor of c is open and c's.
Connected(c) == thread[c].fd \in Fds /\ files[thread[c].fd] = c

\* The channel that is being set up.
Accepted ==
  /\ acceptor.pc \in {"enlist", "start"} =>
       /\ acceptor.conn \in Clients /\ thread[acceptor.conn].pc = "none"
       /\ Connected(acceptor.conn)
  /\ acceptor.pc = "enlist" => acceptor.conn \notin Range(sockets_queue)
  /\ acceptor.pc = "start" => acceptor.conn \in Range(sockets_queue)

Left == {c \in Clients : thread[c].pc = "left"}

Counting ==
  /\ IsFiniteSet(Serving) /\ IsFiniteSet(Left)
  /\ NoDuplicates(sockets_queue)
  /\ ListGrowsByFailures

Bound == /\ Newcomers /\ Accepted /\ Counting
         /\ \A c \in Serving : Connected(c)
         /\ EntriesOutliveThreads

\* The thread of c is not within a call.
Idle(c) == thread[c].pc \notin {"tail", "running"}

Busy(c) == client[c].pc \in {"sending", "waiting"}

Quiet(c) ==
  /\ client[c].pc \in {"new", "idle"} /\ Idle(c)
  /\ up[c] = <<>> /\ down[c] = <<>>

Unread(c) ==
  /\ Busy(c) /\ Idle(c) /\ down[c] = <<>>
  /\ up[c] # <<>> /\ up[c][1] \in Messages /\ up[c][1].name = client[c].call
  /\ Len(up[c]) = 1 + up[c][1].rest - client[c].left

InTail(c) ==
  /\ Busy(c) /\ thread[c].pc = "tail" /\ down[c] = <<>>
  /\ client[c].call = "write" /\ Len(up[c]) = thread[c].want - client[c].left

InCall(c) ==
  /\ client[c].pc = "waiting" /\ thread[c].pc = "running"
  /\ up[c] = <<>> /\ down[c] = <<>> /\ thread[c].call = client[c].call

Done(c) ==
  /\ client[c].pc = "waiting" /\ Idle(c)
  /\ up[c] = <<>> /\ down[c] \in {<<>>, <<client[c].call>>}

\* What a client, its channel and its thread are in the middle of.
Exchange(c) == Quiet(c) \/ Unread(c) \/ InTail(c) \/ InCall(c) \/ Done(c)

Exchanges ==
  \A c \in Clients : c \notin torn /\ client[c].pc # "closed" => Exchange(c)

Inv == Typed /\ Bound /\ Exchanges

-----------------------------------------------------------------------------
(* Messages and queues *)

LEMMA MessageTypes ==
  /\ \A m \in Messages : /\ m \in Pieces /\ m.name \in Calls /\ m.name # "rest"
                         /\ m.rest \in 0 .. MaxRest
                         /\ m.rest # 0 => m.name = "write"
  /\ \A p \in Pieces : p.name = "rest" \/ p \in Messages
  /\ Call("rest", 0) \in Pieces /\ Call("rest", 0).name = "rest"
  <1>1. ASSUME NEW m \in Messages
        PROVE  /\ m.name \in Calls /\ m.name # "rest" /\ m.rest \in 0 .. MaxRest
               /\ m.rest # 0 => m.name = "write"
    <2> USE DEF Call
    <2>1. ASSUME NEW n \in Made, m = Call(n, 0)
          PROVE  m.name \in Calls /\ m.rest \in 0 .. MaxRest /\ m.rest = 0
      BY <2>1, CallAssumption, BoundAssumption
    <2>2. ASSUME NEW n \in Made \cap {"write"}, NEW k \in 0 .. MaxRest, m = Call(n, k)
          PROVE  m.name \in Calls /\ m.rest \in 0 .. MaxRest /\ m.name = "write"
      BY <2>2, CallAssumption
    <2>3. \A n \in Calls : n # "rest" BY DEF Calls
    <2> QED BY <2>1, <2>2, <2>3 DEF Messages
  <1>2. Call("rest", 0).name = "rest" BY DEF Call
  <1> QED BY <1>1, <1>2 DEF Pieces

LEMMA Dropped ==
  ASSUME NEW S, NEW q \in Seq(S), NEW n \in 0 .. Len(q)
  PROVE  /\ SubSeq(q, n + 1, Len(q)) \in Seq(S)
         /\ Len(SubSeq(q, n + 1, Len(q))) = Len(q) - n
  <1>1. Len(q) \in Nat /\ \A i \in 1 .. Len(q) : q[i] \in S BY LenProperties
  <1>2. /\ n + 1 \in Int /\ Len(q) \in Int
        /\ \A i \in n + 1 .. Len(q) : q[i] \in S
    BY <1>1
  <1>3. /\ SubSeq(q, n + 1, Len(q)) \in Seq(S)
        /\ Len(SubSeq(q, n + 1, Len(q))) =
             IF n + 1 <= Len(q) THEN Len(q) - (n + 1) + 1 ELSE 0
    BY <1>2, SubSeqProperties
  <1> QED BY <1>1, <1>3

LEMMA NothingLeft ==
  ASSUME NEW S, NEW q \in Seq(S), Len(q) = 0
  PROVE  q = <<>>
  BY EmptySeq

\* A thread that serves reads from and writes to its own client.
LEMMA OwnPeer ==
  ASSUME Bound, NEW c \in Clients, c \in Serving
  PROVE  Peer(c) = c
  BY DEF Bound, Connected, Peer

LEMMA ServingPcs ==
  \A c \in Clients : c \in Serving <=>
    thread[c].pc \in {"starting", "reading", "tail", "running", "close", "free",
                      "freeFailed"}
  BY DEF Serving

-----------------------------------------------------------------------------
(* The types *)

LEMMA ClientMoves ==
  ASSUME ClientTyped, NEW c \in Clients,
         NEW pc \in {"new", "idle", "sending", "waiting", "closed"},
         NEW call \in Calls \cup {NULL}, NEW left \in 0 .. MaxRest,
         pc = "sending" <=> left # 0,
         client' = [client EXCEPT ![c] = [pc |-> pc, call |-> call, left |-> left]]
  PROVE  ClientTyped'
  BY DEF ClientTyped

LEMMA ThreadMoves ==
  ASSUME ThreadTyped, NEW c \in Clients,
         NEW pc \in {"starting", "reading", "close", "free", "freeFailed", "throw",
                     "ended", "left"},
         Goto(c, pc)
  PROVE  ThreadTyped'
  BY ZenonT(60) DEF ThreadTyped, Goto

LEMMA ThreadRuns ==
  ASSUME ThreadTyped, NEW c \in Clients, NEW call \in Calls, Running(c, call)
  PROVE  ThreadTyped'
  <1> DEFINE s == [thread[c] EXCEPT !.pc = "running", !.call = call]
             r == [s EXCEPT !.want = 0]
  <1>0. s \in [pc : {"none", "starting", "reading", "tail", "running", "close", "free",
                     "freeFailed", "throw", "ended", "left"},
               fd : Fds \cup {NULL}, call : Calls \cup {NULL}, want : 0 .. MaxRest]
    BY DEF ThreadTyped
  <1>1. r \in [pc : {"none", "starting", "reading", "tail", "running", "close", "free",
                     "freeFailed", "throw", "ended", "left"},
               fd : Fds \cup {NULL}, call : Calls \cup {NULL}, want : 0 .. MaxRest]
    <2> HIDE DEF s
    <2>1. 0 \in 0 .. MaxRest BY BoundAssumption
    <2> QED BY <1>0, <2>1
  <1>2. r.pc = "running" /\ r.call = call BY DEF ThreadTyped
  <1>3. thread' = [thread EXCEPT ![c] = r] BY DEF ThreadTyped, Running
  <1> HIDE DEF r
  <1> QED BY <1>1, <1>2, <1>3 DEF ThreadTyped

LEMMA ThreadReadsOn ==
  ASSUME ThreadTyped, NEW c \in Clients, NEW n \in 0 .. MaxRest, n # 0,
         thread' = [thread EXCEPT ![c].pc = "tail", ![c].want = n]
  PROVE  ThreadTyped'
  <1> DEFINE r == [thread[c] EXCEPT !.pc = "tail", !.want = n]
  <1>1. r \in [pc : {"none", "starting", "reading", "tail", "running", "close", "free",
                     "freeFailed", "throw", "ended", "left"},
               fd : Fds \cup {NULL}, call : Calls \cup {NULL}, want : 0 .. MaxRest]
    BY DEF ThreadTyped
  <1>2. r.pc = "tail" /\ r.want = n BY DEF ThreadTyped
  <1>3. thread' = [thread EXCEPT ![c] = r] BY DEF ThreadTyped
  <1> HIDE DEF r
  <1> QED BY <1>1, <1>2, <1>3 DEF ThreadTyped

LEMMA TypedInit == Init => Typed
  <1> SUFFICES ASSUME Init PROVE Typed OBVIOUS
  <1>1. ClientTyped BY BoundAssumption DEF Init, ClientTyped
  <1>2. ChannelsTyped BY DEF Init, ChannelsTyped
  <1>3. ThreadTyped BY BoundAssumption DEF Init, ThreadTyped
  <1>4. TableTyped BY DEF Init, TableTyped
  <1> QED BY <1>1, <1>2, <1>3, <1>4 DEF Typed

LEMMA TypedUnchanged ==
  /\ ClientTyped /\ UNCHANGED client => ClientTyped'
  /\ ChannelsTyped /\ UNCHANGED channels => ChannelsTyped'
  /\ ThreadTyped /\ UNCHANGED thread => ThreadTyped'
  /\ TableTyped /\ UNCHANGED <<files, backlog, acceptor, table, proc>> => TableTyped'
  BY DEF ClientTyped, ChannelsTyped, channels, ThreadTyped, TableTyped, table

LEMMA TypedConnect ==
  ASSUME Inv, NEW c \in Clients, Connect(c)
  PROVE  Typed'
  <1>1. ClientTyped'
    BY DEF Inv, Typed, ClientTyped, Connect
  <1>2. TableTyped'
    BY DEF Inv, Typed, TableTyped, Connect, table
  <1> QED BY <1>1, <1>2, TypedUnchanged DEF Inv, Typed, Connect

LEMMA TypedSend ==
  ASSUME Inv, NEW c \in Clients, Send(c)
  PROVE  Typed'
  <1>1. PICK m \in Messages :
          /\ client' = [client EXCEPT ![c] =
                          [pc |-> IF m.rest = 0 THEN "waiting" ELSE "sending",
                           call |-> m.name, left |-> m.rest]]
          /\ up' = [up EXCEPT ![c] = Append(@, m)]
    BY DEF Send
  <1>2. UNCHANGED <<down, torn, files, backlog, acceptor, table, thread, proc>>
    BY DEF Send
  <1>3. m \in Pieces /\ m.name \in Calls /\ m.rest \in 0 .. MaxRest
    BY MessageTypes
  <1>4. ChannelsTyped' BY <1>1, <1>2, <1>3 DEF Inv, Typed, ChannelsTyped
  <1>5. ClientTyped' BY <1>1, <1>3, ClientMoves DEF Inv, Typed
  <1> QED BY <1>2, <1>4, <1>5, TypedUnchanged DEF Inv, Typed

LEMMA TypedSendRest ==
  ASSUME Inv, NEW c \in Clients, SendRest(c)
  PROVE  Typed'
  <1>1. ChannelsTyped'
    BY MessageTypes DEF Inv, Typed, ChannelsTyped, SendRest
  <1>2. client[c].left \in 0 .. MaxRest /\ client[c].left # 0
    BY DEF Inv, Typed, ClientTyped, SendRest
  <1>3. client[c].left - 1 \in 0 .. MaxRest
        /\ (client[c].left - 1 # 0 <=> client[c].left # 1)
    BY <1>2, BoundAssumption
  <1>4. ClientTyped' BY <1>2, <1>3 DEF Inv, Typed, ClientTyped, SendRest
  <1> QED BY <1>1, <1>4, TypedUnchanged DEF Inv, Typed, SendRest

LEMMA TypedReceive ==
  ASSUME Inv, NEW c \in Clients, Receive(c)
  PROVE  Typed'
  <1>1. down[c] \in Seq(Calls) /\ down[c] # <<>>
    BY DEF Inv, Typed, ChannelsTyped, Receive
  <1>2. Tail(down[c]) \in Seq(Calls) BY <1>1, HeadTailProperties
  <1>3. ChannelsTyped'
    BY <1>2 DEF Inv, Typed, ChannelsTyped, Receive
  <1>4. ClientTyped' BY DEF Inv, Typed, ClientTyped, Receive
  <1> QED BY <1>3, <1>4, TypedUnchanged DEF Inv, Typed, Receive

LEMMA TypedHangup ==
  ASSUME Inv, NEW c \in Clients, Hangup(c)
  PROVE  Typed'
  <1>1. ClientTyped'
    BY BoundAssumption DEF Inv, Typed, ClientTyped, Hangup
  <1> QED BY <1>1, TypedUnchanged DEF Inv, Typed, Hangup

LEMMA TypedAccept ==
  ASSUME Inv, Accept
  PROVE  Typed'
  <1>1. Head(backlog) \in Clients /\ Tail(backlog) \in Seq(Clients)
    BY HeadTailProperties DEF Inv, Typed, TableTyped, Accept
  <1>2. ThreadTyped' BY <1>1 DEF Inv, Typed, ThreadTyped, Accept, FreeFds
  <1>3. TableTyped' BY <1>1 DEF Inv, Typed, TableTyped, Accept, FreeFds, table
  <1> QED BY <1>2, <1>3, TypedUnchanged DEF Inv, Typed, Accept

LEMMA TypedEnlist ==
  ASSUME Inv, Enlist
  PROVE  Typed'
  <1>1. acceptor.conn \in Clients BY DEF Inv, Bound, Accepted, Enlist
  <1>2. TableTyped'
    BY <1>1 DEF Inv, Typed, TableTyped, Enlist, Counted
  <1> QED BY <1>2, TypedUnchanged DEF Inv, Typed, Enlist

LEMMA TypedStartThread ==
  ASSUME Inv, StartThread
  PROVE  Typed'
  <1>1. acceptor.conn \in Clients BY DEF Inv, Bound, Accepted, StartThread
  <1>2. ThreadTyped' BY <1>1, ThreadMoves DEF Inv, Typed, StartThread
  <1>3. TableTyped' BY DEF Inv, Typed, TableTyped, StartThread, table
  <1> QED BY <1>2, <1>3, TypedUnchanged DEF Inv, Typed, StartThread

LEMMA TypedDies ==
  ASSUME Inv, Dies
  PROVE  Typed'
  <1>1. TableTyped' BY DEF Inv, Typed, TableTyped, Dies, table
  <1> QED BY <1>1, TypedUnchanged DEF Inv, Typed, Dies

LEMMA TypedSetId ==
  ASSUME Inv, SetId
  PROVE  Typed'
  <1>1. CASE Dies BY <1>1, TypedDies
  <1>2. CASE ~Dies
    <2>1. TableTyped' BY <1>2 DEF Inv, Typed, TableTyped, SetId, table
    <2> QED BY <1>2, <2>1, TypedUnchanged DEF Inv, Typed, SetId
  <1> QED BY <1>1, <1>2

LEMMA TypedThread ==
  ASSUME Inv, NEW c \in Clients,
         Begin(c) \/ ReadEnd(c) \/ Ignore(c) \/ Close(c)
  PROVE  Typed'
  <1>1. CASE Begin(c)
    BY <1>1, ThreadMoves, TypedUnchanged DEF Inv, Typed, Begin
  <1>2. CASE ReadEnd(c)
    BY <1>2, ThreadMoves, TypedUnchanged DEF Inv, Typed, ReadEnd
  <1>3. CASE Ignore(c)
    BY <1>3, ThreadMoves, TypedUnchanged DEF Inv, Typed, Ignore
  <1>4. CASE Close(c)
    <2>1. TableTyped' BY <1>4 DEF Inv, Typed, TableTyped, Close, table
    <2>2. ThreadTyped' BY <1>4, ThreadMoves DEF Inv, Typed, Close, AfterClose
    <2> QED BY <1>4, <2>1, <2>2, TypedUnchanged DEF Inv, Typed, Close
  <1> QED BY <1>1, <1>2, <1>3, <1>4

\* Which call a read finds, and how much it takes off the channel.
LEMMA ReadFinds ==
  ASSUME Inv, NEW c \in Clients, Read(c)
  PROVE  \E n \in 1 .. Len(up[c]), m \in Messages :
           /\ n \in Taken(up[c]) /\ m \in Parsed(up[c][1])
           /\ \/ m.rest = 0 /\ Running(c, m.name)
              \/ m.rest > 0 /\ thread' = [thread EXCEPT ![c].pc = "tail",
                                                       ![c].want = m.rest]
           /\ up' = [up EXCEPT ![c] = SubSeq(@, n + 1, Len(@))]
           /\ UNCHANGED <<client, down, torn, files, backlog, acceptor, table, proc>>
  <1>1. thread[c].pc = "reading" BY DEF Read, At
  <1>2. Peer(c) = c BY <1>1, OwnPeer, ServingPcs DEF Inv
  <1>3. up[c] \in Seq(Pieces) /\ up[c] # <<>>
    BY <1>2 DEF Inv, Typed, ChannelsTyped, Read
  <1>4. /\ Head(up[c]) = up[c][1] /\ Len(up[c]) \in Nat /\ Len(up[c]) >= 1
        /\ up[c][1] \in Pieces
    BY <1>3
  <1>5. PICK n \in Taken(up[c]), m \in Parsed(up[c][1]) :
          /\ \/ m.rest = 0 /\ Running(c, m.name)
             \/ m.rest > 0 /\ thread' = [thread EXCEPT ![c].pc = "tail",
                                                      ![c].want = m.rest]
          /\ up' = [up EXCEPT ![c] = SubSeq(@, n + 1, Len(@))]
    BY <1>2, <1>4 DEF Read, Wanted
  <1>6. n \in 1 .. Len(up[c]) BY <1>4 DEF Taken
  <1>7. m \in Messages BY <1>4, MessageTypes DEF Parsed
  <1>8. UNCHANGED <<client, down, torn, files, backlog, acceptor, table, proc>>
    BY DEF Read
  <1> QED BY <1>5, <1>6, <1>7, <1>8

LEMMA TypedRead ==
  ASSUME Inv, NEW c \in Clients, Read(c)
  PROVE  Typed'
  <1>1. PICK n \in 1 .. Len(up[c]), m \in Messages :
           /\ n \in Taken(up[c]) /\ m \in Parsed(up[c][1])
           /\ \/ m.rest = 0 /\ Running(c, m.name)
              \/ m.rest > 0 /\ thread' = [thread EXCEPT ![c].pc = "tail",
                                                       ![c].want = m.rest]
           /\ up' = [up EXCEPT ![c] = SubSeq(@, n + 1, Len(@))]
           /\ UNCHANGED <<client, down, torn, files, backlog, acceptor, table, proc>>
    BY ReadFinds
  <1>2. m.name \in Calls /\ m.rest \in 0 .. MaxRest BY MessageTypes
  <1>3. up[c] \in Seq(Pieces) BY DEF Inv, Typed, ChannelsTyped
  <1>4. SubSeq(up[c], n + 1, Len(up[c])) \in Seq(Pieces)
    <2>1. n \in 0 .. Len(up[c]) BY <1>3
    <2> QED BY <1>3, <2>1, Dropped
  <1>5. ChannelsTyped'
    BY <1>1, <1>4 DEF Inv, Typed, ChannelsTyped
  <1>6. ThreadTyped'
    <2>1. CASE Running(c, m.name) BY <1>2, <2>1, ThreadRuns DEF Inv, Typed
    <2>2. CASE m.rest > 0 /\ thread' = [thread EXCEPT ![c].pc = "tail",
                                                     ![c].want = m.rest]
      <3> DEFINE k == m.rest
      <3>1. /\ k \in 0 .. MaxRest /\ k # 0
            /\ thread' = [thread EXCEPT ![c].pc = "tail", ![c].want = k]
        BY <1>2, <2>2, BoundAssumption
      <3> HIDE DEF k
      <3> QED BY <3>1, ThreadReadsOn DEF Inv, Typed
    <2> QED BY <1>1, <2>1, <2>2
  <1> QED BY <1>1, <1>5, <1>6, TypedUnchanged DEF Inv, Typed

\* What is left of a tail comes off the channel and the write is run.
LEMMA ReadTailFinds ==
  ASSUME Inv, NEW c \in Clients, ReadTail(c), ~Dies
  PROVE  \E n \in 0 .. Len(up[c]) :
           /\ n <= thread[c].want
           /\ n < thread[c].want => n = Len(up[c]) /\ c \in torn'
           /\ torn' \in {torn, torn \cup {c}}
           /\ up' = [up EXCEPT ![c] = SubSeq(@, n + 1, Len(@))]
           /\ Running(c, "write")
           /\ UNCHANGED <<client, down, files, backlog, acceptor, table, proc>>
  <1>1. thread[c].pc = "tail" BY DEF ReadTail, At
  <1>2. Peer(c) = c BY <1>1, OwnPeer, ServingPcs DEF Inv
  <1> DEFINE n == IF Len(up[c]) < thread[c].want THEN Len(up[c]) ELSE thread[c].want
  <1>3. Len(up[c]) \in Nat BY DEF Inv, Typed, ChannelsTyped
  <1>4. thread[c].want \in 0 .. MaxRest BY DEF Inv, Typed, ThreadTyped
  <1>5. thread[c].want \in Nat BY <1>4, BoundAssumption
  <1>6. /\ n \in 0 .. Len(up[c]) /\ n <= thread[c].want
        /\ n < thread[c].want => n = Len(up[c])
    BY <1>3, <1>5
  <1>7. /\ up' = [up EXCEPT ![c] = SubSeq(@, n + 1, Len(@))]
        /\ torn' = IF n < thread[c].want THEN torn \cup {c} ELSE torn
        /\ Running(c, "write")
        /\ UNCHANGED <<client, down, files, backlog, acceptor, table, proc>>
    BY <1>2 DEF ReadTail
  <1> HIDE DEF n
  <1>8. n < thread[c].want => c \in torn' BY <1>7
  <1>9. torn' \in {torn, torn \cup {c}} BY <1>7
  <1> QED BY <1>6, <1>7, <1>8, <1>9

LEMMA TypedReadTail ==
  ASSUME Inv, NEW c \in Clients, ReadTail(c)
  PROVE  Typed'
  <1>1. CASE Dies BY <1>1, TypedDies
  <1>2. CASE ~Dies
    <2>1. PICK n \in 0 .. Len(up[c]) :
            /\ torn' \in {torn, torn \cup {c}}
            /\ up' = [up EXCEPT ![c] = SubSeq(@, n + 1, Len(@))]
            /\ Running(c, "write")
            /\ UNCHANGED <<client, down, files, backlog, acceptor, table, proc>>
      BY <1>2, ReadTailFinds
    <2>2. up[c] \in Seq(Pieces) BY DEF Inv, Typed, ChannelsTyped
    <2>3. SubSeq(up[c], n + 1, Len(up[c])) \in Seq(Pieces) BY <2>2, Dropped
    <2>4. ChannelsTyped' BY <2>1, <2>3 DEF Inv, Typed, ChannelsTyped
    <2>5. "write" \in Calls BY DEF Calls
    <2>6. ThreadTyped' BY <2>1, <2>5, ThreadRuns DEF Inv, Typed
    <2> QED BY <2>1, <2>4, <2>6, TypedUnchanged DEF Inv, Typed
  <1> QED BY <1>1, <1>2

LEMMA TypedAnswer ==
  ASSUME Inv, NEW c \in Clients, Answer(c)
  PROVE  Typed'
  <1>1. thread[c].call \in Calls
    BY DEF Inv, Typed, ThreadTyped, Answer, At
  <1>2. Peer(c) = c BY OwnPeer, ServingPcs DEF Inv, Answer, At
  <1>3. ChannelsTyped'
    BY <1>1, <1>2 DEF Inv, Typed, ChannelsTyped, Answer
  <1>4. ThreadTyped' BY ThreadMoves DEF Inv, Typed, Answer
  <1> QED BY <1>3, <1>4, TypedUnchanged DEF Inv, Typed, Answer

LEMMA TypedAnswerFails ==
  ASSUME Inv, NEW c \in Clients, AnswerFails(c)
  PROVE  Typed'
  <1>1. CASE Dies BY <1>1, TypedDies
  <1>2. CASE ~Dies
    BY <1>2, ThreadMoves, TypedUnchanged DEF Inv, Typed, AnswerFails
  <1> QED BY <1>1, <1>2

\* ipc_free_thread finds an entry, though it may be another one with the same
\* descriptor, and removes it.
LEMMA EntryFound ==
  ASSUME Inv, NEW c \in Clients, Free(c)
  PROVE  \E i \in 1 .. Len(sockets_queue) :
           /\ thread[sockets_queue[i]].fd = thread[c].fd
           /\ sockets_queue' = RemoveAt(sockets_queue, i)
           /\ socket_count' = socket_count - 1
           /\ files' = [files EXCEPT ![thread[c].fd] = NULL]
  <1> DEFINE E == Entries(thread[c].fd)
  <1>1. c \in Serving BY ServingPcs DEF Free
  <1>2. PICK e \in Range(sockets_queue) : thread[e].fd = thread[c].fd
    BY <1>1 DEF Inv, Bound, EntriesOutliveThreads
  <1>3. DOMAIN sockets_queue = 1 .. Len(sockets_queue) /\ Len(sockets_queue) \in Nat
    BY DEF Inv, Typed, TableTyped
  <1>4. E # {} BY <1>2 DEF Entries, Range
  <1>5. E \subseteq Nat BY <1>3 DEF Entries
  <1>6. Min(E) \in E BY <1>4, <1>5, LeastIndex
  <1>7. /\ sockets_queue' = RemoveAt(sockets_queue, Min(E))
        /\ socket_count' = socket_count - 1
        /\ files' = [files EXCEPT ![thread[c].fd] = NULL]
    BY <1>4 DEF Free, ipc_free_thread
  <1>8. Min(E) \in 1 .. Len(sockets_queue)
        /\ thread[sockets_queue[Min(E)]].fd = thread[c].fd
    BY <1>3, <1>6 DEF Entries
  <1> QED BY <1>7, <1>8

LEMMA TypedFree ==
  ASSUME Inv, NEW c \in Clients, Free(c)
  PROVE  Typed'
  <1>1. PICK i \in 1 .. Len(sockets_queue) :
           /\ sockets_queue' = RemoveAt(sockets_queue, i)
           /\ socket_count' = socket_count - 1
           /\ files' = [files EXCEPT ![thread[c].fd] = NULL]
    BY EntryFound
  <1>2. sockets_queue \in Seq(Clients) /\ NoDuplicates(sockets_queue)
        /\ socket_count = Len(sockets_queue)
    BY DEF Inv, Typed, TableTyped, Bound, Counting, ListGrowsByFailures
  <1>3. sockets_queue' \in Seq(Clients) /\ socket_count' \in Nat
    BY <1>1, <1>2, RemovedNode
  <1>4. TableTyped'
    BY <1>1, <1>3 DEF Inv, Typed, TableTyped, Free
  <1>5. ThreadTyped' BY ThreadMoves DEF Inv, Typed, Free
  <1> QED BY <1>4, <1>5, TypedUnchanged DEF Inv, Typed, Free

-----------------------------------------------------------------------------
(* Descriptors, entries and the accept loop *)

\* Steps of clients, and steps of a thread that goes on serving, leave all of
\* it as it is.
LEMMA BoundStays ==
  ASSUME Inv, UNCHANGED <<files, backlog, acceptor, table>>,
         \A d \in Clients :
           /\ thread'[d].fd = thread[d].fd
           /\ thread'[d].pc = "none" <=> thread[d].pc = "none"
           /\ thread'[d].pc = "left" <=> thread[d].pc = "left"
           /\ d \in Serving' <=> d \in Serving
           /\ thread'[d].pc = "starting" => thread[d].pc = "starting"
           /\ client'[d].pc = "new" => client[d].pc = "new"
  PROVE  Bound'
  <1>1. Serving' \subseteq Clients /\ Serving \subseteq Clients BY DEF Serving
  <1>2. Serving' = Serving BY <1>1
  <1>3. Left' = Left BY DEF Left
  <1>4. \A c \in Clients : Connected(c)' <=> Connected(c) BY DEF Connected
  <1>5. Newcomers' BY DEF Inv, Bound, Newcomers, table
  <1>6. Accepted' BY <1>4 DEF Inv, Bound, Accepted, table
  <1>7. Cardinality(Serving') = Cardinality(Serving)
        /\ Cardinality({c \in Clients : thread'[c].pc = "left"})
             = Cardinality({c \in Clients : thread[c].pc = "left"})
    BY <1>2, <1>3 DEF Left
  <1>8. Counting'
    BY <1>2, <1>3, <1>7 DEF Inv, Bound, Counting, ListGrowsByFailures, table
  <1>9. \A e \in Range(sockets_queue) : e \in Clients
    BY DEF Inv, Typed, TableTyped, Range
  <1>10. EntriesOutliveThreads'
    BY <1>1, <1>2, <1>9 DEF Inv, Bound, EntriesOutliveThreads, table
  <1> QED BY <1>1, <1>2, <1>4, <1>5, <1>6, <1>8, <1>10 DEF Inv, Bound

LEMMA BoundThreadMoves ==
  ASSUME Inv, NEW c \in Clients, UNCHANGED <<client, files, backlog, acceptor, table>>,
         c \in Serving,
         NEW pc \in {"reading", "tail", "running", "close", "free", "freeFailed"},
         thread'[c].pc = pc, thread'[c].fd = thread[c].fd,
         \A d \in Clients \ {c} : thread'[d] = thread[d]
  PROVE  Bound'
  <1>1. \A d \in Clients \ {c} : d \in Serving' <=> d \in Serving
    BY DEF Serving
  <1>2. c \in Serving' BY DEF Serving
  <1>3. thread[c].pc # "none" /\ thread[c].pc # "left" BY DEF Serving
  <1>4. ASSUME NEW d \in Clients
        PROVE  /\ thread'[d].fd = thread[d].fd
               /\ thread'[d].pc = "none" <=> thread[d].pc = "none"
               /\ thread'[d].pc = "left" <=> thread[d].pc = "left"
               /\ d \in Serving' <=> d \in Serving
               /\ thread'[d].pc = "starting" => thread[d].pc = "starting"
               /\ client'[d].pc = "new" => client[d].pc = "new"
    <2>1. CASE d = c BY <1>2, <1>3, <2>1
    <2>2. CASE d # c BY <1>1, <2>2
    <2> QED BY <2>1, <2>2
  <1> QED BY <1>4, BoundStays

LEMMA BoundGoto ==
  ASSUME Inv, NEW c \in Clients, UNCHANGED <<client, files, backlog, acceptor, table>>,
         c \in Serving, NEW pc \in {"reading", "close", "free", "freeFailed"},
         Goto(c, pc)
  PROVE  Bound'
  <1>1. /\ thread'[c].pc = pc /\ thread'[c].fd = thread[c].fd
        /\ \A d \in Clients \ {c} : thread'[d] = thread[d]
    BY DEF Inv, Typed, ThreadTyped, Goto
  <1> QED BY <1>1, BoundThreadMoves

LEMMA BoundRuns ==
  ASSUME Inv, NEW c \in Clients, UNCHANGED <<client, files, backlog, acceptor, table>>,
         c \in Serving, NEW call, Running(c, call)
  PROVE  Bound'
  <1>1. /\ thread'[c].pc = "running" /\ thread'[c].fd = thread[c].fd
        /\ \A d \in Clients \ {c} : thread'[d] = thread[d]
    BY DEF Inv, Typed, ThreadTyped, Running
  <1> QED BY <1>1, BoundThreadMoves

LEMMA BoundClient ==
  ASSUME Inv, NEW c \in Clients, Send(c) \/ SendRest(c) \/ Receive(c) \/ Hangup(c)
  PROVE  Bound'
  <1>1. UNCHANGED <<files, backlog, acceptor, table, thread>>
    BY DEF Send, SendRest, Receive, Hangup
  <1>2. \A d \in Clients : client'[d].pc = "new" => client[d].pc = "new"
    <2> USE DEF Inv, Typed, ClientTyped
    <2>1. CASE Send(c) BY <2>1 DEF Send
    <2>2. CASE SendRest(c) BY <2>2 DEF SendRest
    <2>3. CASE Receive(c) BY <2>3 DEF Receive
    <2>4. CASE Hangup(c) BY <2>4 DEF Hangup
    <2> QED BY <2>1, <2>2, <2>3, <2>4
  <1>3. Serving' = Serving BY <1>1 DEF Serving
  <1> QED BY <1>1, <1>2, <1>3, BoundStays

LEMMA BoundDies ==
  ASSUME Inv, Dies
  PROVE  Bound'
  <1>1. UNCHANGED <<client, files, backlog, acceptor, table, thread>> BY DEF Dies
  <1>2. Serving' = Serving BY <1>1 DEF Serving
  <1> QED BY <1>1, <1>2, BoundStays

LEMMA BoundThread ==
  ASSUME Inv, NEW c \in Clients,
         Begin(c) \/ Read(c) \/ ReadEnd(c) \/ ReadTail(c) \/ Answer(c)
           \/ Ignore(c) \/ AnswerFails(c)
  PROVE  Bound'
  <1>1. c \in Serving
    BY ServingPcs DEF Begin, Read, ReadEnd, ReadTail, Answer, Ignore, AnswerFails, At
  <1>2. CASE Dies BY <1>2, BoundDies
  <1>3. CASE Begin(c) BY <1>1, <1>3, BoundGoto DEF Begin
  <1>4. CASE Read(c)
    <2>1. PICK m \in Messages :
             /\ \/ Running(c, m.name)
                \/ thread' = [thread EXCEPT ![c].pc = "tail", ![c].want = m.rest]
             /\ UNCHANGED <<client, files, backlog, acceptor, table>>
      BY <1>4, ReadFinds
    <2>2. CASE Running(c, m.name) BY <1>1, <2>1, <2>2, BoundRuns
    <2>3. CASE thread' = [thread EXCEPT ![c].pc = "tail", ![c].want = m.rest]
      <3>1. /\ thread'[c].pc = "tail" /\ thread'[c].fd = thread[c].fd
            /\ \A d \in Clients \ {c} : thread'[d] = thread[d]
        BY <2>3 DEF Inv, Typed, ThreadTyped
      <3> QED BY <1>1, <2>1, <3>1, BoundThreadMoves
    <2> QED BY <2>1, <2>2, <2>3
  <1>5. CASE ReadEnd(c) BY <1>1, <1>5, BoundGoto DEF ReadEnd
  <1>6. CASE ReadTail(c) /\ ~Dies
    BY <1>1, <1>6, ReadTailFinds, BoundRuns
  <1>7. CASE Answer(c) BY <1>1, <1>7, BoundGoto DEF Answer
  <1>8. CASE Ignore(c) BY <1>1, <1>8, BoundGoto DEF Ignore
  <1>9. CASE AnswerFails(c) /\ ~Dies
    BY <1>1, <1>9, BoundGoto DEF AnswerFails
  <1> QED BY <1>2, <1>3, <1>4, <1>5, <1>6, <1>7, <1>8, <1>9

LEMMA FirstNode ==
  ASSUME NEW S, NEW q \in Seq(S), NoDuplicates(q), q # <<>>
  PROVE  /\ Tail(q) \in Seq(S) /\ NoDuplicates(Tail(q))
         /\ Head(q) \in Range(q) /\ Range(Tail(q)) = Range(q) \ {Head(q)}
  <1> DEFINE t == Tail(q)
  <1>1. /\ Len(q) \in Nat /\ Len(q) >= 1 /\ DOMAIN q = 1 .. Len(q)
        /\ Head(q) = q[1]
        /\ t \in Seq(S) /\ DOMAIN t = 1 .. Len(q) - 1
        /\ \A i \in 1 .. Len(q) - 1 : t[i] = q[i + 1]
    OBVIOUS
  <1> HIDE DEF t
  <1>2. NoDuplicates(t)
    <2> SUFFICES ASSUME NEW i \in 1 .. Len(q) - 1, NEW j \in 1 .. Len(q) - 1,
                        t[i] = t[j]
                 PROVE  i = j
      BY <1>1 DEF NoDuplicates
    <2>1. i + 1 \in DOMAIN q /\ j + 1 \in DOMAIN q /\ q[i + 1] = q[j + 1] BY <1>1
    <2>2. i + 1 = j + 1 BY <2>1 DEF NoDuplicates
    <2> QED BY <2>2
  <1>3. ASSUME NEW a \in Range(t) PROVE a \in Range(q) \ {Head(q)}
    <2>1. PICK i \in 1 .. Len(q) - 1 : a = q[i + 1] BY <1>1, <1>3 DEF Range
    <2>2. i + 1 \in DOMAIN q /\ 1 \in DOMAIN q /\ i + 1 # 1 BY <1>1
    <2> QED BY <1>1, <2>1, <2>2 DEF Range, NoDuplicates
  <1>4. ASSUME NEW a \in Range(q) \ {Head(q)} PROVE a \in Range(t)
    <2>1. PICK i \in 1 .. Len(q) : a = q[i] BY <1>1, <1>4 DEF Range
    <2>2. i - 1 \in 1 .. Len(q) - 1 /\ (i - 1) + 1 = i BY <1>1, <1>4, <2>1
    <2>3. t[i - 1] = a BY <1>1, <2>1, <2>2
    <2> QED BY <1>1, <2>2, <2>3 DEF Range
  <1> QED BY <1>1, <1>2, <1>3, <1>4 DEF t, Range

LEMMA BoundConnect ==
  ASSUME Inv, NEW c \in Clients, Connect(c)
  PROVE  Bound'
  <1>1. /\ client[c].pc = "new" /\ client' = [client EXCEPT ![c].pc = "idle"]
        /\ backlog' = Append(backlog, c)
        /\ UNCHANGED <<files, acceptor, table, thread>>
    BY DEF Connect
  <1>2. backlog \in Seq(Clients) /\ NoDuplicates(backlog) /\ c \notin Range(backlog)
    BY <1>1 DEF Inv, Typed, TableTyped, Bound, Newcomers
  <1>3. NoDuplicates(backlog') /\ Range(backlog') = Range(backlog) \cup {c}
    BY <1>1, <1>2, AppendedNode
  <1>4. \A d \in Clients : client'[d].pc = "new" => client[d].pc = "new" /\ d # c
    BY <1>1 DEF Inv, Typed, ClientTyped
  <1>5. Newcomers'
    BY <1>1, <1>3, <1>4 DEF Inv, Bound, Newcomers, table
  <1>6. /\ Serving' = Serving /\ Left' = Left
        /\ \A d \in Clients : Connected(d)' <=> Connected(d)
    BY <1>1 DEF Serving, Left, Connected
  <1>7. Accepted' BY <1>1, <1>6 DEF Inv, Bound, Accepted, table
  <1>8. Counting'
    BY <1>1, <1>6 DEF Inv, Bound, Counting, ListGrowsByFailures, table
  <1>9. EntriesOutliveThreads'
    BY <1>1, <1>6 DEF Inv, Bound, EntriesOutliveThreads, table
  <1> QED BY <1>5, <1>6, <1>7, <1>8, <1>9 DEF Inv, Bound, Serving

LEMMA BoundAccept ==
  ASSUME Inv, Accept
  PROVE  Bound'
  <1> DEFINE h == Head(backlog)
  <1>1. PICK f \in FreeFds :
          /\ files' = [files EXCEPT ![f] = h]
          /\ thread' = [thread EXCEPT ![h].fd = f]
    BY DEF Accept
  <1>2. /\ acceptor.pc = "accept" /\ backlog # <<>>
        /\ acceptor' = [pc |-> "enlist", conn |-> h]
        /\ backlog' = Tail(backlog)
        /\ UNCHANGED <<client, table>>
    BY DEF Accept
  <1>3. backlog \in Seq(Clients) /\ NoDuplicates(backlog)
    BY DEF Inv, Typed, TableTyped, Bound, Newcomers
  <1>4. /\ h \in Range(backlog) /\ NoDuplicates(backlog')
        /\ Range(backlog') = Range(backlog) \ {h}
    BY <1>2, <1>3, FirstNode
  <1>5. h \in Clients BY <1>3, <1>4 DEF Range
  <1> HIDE DEF h
  <1>6. thread[h].pc = "none" /\ h \notin Range(sockets_queue) /\ client[h].pc # "new"
    BY <1>4, <1>5 DEF Inv, Bound, Newcomers
  <1>7. /\ \A d \in Clients : thread'[d].pc = thread[d].pc
        /\ \A d \in Clients \ {h} : thread'[d] = thread[d]
        /\ thread'[h].fd = f
    BY <1>1, <1>5 DEF Inv, Typed, ThreadTyped
  <1>8. f \in Fds /\ files[f] = NULL /\ files'[f] = h
        /\ \A g \in Fds \ {f} : files'[g] = files[g]
    BY <1>1 DEF FreeFds, Inv, Typed, TableTyped
  <1>9. Serving' = Serving /\ Left' = Left BY <1>7 DEF Serving, Left
  <1>10. Newcomers'
    BY <1>2, <1>4, <1>6, <1>7 DEF Inv, Bound, Newcomers, table
  <1>11. Accepted'
    BY <1>2, <1>5, <1>6, <1>7, <1>8 DEF Accepted, Connected, table
  <1>12. Counting'
    BY <1>2, <1>9 DEF Inv, Bound, Counting, ListGrowsByFailures, table, Left
  <1>13. ASSUME NEW d \in Serving PROVE Connected(d)'
    <2>1. d \in Clients /\ d # h BY <1>6 DEF Serving
    <2>2. thread[d].fd \in Fds /\ files[thread[d].fd] = d
      BY DEF Inv, Bound, Connected
    <2>3. thread[d].fd # f BY <1>8, <2>1, <2>2, NullAssumption
    <2> QED BY <1>7, <1>8, <2>1, <2>2, <2>3 DEF Connected
  <1>14. EntriesOutliveThreads'
    <2>1. \A e \in Range(sockets_queue) : e \in Clients \ {h}
      BY <1>6 DEF Inv, Typed, TableTyped, Range
    <2>2. \A d \in Serving : d \in Clients \ {h} BY <1>6 DEF Serving
    <2> QED
      BY <1>2, <1>7, <1>9, <2>1, <2>2 DEF Inv, Bound, EntriesOutliveThreads, table
  <1> QED BY <1>9, <1>10, <1>11, <1>12, <1>13, <1>14 DEF Bound

LEMMA BoundEnlist ==
  ASSUME Inv, Enlist
  PROVE  Bound'
  <1> DEFINE h == acceptor.conn
  <1>1. /\ acceptor.pc = "enlist" /\ acceptor' = [acceptor EXCEPT !.pc = "start"]
        /\ sockets_queue' = Append(sockets_queue, h)
        /\ socket_count' = socket_count + 1
        /\ UNCHANGED <<client, files, backlog, thread>>
    BY DEF Enlist, Counted
  <1>2. h \in Clients /\ h \notin Range(sockets_queue) /\ thread[h].pc = "none"
        /\ Connected(h)
    BY <1>1 DEF Inv, Bound, Accepted
  <1>3. sockets_queue \in Seq(Clients) /\ NoDuplicates(sockets_queue)
    BY DEF Inv, Typed, TableTyped, Bound, Counting
  <1>4. /\ NoDuplicates(sockets_queue') /\ Len(sockets_queue') = Len(sockets_queue) + 1
        /\ Range(sockets_queue') = Range(sockets_queue) \cup {h}
    BY <1>1, <1>2, <1>3, AppendedNode
  <1>5. acceptor'.pc = "start" /\ acceptor'.conn = h
    BY <1>1 DEF Inv, Typed, TableTyped
  <1> HIDE DEF h
  <1>6. /\ Serving' = Serving /\ Left' = Left
        /\ \A d \in Clients : Connected(d)' <=> Connected(d)
    BY <1>1 DEF Serving, Left, Connected
  <1>7. Newcomers'
    BY <1>1, <1>2, <1>4, <1>5 DEF Inv, Bound, Newcomers, h
  <1>8. Accepted' BY <1>1, <1>2, <1>4, <1>5, <1>6 DEF Accepted
  <1>9. Counting'
    <2>1. Len(sockets_queue) =
            Cardinality(Serving) + Cardinality(Left) + 0
          /\ socket_count = Len(sockets_queue)
      BY <1>1 DEF Inv, Bound, Counting, ListGrowsByFailures, Left
    <2>2. Cardinality(Serving) \in Nat /\ Cardinality(Left) \in Nat
      BY FS_CardinalityType DEF Inv, Bound, Counting
    <2>3. Len(sockets_queue') = Cardinality(Serving') + Cardinality(Left') + 1
          /\ socket_count' = Len(sockets_queue')
      BY <1>1, <1>4, <1>6, <2>1, <2>2
    <2> QED
      BY <1>4, <1>5, <1>6, <2>3 DEF Inv, Bound, Counting, ListGrowsByFailures, Left
  <1>10. EntriesOutliveThreads'
    BY <1>1, <1>4, <1>6 DEF Inv, Bound, EntriesOutliveThreads
  <1> QED BY <1>6, <1>7, <1>8, <1>9, <1>10 DEF Inv, Bound, Serving

LEMMA BoundStartThread ==
  ASSUME Inv, StartThread
  PROVE  Bound'
  <1> DEFINE h == acceptor.conn
  <1>1. /\ acceptor.pc = "start" /\ acceptor' = [acceptor EXCEPT !.pc = "setId"]
        /\ Goto(h, "starting")
        /\ UNCHANGED <<client, files, backlog, table>>
    BY DEF StartThread
  <1>2. h \in Clients /\ h \in Range(sockets_queue) /\ thread[h].pc = "none"
        /\ Connected(h)
    BY <1>1 DEF Inv, Bound, Accepted
  <1>3. acceptor'.pc = "setId" /\ acceptor'.conn = h
    BY <1>1 DEF Inv, Typed, TableTyped
  <1>4. /\ thread'[h].pc = "starting" /\ thread'[h].fd = thread[h].fd
        /\ \A d \in Clients \ {h} : thread'[d] = thread[d]
    BY <1>1, <1>2 DEF Inv, Typed, ThreadTyped, Goto
  <1> HIDE DEF h
  <1>5. Serving' = Serving \cup {h} /\ h \notin Serving
    BY <1>2, <1>4 DEF Serving
  <1>6. Left' = Left BY <1>2, <1>4 DEF Left
  <1>7. \A d \in Clients : thread'[d].fd = thread[d].fd BY <1>4
  <1>8. \A d \in Clients : Connected(d)' <=> Connected(d)
    BY <1>1, <1>7 DEF Connected
  <1>9. Newcomers'
    BY <1>1, <1>2, <1>3, <1>4 DEF Inv, Bound, Newcomers, table, h
  <1>10. Accepted' BY <1>3 DEF Accepted
  <1>11. Counting'
    <2>1. Len(sockets_queue) =
            Cardinality(Serving) + Cardinality(Left) + 1
          /\ socket_count = Len(sockets_queue)
      BY <1>1 DEF Inv, Bound, Counting, ListGrowsByFailures, Left
    <2>2. /\ IsFiniteSet(Serving) /\ Cardinality(Serving) \in Nat
          /\ Cardinality(Left) \in Nat
      BY FS_CardinalityType DEF Inv, Bound, Counting
    <2>3. IsFiniteSet(Serving') /\ Cardinality(Serving') = Cardinality(Serving) + 1
      BY <1>5, <2>2, FS_AddElement
    <2>4. Len(sockets_queue') = Cardinality(Serving') + Cardinality(Left') + 0
          /\ socket_count' = Len(sockets_queue')
      BY <1>1, <1>6, <2>1, <2>2, <2>3 DEF table
    <2> QED
      BY <1>1, <1>3, <1>6, <2>3, <2>4
         DEF Inv, Bound, Counting, ListGrowsByFailures, Left, table
  <1>12. EntriesOutliveThreads'
    <2>1. \A e \in Range(sockets_queue) : e \in Clients
      BY DEF Inv, Typed, TableTyped, Range
    <2>2. \A d \in Serving : d \in Clients BY DEF Serving
    <2> QED
      BY <1>1, <1>2, <1>4, <1>5, <1>7, <2>1, <2>2
         DEF Inv, Bound, EntriesOutliveThreads, table
  <1> QED
    BY <1>2, <1>5, <1>8, <1>9, <1>10, <1>11, <1>12 DEF Inv, Bound, Serving

LEMMA BoundSetId ==
  ASSUME Inv, SetId
  PROVE  Bound'
  <1>1. CASE Dies BY <1>1, BoundDies
  <1>2. CASE ~Dies
    <2>1. /\ acceptor.pc = "setId" /\ acceptor' = [pc |-> "accept", conn |-> NULL]
          /\ UNCHANGED <<client, files, backlog, table, thread>>
      BY <1>2 DEF SetId
    <2>2. /\ Serving' = Serving /\ Left' = Left
          /\ \A d \in Clients : Connected(d)' <=> Connected(d)
      BY <2>1 DEF Serving, Left, Connected
    <2>3. Newcomers'
      BY <2>1, NullAssumption DEF Inv, Bound, Newcomers, table
    <2>4. Accepted' BY <2>1 DEF Accepted
    <2>5. Counting'
      BY <2>1, <2>2 DEF Inv, Bound, Counting, ListGrowsByFailures, table
    <2>6. EntriesOutliveThreads'
      BY <2>1, <2>2 DEF Inv, Bound, EntriesOutliveThreads, table
    <2> QED BY <2>2, <2>3, <2>4, <2>5, <2>6 DEF Inv, Bound, Serving
  <1> QED BY <1>1, <1>2

\* A descriptor that a thread closes is that of no other channel in use.
LEMMA OthersStayConnected ==
  ASSUME Inv, NEW c \in Clients, c \in Serving,
         files' = [files EXCEPT ![thread[c].fd] = NULL],
         NEW d \in Clients, d # c, Connected(d), thread'[d].fd = thread[d].fd
  PROVE  Connected(d)' /\ thread[d].fd # thread[c].fd
  <1>1. Connected(c) BY DEF Inv, Bound
  <1>2. thread[d].fd # thread[c].fd BY <1>1 DEF Connected
  <1> QED BY <1>2 DEF Connected, Inv, Typed, TableTyped

LEMMA BoundClose ==
  ASSUME Inv, NEW c \in Clients, Close(c)
  PROVE  Bound'
  <1>1. /\ thread[c].pc = "close" /\ Goto(c, "left")
        /\ files' = [files EXCEPT ![thread[c].fd] = NULL]
        /\ UNCHANGED <<client, backlog, acceptor, table>>
    BY DEF Close, At, AfterClose
  <1>2. /\ thread'[c].pc = "left" /\ \A d \in Clients : thread'[d].fd = thread[d].fd
        /\ \A d \in Clients \ {c} : thread'[d] = thread[d]
    BY <1>1 DEF Inv, Typed, ThreadTyped, Goto
  <1>3. c \in Serving /\ Serving' = Serving \ {c} /\ c \notin Left
        /\ Left' = Left \cup {c}
    BY <1>1, <1>2 DEF Serving, Left
  <1>4. \A d \in Clients \ {c} : Connected(d) => Connected(d)'
    BY <1>1, <1>2, <1>3, OthersStayConnected
  <1>5. Newcomers'
    BY <1>1, <1>2 DEF Inv, Bound, Newcomers, table
  <1>6. Accepted'
    <2>1. acceptor.pc \in {"enlist", "start"} => acceptor.conn \in Clients \ {c}
      BY <1>1 DEF Inv, Bound, Accepted
    <2> QED BY <1>1, <1>2, <1>4, <2>1 DEF Inv, Bound, Accepted, table
  <1>7. Counting'
    <2>1. /\ IsFiniteSet(Serving) /\ Cardinality(Serving) \in Nat
          /\ IsFiniteSet(Left) /\ Cardinality(Left) \in Nat
      BY FS_CardinalityType DEF Inv, Bound, Counting
    <2>2. IsFiniteSet(Serving') /\ Cardinality(Serving') = Cardinality(Serving) - 1
      BY <1>3, <2>1, FS_RemoveElement
    <2>3. IsFiniteSet(Left') /\ Cardinality(Left') = Cardinality(Left) + 1
      BY <1>3, <2>1, FS_AddElement
    <2> DEFINE flag == IF acceptor.pc = "start" THEN 1 ELSE 0
    <2>4. Len(sockets_queue) = Cardinality(Serving) + Cardinality(Left) + flag
          /\ socket_count = Len(sockets_queue) /\ flag \in Nat
      BY DEF Inv, Bound, Counting, ListGrowsByFailures, Left
    <2> HIDE DEF flag
    <2>5. Len(sockets_queue) = Cardinality(Serving') + Cardinality(Left') + flag
      BY <2>1, <2>2, <2>3, <2>4
    <2> QED
      BY <1>1, <2>2, <2>3, <2>4, <2>5
         DEF Inv, Bound, Counting, ListGrowsByFailures, Left, table, flag
  <1>8. EntriesOutliveThreads'
    <2>1. \A e \in Range(sockets_queue) : e \in Clients
      BY DEF Inv, Typed, TableTyped, Range
    <2>2. \A d \in Serving : d \in Clients BY DEF Serving
    <2>3. \A d \in Clients : thread'[d].pc = "starting" => thread[d].pc = "starting"
      BY <1>2
    <2> QED
      BY <1>1, <1>2, <1>3, <2>1, <2>2, <2>3
         DEF Inv, Bound, EntriesOutliveThreads, table
  <1> QED
    BY <1>3, <1>4, <1>5, <1>6, <1>7, <1>8 DEF Inv, Bound, Serving

LEMMA BoundFree ==
  ASSUME Inv, NEW c \in Clients, Free(c)
  PROVE  Bound'
  <1>1. PICK i \in 1 .. Len(sockets_queue) :
           /\ thread[sockets_queue[i]].fd = thread[c].fd
           /\ sockets_queue' = RemoveAt(sockets_queue, i)
           /\ socket_count' = socket_count - 1
           /\ files' = [files EXCEPT ![thread[c].fd] = NULL]
    BY EntryFound
  <1> DEFINE e == sockets_queue[i]
  <1>2. /\ thread[c].pc \in {"free", "freeFailed"}
        /\ UNCHANGED <<client, backlog, acceptor>>
    BY DEF Free
  <1>3. /\ thread'[c].pc \in {"ended", "throw"}
        /\ \A d \in Clients : thread'[d].fd = thread[d].fd
        /\ \A d \in Clients \ {c} : thread'[d] = thread[d]
    BY DEF Free, Inv, Typed, ThreadTyped, Goto
  <1>4. c \in Serving /\ Serving' = Serving \ {c} BY <1>2, <1>3 DEF Serving
  <1>5. Left' = Left BY <1>2, <1>3 DEF Left
  <1>6. sockets_queue \in Seq(Clients) /\ NoDuplicates(sockets_queue)
    BY DEF Inv, Typed, TableTyped, Bound, Counting
  <1>7. /\ NoDuplicates(sockets_queue') /\ Len(sockets_queue') = Len(sockets_queue) - 1
        /\ Range(sockets_queue') = Range(sockets_queue) \ {e}
    BY <1>1, <1>6, RemovedNode
  <1>8. thread[e].fd = thread[c].fd BY <1>1
  <1> HIDE DEF e
  <1>9. \A d \in Clients \ {c} :
          Connected(d) => Connected(d)' /\ thread[d].fd # thread[c].fd
    BY <1>1, <1>3, <1>4, OthersStayConnected
  <1>10. Newcomers'
    BY <1>2, <1>3, <1>7 DEF Inv, Bound, Newcomers
  <1>11. Accepted'
    <2>1. acceptor.pc \in {"enlist", "start"} =>
            acceptor.conn \in Clients \ {c} /\ Connected(acceptor.conn)
      BY <1>2 DEF Inv, Bound, Accepted
    <2>2. acceptor.pc = "start" => acceptor.conn # e
      BY <1>8, <1>9, <2>1
    <2> QED BY <1>2, <1>3, <1>7, <1>9, <2>1, <2>2 DEF Inv, Bound, Accepted
  <1>12. Counting'
    <2>1. /\ IsFiniteSet(Serving) /\ Cardinality(Serving) \in Nat
          /\ IsFiniteSet(Left) /\ Cardinality(Left) \in Nat
      BY FS_CardinalityType DEF Inv, Bound, Counting
    <2>2. IsFiniteSet(Serving') /\ Cardinality(Serving') = Cardinality(Serving) - 1
      BY <1>4, <2>1, FS_RemoveElement
    <2> DEFINE flag == IF acceptor.pc = "start" THEN 1 ELSE 0
    <2>3. Len(sockets_queue) = Cardinality(Serving) + Cardinality(Left) + flag
          /\ socket_count = Len(sockets_queue) /\ flag \in Nat
      BY DEF Inv, Bound, Counting, ListGrowsByFailures, Left
    <2> HIDE DEF flag
    <2>4. Len(sockets_queue') = Cardinality(Serving') + Cardinality(Left') + flag
          /\ socket_count' = Len(sockets_queue')
      BY <1>1, <1>5, <1>7, <2>1, <2>2, <2>3
    <2> QED
      BY <1>2, <1>5, <1>7, <2>1, <2>2, <2>4
         DEF Inv, Bound, Counting, ListGrowsByFailures, Left, flag
  <1>13. EntriesOutliveThreads'
    <2>1. ASSUME NEW d \in Serving'
          PROVE  \E x \in Range(sockets_queue') : thread'[x].fd = thread'[d].fd
      <3>1. d \in Clients \ {c} /\ d \in Serving BY <1>4, <2>1 DEF Serving
      <3>2. Connected(d) BY <3>1 DEF Inv, Bound
      <3>3. PICK x \in Range(sockets_queue) : thread[x].fd = thread[d].fd
        BY <3>1 DEF Inv, Bound, EntriesOutliveThreads
      <3>4. x \in Clients BY DEF Inv, Typed, TableTyped, Range
      <3>5. x # e BY <1>8, <1>9, <3>1, <3>2, <3>3
      <3> QED BY <1>3, <1>7, <3>1, <3>3, <3>4, <3>5
    <2>2. ASSUME NEW d \in Clients, thread'[d].pc = "starting"
          PROVE  d \in Range(sockets_queue')
      <3>1. d # c /\ thread[d].pc = "starting" BY <1>3, <2>2
      <3>2. d \in Serving /\ d \in Range(sockets_queue)
        BY <3>1 DEF Serving, Inv, Bound, EntriesOutliveThreads
      <3>3. Connected(d) BY <3>2 DEF Inv, Bound
      <3>4. d # e BY <1>8, <1>9, <3>1, <3>3
      <3> QED BY <1>7, <3>2, <3>4
    <2> QED BY <2>1, <2>2 DEF EntriesOutliveThreads
  <1>14. \A d \in Serving' : Connected(d)'
    <2>1. \A d \in Serving' : d \in Clients \ {c} /\ d \in Serving
      BY <1>4 DEF Serving
    <2> QED BY <1>9, <2>1 DEF Inv, Bound
  <1> QED BY <1>10, <1>11, <1>12, <1>13, <1>14 DEF Bound

LEMMA BoundInit == Init => Bound
  <1> SUFFICES ASSUME Init PROVE Bound OBVIOUS
  <1>1. Serving = {} /\ Left = {} BY DEF Init, Serving, Left
  <1>2. Range(sockets_queue) = {} /\ Range(backlog) = {}
    BY DEF Init, Range
  <1>3. NoDuplicates(sockets_queue) /\ NoDuplicates(backlog)
    BY DEF Init, NoDuplicates
  <1>4. Newcomers BY <1>2, <1>3, NullAssumption DEF Init, Newcomers
  <1>5. Accepted BY DEF Init, Accepted
  <1>6. Counting
    <2>1. IsFiniteSet({}) /\ Cardinality({}) = 0 BY FS_EmptySet
    <2>2. {c \in Clients : thread[c].pc = "left"} = {} BY <1>1 DEF Left
    <2>3. /\ Len(sockets_queue) = 0 /\ socket_count = 0 /\ acceptor.pc # "start"
      BY DEF Init
    <2>4. ListGrowsByFailures
      <3>1. Cardinality(Serving) = 0 BY <1>1, <2>1, Zenon
      <3>2. Cardinality({c \in Clients : thread[c].pc = "left"}) = 0
        BY <2>1, <2>2, Zenon
      <3> QED BY <2>3, <3>1, <3>2 DEF ListGrowsByFailures
    <2> QED BY <1>1, <1>3, <2>1, <2>4 DEF Counting
  <1>7. EntriesOutliveThreads BY <1>1 DEF Init, EntriesOutliveThreads
  <1> QED BY <1>1, <1>4, <1>5, <1>6, <1>7 DEF Bound

-----------------------------------------------------------------------------
(* Calls and answers *)

\* A step of c and its thread touches no other channel.
LEMMA OtherExchanges ==
  ASSUME Inv, NEW c \in Clients, torn \subseteq torn',
         \A d \in Clients \ {c} : /\ client'[d] = client[d] /\ up'[d] = up[d]
                                  /\ down'[d] = down[d] /\ thread'[d].pc = thread[d].pc
                                  /\ thread'[d].call = thread[d].call
                                  /\ thread'[d].want = thread[d].want,
         c \notin torn' /\ client'[c].pc # "closed" => Exchange(c)'
  PROVE  Exchanges'
  <1>1. ASSUME NEW d \in Clients \ {c}, Exchange(d) PROVE Exchange(d)'
    BY <1>1 DEF Exchange, Quiet, Unread, InTail, InCall, Done, Busy, Idle
  <1> QED BY <1>1 DEF Inv, Exchanges

\* A step that leaves calls and pieces alone.
LEMMA ExchangesStay ==
  ASSUME Inv, UNCHANGED <<client, channels>>,
         \A d \in Clients :
           \/ thread'[d] = thread[d]
           \/ Idle(d) /\ Idle(d)'
  PROVE  Exchanges'
  <1>1. ASSUME NEW d \in Clients, Exchange(d) PROVE Exchange(d)'
    BY <1>1 DEF Exchange, Quiet, Unread, InTail, InCall, Done, Busy, Idle, channels
  <1> QED BY <1>1 DEF Inv, Exchanges, channels

LEMMA ExchangesGoto ==
  ASSUME Inv, UNCHANGED <<client, channels>>, NEW c \in Clients, Idle(c),
         NEW pc \in {"starting", "reading", "close", "free", "freeFailed", "throw",
                     "ended", "left"},
         Goto(c, pc)
  PROVE  Exchanges'
  <1>1. Idle(c)' BY DEF Goto, Idle, Inv, Typed, ThreadTyped
  <1>2. \A d \in Clients \ {c} : thread'[d] = thread[d]
    BY DEF Goto, Inv, Typed, ThreadTyped
  <1> QED BY <1>1, <1>2, ExchangesStay

LEMMA ExchangesClient ==
  ASSUME Inv, NEW c \in Clients,
         Connect(c) \/ Send(c) \/ SendRest(c) \/ Receive(c) \/ Hangup(c)
  PROVE  Exchanges'
  <1>1. /\ UNCHANGED <<torn, thread>>
        /\ \A d \in Clients \ {c} : /\ client'[d] = client[d] /\ up'[d] = up[d]
                                    /\ down'[d] = down[d]
    <2> USE DEF Inv, Typed, ClientTyped, ChannelsTyped
    <2>1. CASE Connect(c) BY <2>1 DEF Connect, channels
    <2>2. CASE Send(c) BY <2>2 DEF Send
    <2>3. CASE SendRest(c) BY <2>3 DEF SendRest
    <2>4. CASE Receive(c) BY <2>4 DEF Receive
    <2>5. CASE Hangup(c) BY <2>5 DEF Hangup, channels
    <2> QED BY <2>1, <2>2, <2>3, <2>4, <2>5
  <1>2. SUFFICES ASSUME c \notin torn, client'[c].pc # "closed"
                 PROVE  Exchange(c)'
    BY <1>1, OtherExchanges
  <1>3. CASE Connect(c)
    <2>1. /\ client[c].pc = "new" /\ client'[c].pc = "idle"
          /\ UNCHANGED <<up, down, thread>>
      BY <1>3 DEF Connect, channels, Inv, Typed, ClientTyped
    <2>2. Quiet(c)
      BY <1>2, <2>1
         DEF Inv, Exchanges, Exchange, Unread, InTail, InCall, Done, Busy
    <2>3. Quiet(c)' BY <2>1, <2>2 DEF Quiet, Idle
    <2> QED BY <2>3 DEF Exchange
  <1>4. CASE Send(c)
    <2>1. PICK m \in Messages :
            /\ client' = [client EXCEPT ![c] =
                            [pc |-> IF m.rest = 0 THEN "waiting" ELSE "sending",
                             call |-> m.name, left |-> m.rest]]
            /\ up' = [up EXCEPT ![c] = Append(@, m)]
      BY <1>4 DEF Send
    <2>2. client[c].pc = "idle" /\ UNCHANGED <<down, thread>> BY <1>4 DEF Send
    <2>3. Quiet(c)
      BY <1>2, <2>2
         DEF Inv, Exchanges, Exchange, Unread, InTail, InCall, Done, Busy
    <2>4. /\ client'[c].call = m.name /\ client'[c].left = m.rest
          /\ client'[c].pc \in {"sending", "waiting"}
      BY <2>1 DEF Inv, Typed, ClientTyped
    <2>5. up'[c] = <<m>>
      BY <2>1, <2>3 DEF Quiet, Inv, Typed, ChannelsTyped
    <2>6. m.rest \in Nat BY MessageTypes, BoundAssumption
    <2>7. up'[c] # <<>> /\ up'[c][1] = m /\ Len(up'[c]) = 1 + m.rest - m.rest
      BY <2>5, <2>6
    <2>8. Unread(c)'
      BY <2>2, <2>3, <2>4, <2>7 DEF Unread, Quiet, Busy, Idle
    <2> QED BY <2>8 DEF Exchange
  <1>5. CASE SendRest(c)
    <2>1. /\ client[c].pc = "sending" /\ UNCHANGED <<down, thread>>
          /\ up' = [up EXCEPT ![c] = Append(@, Call("rest", 0))]
      BY <1>5 DEF SendRest
    <2>2. /\ client'[c].pc \in {"sending", "waiting"}
          /\ client'[c].call = client[c].call
          /\ client'[c].left = client[c].left - 1
      BY <1>5 DEF SendRest, Inv, Typed, ClientTyped
    <2>3. client[c].left \in Int
      BY BoundAssumption DEF Inv, Typed, ClientTyped
    <2>4. up[c] \in Seq(Pieces) /\ up'[c] = Append(up[c], Call("rest", 0))
      BY <2>1 DEF Inv, Typed, ChannelsTyped
    <2>5. /\ Len(up'[c]) = Len(up[c]) + 1 /\ up'[c] # <<>> /\ Len(up[c]) \in Nat
          /\ up[c] # <<>> => up'[c][1] = up[c][1]
      BY <2>4
    <2>6. Unread(c) \/ InTail(c)
      BY <1>2, <2>1
         DEF Inv, Exchanges, Exchange, Quiet, InCall, Done
    <2>7. CASE Unread(c)
      <3>1. up[c][1].rest \in Int
        BY <2>7, MessageTypes, BoundAssumption DEF Unread
      <3>2. Len(up'[c]) = 1 + up'[c][1].rest - client'[c].left
        <4>1. Len(up[c]) = 1 + up[c][1].rest - client[c].left /\ up[c] # <<>>
          BY <2>7 DEF Unread
        <4>2. up'[c][1].rest = up[c][1].rest BY <2>5, <4>1
        <4>3. Len(up'[c]) = 1 + up[c][1].rest - (client[c].left - 1)
          BY <2>3, <2>5, <3>1, <4>1, SMTT(40)
        <4> QED BY <2>2, <4>2, <4>3
      <3>3. Unread(c)'
        BY <2>1, <2>2, <2>5, <2>7, <3>2 DEF Unread, Busy, Idle
      <3> QED BY <3>3 DEF Exchange
    <2>8. CASE InTail(c)
      <3>1. thread[c].want \in Int
        BY BoundAssumption DEF Inv, Typed, ThreadTyped
      <3>2. Len(up'[c]) = thread[c].want - client'[c].left
        BY <2>2, <2>3, <2>5, <2>8, <3>1 DEF InTail
      <3>3. InTail(c)'
        BY <2>1, <2>2, <2>8, <3>2 DEF InTail, Busy
      <3> QED BY <3>3 DEF Exchange
    <2> QED BY <2>6, <2>7, <2>8
  <1>6. CASE Receive(c)
    <2>1. /\ client[c].pc = "waiting" /\ down[c] # <<>> /\ client'[c].pc = "idle"
          /\ down' = [down EXCEPT ![c] = Tail(@)] /\ UNCHANGED <<up, thread>>
      BY <1>6 DEF Receive, Inv, Typed, ClientTyped
    <2>2. Done(c)
      BY <1>2, <2>1
         DEF Inv, Exchanges, Exchange, Quiet, Unread, InTail, InCall
    <2>3. down[c] = <<client[c].call>> BY <2>1, <2>2 DEF Done
    <2>4. Tail(down[c]) = <<>> BY <2>3
    <2>5. Quiet(c)'
      BY <2>1, <2>2, <2>4 DEF Done, Quiet, Idle, Inv, Typed, ChannelsTyped
    <2> QED BY <2>5 DEF Exchange
  <1>7. CASE Hangup(c)
    <2>1. client'[c].pc = "closed" BY <1>7 DEF Hangup, Inv, Typed, ClientTyped
    <2> QED BY <1>2, <2>1
  <1> QED BY <1>3, <1>4, <1>5, <1>6, <1>7

LEMMA ExchangesAcceptor ==
  ASSUME Inv, AcceptorStep
  PROVE  Exchanges'
  <1>1. CASE Dies
    BY <1>1, ExchangesStay DEF Dies
  <1>2. CASE Accept
    <2>1. PICK f \in FreeFds : thread' = [thread EXCEPT ![Head(backlog)].fd = f]
      BY <1>2 DEF Accept
    <2>2. UNCHANGED <<client, channels>> BY <1>2 DEF Accept
    <2>3. \A d \in Clients : /\ thread'[d].pc = thread[d].pc
                             /\ thread'[d].call = thread[d].call
                             /\ thread'[d].want = thread[d].want
      BY <2>1 DEF Inv, Typed, ThreadTyped
    <2>4. ASSUME NEW d \in Clients, Exchange(d) PROVE Exchange(d)'
      BY <2>2, <2>3, <2>4
         DEF Exchange, Quiet, Unread, InTail, InCall, Done, Busy, Idle, channels
    <2> QED BY <2>2, <2>4 DEF Inv, Exchanges, channels
  <1>3. CASE Enlist BY <1>3, ExchangesStay DEF Enlist
  <1>4. CASE StartThread
    <2>1. acceptor.conn \in Clients /\ thread[acceptor.conn].pc = "none"
      BY <1>4 DEF StartThread, Inv, Bound, Accepted
    <2>2. Idle(acceptor.conn) BY <2>1 DEF Idle
    <2> QED BY <1>4, <2>1, <2>2, ExchangesGoto DEF StartThread
  <1>5. CASE SetId /\ ~Dies BY <1>5, ExchangesStay DEF SetId
  <1> QED BY <1>1, <1>2, <1>3, <1>4, <1>5 DEF AcceptorStep, AcceptFails

LEMMA ExchangesRead ==
  ASSUME Inv, NEW c \in Clients, Read(c)
  PROVE  Exchanges'
  <1>1. PICK n \in 1 .. Len(up[c]), m \in Messages :
           /\ n \in Taken(up[c]) /\ m \in Parsed(up[c][1])
           /\ \/ m.rest = 0 /\ Running(c, m.name)
              \/ m.rest > 0 /\ thread' = [thread EXCEPT ![c].pc = "tail",
                                                       ![c].want = m.rest]
           /\ up' = [up EXCEPT ![c] = SubSeq(@, n + 1, Len(@))]
           /\ UNCHANGED <<client, down, torn>>
    BY ReadFinds
  <1>2. /\ \A d \in Clients \ {c} : up'[d] = up[d] /\ thread'[d] = thread[d]
        /\ up'[c] = SubSeq(up[c], n + 1, Len(up[c]))
    BY <1>1 DEF Inv, Typed, ChannelsTyped, ThreadTyped, Running
  <1>3. SUFFICES ASSUME c \notin torn, client[c].pc # "closed"
                 PROVE  Exchange(c)'
    BY <1>1, <1>2, OtherExchanges
  <1>4. thread[c].pc = "reading" BY DEF Read, At
  <1>5. up[c] \in Seq(Pieces) /\ up[c] # <<>>
    BY <1>1 DEF Inv, Typed, ChannelsTyped
  <1>6. Unread(c)
    BY <1>3, <1>4, <1>5 DEF Inv, Exchanges, Exchange, Quiet, InTail, InCall, Done
  <1>7. m = up[c][1] /\ n = 1
    BY <1>1, <1>6, MessageTypes DEF Unread, Parsed, Taken
  <1>8. /\ m.rest \in Nat /\ client[c].left \in Nat /\ m.name = client[c].call
        /\ Len(up[c]) = 1 + m.rest - client[c].left
    BY <1>6, <1>7, MessageTypes, BoundAssumption DEF Unread, Inv, Typed, ClientTyped
  <1>9. up'[c] \in Seq(Pieces) /\ Len(up'[c]) = m.rest - client[c].left
    <2>1. n \in 0 .. Len(up[c]) BY <1>5
    <2>2. Len(up'[c]) = Len(up[c]) - n BY <1>2, <1>5, <2>1, Dropped
    <2>3. up'[c] \in Seq(Pieces) BY <1>2, <1>5, <2>1, Dropped
    <2> QED BY <1>7, <1>8, <2>2, <2>3
  <1>10. CASE m.rest = 0 /\ Running(c, m.name)
    <2>1. thread'[c].pc = "running" /\ thread'[c].call = m.name
      BY <1>10 DEF Running, Inv, Typed, ThreadTyped
    <2>2. Len(up'[c]) \in Nat BY <1>9
    <2>3. client[c].left = 0 /\ Len(up'[c]) = 0 BY <1>8, <1>9, <1>10, <2>2
    <2>4. up'[c] = <<>> BY <1>9, <2>3, NothingLeft
    <2>5. client[c].pc = "waiting"
      BY <1>6, <2>3 DEF Unread, Busy, Inv, Typed, ClientTyped
    <2>6. InCall(c)'
      BY <1>1, <1>6, <1>8, <2>1, <2>4, <2>5 DEF InCall, Unread
    <2> QED BY <2>6 DEF Exchange
  <1>11. CASE m.rest > 0 /\ thread' = [thread EXCEPT ![c].pc = "tail",
                                                    ![c].want = m.rest]
    <2>1. thread'[c].pc = "tail" /\ thread'[c].want = m.rest
      BY <1>11 DEF Inv, Typed, ThreadTyped
    <2>2. m.name = "write" BY <1>8, <1>11, MessageTypes
    <2>3. InTail(c)'
      BY <1>1, <1>6, <1>8, <1>9, <2>1, <2>2 DEF InTail, Unread, Busy
    <2> QED BY <2>3 DEF Exchange
  <1> QED BY <1>1, <1>10, <1>11

LEMMA ExchangesReadTail ==
  ASSUME Inv, NEW c \in Clients, ReadTail(c)
  PROVE  Exchanges'
  <1>1. CASE Dies BY <1>1, ExchangesStay DEF Dies
  <1>2. CASE ~Dies
    <2>1. PICK n \in 0 .. Len(up[c]) :
             /\ n <= thread[c].want
             /\ n < thread[c].want => n = Len(up[c]) /\ c \in torn'
             /\ torn' \in {torn, torn \cup {c}}
             /\ up' = [up EXCEPT ![c] = SubSeq(@, n + 1, Len(@))]
             /\ Running(c, "write")
             /\ UNCHANGED <<client, down>>
      BY <1>2, ReadTailFinds
    <2>2. /\ \A d \in Clients \ {c} : up'[d] = up[d] /\ thread'[d] = thread[d]
          /\ up'[c] = SubSeq(up[c], n + 1, Len(up[c]))
          /\ thread'[c].pc = "running" /\ thread'[c].call = "write"
      BY <2>1 DEF Inv, Typed, ChannelsTyped, ThreadTyped, Running
    <2>3. SUFFICES ASSUME c \notin torn', client[c].pc # "closed"
                   PROVE  Exchange(c)'
      BY <2>1, <2>2, OtherExchanges
    <2>4. thread[c].pc = "tail" /\ c \notin torn
      BY <2>1, <2>3 DEF ReadTail, At
    <2>5. InTail(c)
      BY <2>3, <2>4
         DEF Inv, Exchanges, Exchange, Quiet, Unread, InCall, Done, Idle
    <2>6. /\ thread[c].want \in Nat /\ client[c].left \in Nat
          /\ up[c] \in Seq(Pieces) /\ Len(up[c]) \in Nat
      BY BoundAssumption DEF Inv, Typed, ThreadTyped, ClientTyped, ChannelsTyped
    <2>7. Len(up[c]) = thread[c].want - client[c].left BY <2>5 DEF InTail
    <2>8. n = thread[c].want /\ client[c].left = 0 /\ n = Len(up[c])
      BY <2>1, <2>3, <2>6, <2>7
    <2>9. up'[c] \in Seq(Pieces) /\ Len(up'[c]) = Len(up[c]) - n
      BY <2>2, <2>6, Dropped
    <2>10. Len(up'[c]) = 0 BY <2>6, <2>8, <2>9
    <2>11. up'[c] = <<>> BY <2>9, <2>10, NothingLeft
    <2>12. client[c].pc = "waiting"
      BY <2>5, <2>8 DEF InTail, Busy, Inv, Typed, ClientTyped
    <2>13. InCall(c)'
      BY <2>1, <2>2, <2>5, <2>11, <2>12 DEF InCall, InTail
    <2> QED BY <2>13 DEF Exchange
  <1> QED BY <1>1, <1>2

LEMMA ExchangesAnswer ==
  ASSUME Inv, NEW c \in Clients, Answer(c) \/ Ignore(c) \/ AnswerFails(c)
  PROVE  Exchanges'
  <1>1. CASE Dies BY <1>1, ExchangesStay DEF Dies
  <1>2. thread[c].pc = "running" BY DEF Answer, Ignore, AnswerFails, At
  <1>3. Peer(c) = c BY <1>2, OwnPeer, ServingPcs DEF Inv
  <1>4. CASE ~Dies
    <2>1. PICK pc \in {"reading", "close"} : Goto(c, pc)
      BY <1>4 DEF Answer, Ignore, AnswerFails
    <2>2. /\ thread'[c].pc = pc /\ \A d \in Clients \ {c} : thread'[d] = thread[d]
      BY <2>1 DEF Goto, Inv, Typed, ThreadTyped
    <2>3. UNCHANGED <<client, up, torn>>
      BY <1>4 DEF Answer, Ignore, AnswerFails, channels
    <2>4. \/ down' = [down EXCEPT ![c] = Append(@, thread[c].call)]
          \/ UNCHANGED down
      BY <1>3, <1>4 DEF Answer, Ignore, AnswerFails, channels
    <2>5. \A d \in Clients \ {c} : down'[d] = down[d]
      BY <2>4 DEF Inv, Typed, ChannelsTyped
    <2>6. SUFFICES ASSUME c \notin torn, client[c].pc # "closed"
                   PROVE  Exchange(c)'
      BY <2>2, <2>3, <2>5, OtherExchanges
    <2>7. InCall(c)
      BY <1>2, <2>6
         DEF Inv, Exchanges, Exchange, Quiet, Unread, InTail, Done, Idle
    <2>8. down'[c] \in {<<>>, <<client[c].call>>}
      BY <2>4, <2>7 DEF InCall, Inv, Typed, ChannelsTyped
    <2>9. Done(c)' BY <2>2, <2>3, <2>7, <2>8 DEF Done, InCall, Idle
    <2> QED BY <2>9 DEF Exchange
  <1> QED BY <1>1, <1>4

LEMMA ExchangesThread ==
  ASSUME Inv, NEW c \in Clients,
         Begin(c) \/ ReadEnd(c) \/ Close(c) \/ Free(c)
  PROVE  Exchanges'
  <1>1. /\ Idle(c) /\ UNCHANGED <<client, channels>>
    BY DEF Begin, ReadEnd, Close, Free, At, Idle
  <1>2. \E pc \in {"reading", "free", "freeFailed", "left", "ended", "throw"} :
          Goto(c, pc)
    BY DEF Begin, ReadEnd, Close, Free, AfterClose
  <1> QED BY <1>1, <1>2, ExchangesGoto

-----------------------------------------------------------------------------
(* The theorems *)

LEMMA InvInit == Init => Inv
  <1> SUFFICES ASSUME Init PROVE Inv OBVIOUS
  <1>1. Exchanges
    BY DEF Init, Exchanges, Exchange, Quiet, Idle
  <1> QED BY <1>1, TypedInit, BoundInit DEF Inv

LEMMA InvStep ==
  ASSUME Inv, Next
  PROVE  Inv'
  <1>1. CASE Dies
    BY <1>1, TypedDies, BoundDies, ExchangesStay DEF Inv, Dies
  <1>2. ASSUME NEW c \in Clients,
               Connect(c) \/ Send(c) \/ SendRest(c) \/ Receive(c) \/ Hangup(c)
        PROVE  Inv'
    <2>1. Exchanges' BY <1>2, ExchangesClient
    <2>2. Typed'
      BY <1>2, TypedConnect, TypedSend, TypedSendRest, TypedReceive, TypedHangup
    <2>3. Bound' BY <1>2, BoundConnect, BoundClient
    <2> QED BY <2>1, <2>2, <2>3 DEF Inv
  <1>3. CASE AcceptorStep
    <2>1. Exchanges' BY <1>3, ExchangesAcceptor
    <2>2. Typed'
      BY <1>3, TypedAccept, TypedDies, TypedEnlist, TypedStartThread, TypedSetId
         DEF AcceptorStep, AcceptFails
    <2>3. Bound'
      BY <1>3, BoundAccept, BoundDies, BoundEnlist, BoundStartThread, BoundSetId
         DEF AcceptorStep, AcceptFails
    <2> QED BY <2>1, <2>2, <2>3 DEF Inv
  <1>4. ASSUME NEW c \in Clients,
               Proceed(c) \/ Answer(c) \/ AnswerFails(c) \/ RunFails(c), ~Dies
        PROVE  Inv'
    <2>1. \/ Begin(c) \/ Read(c) \/ ReadEnd(c) \/ ReadTail(c) \/ Ignore(c)
          \/ Answer(c) \/ AnswerFails(c) \/ Close(c) \/ Free(c)
      BY <1>4 DEF Proceed, RunFails, Throw
    <2>2. Exchanges'
      BY <2>1, ExchangesRead, ExchangesReadTail, ExchangesAnswer, ExchangesThread
    <2>3. Typed'
      BY <2>1, TypedThread, TypedRead, TypedReadTail, TypedAnswer,
         TypedAnswerFails, TypedFree
    <2>4. Bound' BY <2>1, BoundThread, BoundClose, BoundFree
    <2> QED BY <2>2, <2>3, <2>4 DEF Inv
  <1> QED BY <1>1, <1>2, <1>3, <1>4 DEF Next

LEMMA InvNext == Inv /\ [Next]_vars => Inv'
  <1> SUFFICES ASSUME Inv, [Next]_vars PROVE Inv' OBVIOUS
  <1>1. CASE UNCHANGED vars
    <2>1. UNCHANGED <<client, channels, files, backlog, acceptor, table, thread, proc>>
      BY <1>1 DEF vars, channels, table
    <2>2. Typed' BY <2>1, TypedUnchanged DEF Inv, Typed
    <2>3. Serving' = Serving BY <2>1 DEF Serving
    <2>4. Bound' BY <2>1, <2>3, BoundStays
    <2>5. Exchanges' BY <2>1, ExchangesStay
    <2> QED BY <2>2, <2>4, <2>5 DEF Inv
  <1> QED BY <1>1, InvStep

\* The invariant of the server: the types, the descriptors and the list, and
\* what is on the way on each channel.
THEOREM ServerConsistent == Spec => []Inv
  BY InvInit, InvNext, PTL DEF Spec

\* Every variable keeps its type; no thread counts pieces below nothing.
THEOREM TypeCorrect == Spec => []TypeOK
  <1>1. Inv => TypeOK
    BY DEF Inv, Typed, ClientTyped, ChannelsTyped, ThreadTyped, TableTyped, TypeOK
  <1> QED BY <1>1, ServerConsistent, PTL

\* For any number of clients and descriptors, no thread of socket_ipc_open uses
\* or closes the descriptor of another, although the list of ipc_free_thread
\* names descriptors that were given again.
THEOREM ChannelsNeverCross == Spec => []ChannelsStayConnected
  <1>1. Inv => ChannelsStayConnected
    BY DEF Inv, Bound, Connected, Peer, ChannelsStayConnected
  <1> QED BY <1>1, ServerConsistent, PTL

\* ipc_free_thread always finds an entry, and a thread that starts reads its
\* descriptor from its own.
THEOREM EntriesAreFound == Spec => []EntriesOutliveThreads
  <1>1. Inv => EntriesOutliveThreads BY DEF Inv, Bound
  <1> QED BY <1>1, ServerConsistent, PTL

\* The list keeps one entry for ever for each read of ipc_read that could not
\* be answered, and socket_count says so.
THEOREM ListIsCounted == Spec => []ListGrowsByFailures
  <1>1. Inv => ListGrowsByFailures BY DEF Inv, Bound, Counting
  <1> QED BY <1>1, ServerConsistent, PTL

\* demux_ipc_socket_call answers the call that was made, unless the read of
\* ipc_write has torn a payload.
THEOREM AnswersAreRight == Spec => []AnswersMatchCalls
  <1>1. ASSUME Inv PROVE AnswersMatchCalls
    <2>1. ASSUME NEW c \in Clients \ torn, client[c].pc # "closed"
          PROVE  /\ down[c] # <<>> =>
                      client[c].pc = "waiting" /\ down[c] = <<client[c].call>>
                 /\ thread[c].pc = "running" =>
                      client[c].pc = "waiting" /\ thread[c].call = client[c].call
      <3>1. Exchange(c) BY <1>1, <2>1 DEF Inv, Exchanges
      <3> QED BY <3>1 DEF Exchange, Quiet, Unread, InTail, InCall, Done, Idle
    <2> QED BY <2>1 DEF AnswersMatchCalls
  <1> QED BY <1>1, ServerConsistent, PTL

=============================================================================
