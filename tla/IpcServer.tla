------------------------------- MODULE IpcServer -------------------------------
(***************************************************************************)
(* The server of src/ipc.cpp, through which the programs on the host use   *)
(* the stack: the loop of start_ipc_listener, the list of Ipc_Threads      *)
(* under norm_mutex, and one thread for each channel, which reads a call,  *)
(* runs it and sends the answer.                                           *)
(*                                                                         *)
(* A client is the other end of one channel, a Unix stream socket.  It     *)
(* makes one call at a time and may end at any moment.  A call that fits   *)
(* the buffer of 8192 bytes arrives whole; the rest of a longer write      *)
(* comes in pieces.  The list finds its entries by descriptor, and the     *)
(* kernel gives descriptors again: an entry that outlives its thread is    *)
(* taken for that of a later channel.                                      *)
(***************************************************************************)
EXTENDS Integers, FiniteSets, SequencesExt

CONSTANTS
  Clients,
  Fds,       \* the descriptors that accept may return
  Made,      \* the calls that the clients make
  MaxRest,   \* the pieces a call may have beyond the buffer
  Capacity,  \* the pieces, or answers, a channel holds in each direction
  NULL

VARIABLES
  client,         \* each client: what it does, its call, the pieces to be sent
  up, down,       \* the pieces and the answers on the way, by client
  torn,           \* the channels on which a tail was read short
  files,          \* the client behind each descriptor, or NULL
  backlog,        \* clients that wait to be accepted
  acceptor,       \* where the accept loop is, and with whom
  sockets_queue,  \* the Ipc_Threads, by client, from head to tail
  socket_count,
  thread,         \* the thread of each channel: where it is, its descriptor,
                  \* the call it runs, the pieces it still wants
  proc            \* "up", or "down" once an exception ends the process

vars == <<client, up, down, torn, files, backlog, acceptor, sockets_queue,
          socket_count, thread, proc>>

channels == <<up, down, torn>>
table == <<sockets_queue, socket_count>>

ASSUME NullAssumption == NULL \notin Clients \cup Fds

ASSUME BoundAssumption == MaxRest \in Nat /\ Capacity \in Nat \ {0}

\* socket stands for every call that is answered at once: connect, close,
\* fcntl, getsockopt, getpeername and getsockname too.
Calls == {"socket", "write", "read", "poll", "poll for ever", "setsockopt"}

\* A piece of a call: its beginning, or some of what did not fit the buffer.
Call(name, rest) == [name |-> name, rest |-> rest]

Messages == {Call(n, 0) : n \in Made}
            \cup {Call(n, k) : n \in Made \cap {"write"}, k \in 0 .. MaxRest}

ASSUME CallAssumption == Made \subseteq Calls

Pieces == Messages \cup {Call("rest", 0)}

Init == /\ client = [c \in Clients |-> [pc |-> "new", call |-> NULL, left |-> 0]]
        /\ up = [c \in Clients |-> <<>>]
        /\ down = [c \in Clients |-> <<>>]
        /\ torn = {}
        /\ files = [f \in Fds |-> NULL]
        /\ backlog = <<>>
        /\ acceptor = [pc |-> "accept", conn |-> NULL]
        /\ sockets_queue = <<>>
        /\ socket_count = 0
        /\ thread = [c \in Clients |->
                       [pc |-> "none", fd |-> NULL, call |-> NULL, want |-> 0]]
        /\ proc = "up"

Up == proc = "up"

Dies == /\ proc' = "down"
        /\ UNCHANGED <<client, channels, files, backlog, acceptor, table, thread>>

At(c, pc) == Up /\ thread[c].pc = pc

\* A thread goes on, outside of any call or with the one it runs.
Goto(c, pc) == thread' = [thread EXCEPT ![c].pc = pc, ![c].call = NULL]

Running(c, name) == thread' = [thread EXCEPT ![c].pc = "running", ![c].call = name,
                                             ![c].want = 0]

-----------------------------------------------------------------------------
(* The clients *)

Connect(c) ==
  /\ Up /\ client[c].pc = "new"
  /\ client' = [client EXCEPT ![c].pc = "idle"]
  /\ backlog' = Append(backlog, c)
  /\ UNCHANGED <<channels, files, acceptor, table, thread, proc>>

\* A call is sent; send waits while the channel is full.
Send(c) ==
  /\ Up /\ client[c].pc = "idle" /\ Len(up[c]) < Capacity
  /\ \E m \in Messages :
       /\ client' = [client EXCEPT ![c] =
                       [pc |-> IF m.rest = 0 THEN "waiting" ELSE "sending",
                        call |-> m.name, left |-> m.rest]]
       /\ up' = [up EXCEPT ![c] = Append(@, m)]
  /\ UNCHANGED <<down, torn, files, backlog, acceptor, table, thread, proc>>

SendRest(c) ==
  /\ Up /\ client[c].pc = "sending" /\ Len(up[c]) < Capacity
  /\ client' = [client EXCEPT ![c].left = @ - 1,
                              ![c].pc = IF client[c].left = 1 THEN "waiting" ELSE @]
  /\ up' = [up EXCEPT ![c] = Append(@, Call("rest", 0))]
  /\ UNCHANGED <<down, torn, files, backlog, acceptor, table, thread, proc>>

Receive(c) ==
  /\ Up /\ client[c].pc = "waiting" /\ down[c] # <<>>
  /\ client' = [client EXCEPT ![c].pc = "idle", ![c].call = NULL]
  /\ down' = [down EXCEPT ![c] = Tail(@)]
  /\ UNCHANGED <<up, torn, files, backlog, acceptor, table, thread, proc>>

\* The client closes the channel or ends, in the middle of a call or not.
Hangup(c) ==
  /\ Up /\ client[c].pc \in {"idle", "sending", "waiting"}
  /\ client' = [client EXCEPT ![c] = [pc |-> "closed", call |-> NULL, left |-> 0]]
  /\ UNCHANGED <<channels, files, backlog, acceptor, table, thread, proc>>

Gone(c) == client[c].pc = "closed"

-----------------------------------------------------------------------------
(* The accept loop *)

FreeFds == {f \in Fds : files[f] = NULL}

\* The kernel gives the lowest descriptor that was free when accept began to
\* wait, here any that is free.
Accept ==
  /\ Up /\ acceptor.pc = "accept" /\ backlog # <<>>
  /\ \E f \in FreeFds :
       /\ files' = [files EXCEPT ![f] = Head(backlog)]
       /\ thread' = [thread EXCEPT ![Head(backlog)].fd = f]
  /\ acceptor' = [pc |-> "enlist", conn |-> Head(backlog)]
  /\ backlog' = Tail(backlog)
  /\ UNCHANGED <<client, channels, table, proc>>

\* accept fails when the process has no descriptor left.
AcceptFails ==
  /\ Up /\ acceptor.pc = "accept" /\ FreeFds = {}
  /\ Dies

\* Mutant of Counted: the new entry is not counted.
CountedNot(n) == n

Counted(n) == n + 1

\* The constructor of Ipc_Thread.
Enlist ==
  /\ Up /\ acceptor.pc = "enlist"
  /\ sockets_queue' = Append(sockets_queue, acceptor.conn)
  /\ socket_count' = Counted(socket_count)
  /\ acceptor' = [acceptor EXCEPT !.pc = "start"]
  /\ UNCHANGED <<client, channels, files, backlog, thread, proc>>

StartThread ==
  /\ Up /\ acceptor.pc = "start"
  /\ Goto(acceptor.conn, "starting")
  /\ acceptor' = [acceptor EXCEPT !.pc = "setId"]
  /\ UNCHANGED <<client, channels, files, backlog, table, proc>>

\* The id goes into the entry, which the thread may have deleted by now.
SetId ==
  /\ Up /\ acceptor.pc = "setId"
  /\ \/ /\ acceptor' = [pc |-> "accept", conn |-> NULL]
        /\ UNCHANGED <<client, channels, files, backlog, table, thread, proc>>
     \/ /\ acceptor.conn \notin Range(sockets_queue)
        /\ Dies

-----------------------------------------------------------------------------
(* The thread of a channel *)

\* *args, the descriptor in the entry, is copied.
Begin(c) ==
  /\ At(c, "starting")
  /\ Goto(c, "reading")
  /\ UNCHANGED <<client, channels, files, backlog, acceptor, table, proc>>

\* The client behind the descriptor of a thread.
Peer(c) == files[thread[c].fd]

\* What the buffer shows to the thread: the call that begins in it, or any
\* call when what it holds is left from an earlier one.
Parsed(p) == IF p.name = "rest" THEN Messages ELSE {p}

\* Mutant of Wanted: the buffer is taken for the whole of a write.
WantedNone(m) == 0

\* The pieces of a call that ipc_write reads after the buffer.
Wanted(m) == m.rest

\* A piece that is left does not fill the buffer, so that the beginning of the
\* next call may be read along with it.
Taken(q) == IF q[1].name = "rest" /\ Len(q) > 1 THEN {1, 2} ELSE {1}

Read(c) ==
  LET d == Peer(c)
  IN  /\ At(c, "reading") /\ up[d] # <<>>
      /\ \E n \in Taken(up[d]), m \in Parsed(Head(up[d])) :
           /\ \/ Wanted(m) = 0 /\ Running(c, m.name)
              \/ Wanted(m) > 0 /\ thread' = [thread EXCEPT ![c].pc = "tail",
                                                          ![c].want = Wanted(m)]
           /\ up' = [up EXCEPT ![d] = SubSeq(@, n + 1, Len(@))]
      /\ UNCHANGED <<client, down, torn, files, backlog, acceptor, table, proc>>

\* The end of the channel; read fails if the client left an answer unread.
ReadEnd(c) ==
  LET d == Peer(c)
  IN  /\ At(c, "reading") /\ up[d] = <<>> /\ Gone(d)
      /\ Goto(c, IF down[d] = <<>> THEN "free" ELSE "freeFailed")
      /\ UNCHANGED <<client, channels, files, backlog, acceptor, table, proc>>

\* The second read of ipc_write takes what is there, and what is missing is
\* written as it lies in the buffer.
ReadTail(c) ==
  LET d == Peer(c)
      n == IF Len(up[d]) < thread[c].want THEN Len(up[d]) ELSE thread[c].want
  IN  /\ At(c, "tail")
      /\ \/ /\ n > 0 \/ (Gone(d) /\ down[d] = <<>>)
            /\ up' = [up EXCEPT ![d] = SubSeq(@, n + 1, Len(@))]
            /\ torn' = IF n < thread[c].want THEN torn \cup {d} ELSE torn
            /\ Running(c, "write")
            /\ UNCHANGED <<client, down, files, backlog, acceptor, table, proc>>
         \/ /\ n = 0 /\ Gone(d) /\ down[d] # <<>>
            /\ Dies

\* Mutant of Answers: a read falls through to the calls of unknown type.
AnswersNoRead(call) == call \notin {"setsockopt", "read"}

\* setsockopt has a number and no handler.
Answers(call) == call # "setsockopt"

\* The call is run and its answer sent, if the client is still there.
Answer(c) ==
  LET d == Peer(c)
  IN  /\ At(c, "running") /\ Answers(thread[c].call) /\ ~Gone(d)
      /\ Len(down[d]) < Capacity
      /\ down' = [down EXCEPT ![d] = Append(@, thread[c].call)]
      /\ Goto(c, "reading")
      /\ UNCHANGED <<client, up, torn, files, backlog, acceptor, table, proc>>

\* A call of unknown type is dropped.
Ignore(c) ==
  /\ At(c, "running") /\ ~Answers(thread[c].call)
  /\ Goto(c, "reading")
  /\ UNCHANGED <<client, channels, files, backlog, acceptor, table, proc>>

\* The client is gone: ipc_read reports it, the others throw.
AnswerFails(c) ==
  /\ At(c, "running") /\ Answers(thread[c].call) /\ Gone(Peer(c))
  /\ IF thread[c].call = "read"
     THEN /\ Goto(c, "close")
          /\ UNCHANGED <<client, channels, files, backlog, acceptor, table, proc>>
     ELSE Dies

\* What the call does in the stack may end the process.
RunFails(c) ==
  /\ At(c, "running") /\ Answers(thread[c].call)
  /\ Dies

\* Mutant of AfterClose: the thread leaves through the end of its loop.
AfterCloseFrees == "free"

AfterClose == "left"

\* The error path of socket_ipc_open leaves the entry in the list.
Close(c) ==
  /\ At(c, "close")
  /\ files' = [files EXCEPT ![thread[c].fd] = NULL]
  /\ Goto(c, AfterClose)
  /\ UNCHANGED <<client, channels, backlog, acceptor, table, proc>>

\* Mutant of Entries: whatever comes first in the list.
EntriesAny(f) == DOMAIN sockets_queue

\* The entries with the descriptor f.
Entries(f) == {i \in DOMAIN sockets_queue : thread[sockets_queue[i]].fd = f}

\* Mutant of ipc_free_thread: the descriptor stays open.
ipc_free_threadOpen(f) ==
  IF Entries(f) = {} THEN UNCHANGED <<table, files>>
  ELSE /\ sockets_queue' = RemoveAt(sockets_queue, Min(Entries(f)))
       /\ socket_count' = socket_count - 1
       /\ UNCHANGED files

\* ipc_free_thread: the first entry with the descriptor is deleted and the
\* descriptor closed.
ipc_free_thread(f) ==
  IF Entries(f) = {} THEN UNCHANGED <<table, files>>
  ELSE /\ sockets_queue' = RemoveAt(sockets_queue, Min(Entries(f)))
       /\ socket_count' = socket_count - 1
       /\ files' = [files EXCEPT ![f] = NULL]

Free(c) ==
  /\ Up /\ thread[c].pc \in {"free", "freeFailed"}
  /\ ipc_free_thread(thread[c].fd)
  /\ Goto(c, IF thread[c].pc = "free" THEN "ended" ELSE "throw")
  /\ UNCHANGED <<client, channels, backlog, acceptor, proc>>

Throw(c) == At(c, "throw") /\ Dies

-----------------------------------------------------------------------------
\* What a thread does by itself.  A poll for ever need not return, and no call
\* need end the process.
Proceed(c) ==
  \/ Begin(c)
  \/ Read(c)
  \/ ReadEnd(c)
  \/ ReadTail(c)
  \/ Ignore(c)
  \/ thread[c].call # "poll for ever" /\ (Answer(c) \/ AnswerFails(c))
  \/ Close(c)
  \/ Free(c)
  \/ Throw(c)

AcceptorStep == Accept \/ AcceptFails \/ Enlist \/ StartThread \/ SetId

Next == \/ \E c \in Clients : \/ Connect(c) \/ Send(c) \/ SendRest(c)
                            \/ Receive(c) \/ Hangup(c)
        \/ AcceptorStep
        \/ \E c \in Clients : \/ Proceed(c)
                            \/ Answer(c) \/ AnswerFails(c) \/ RunFails(c)

Spec == Init /\ [][Next]_vars

\* The scheduler runs every thread, and a client sends the whole of a call.
FairSpec == /\ Spec
            /\ WF_vars(AcceptorStep)
            /\ \A c \in Clients : WF_vars(Proceed(c)) /\ WF_vars(SendRest(c))

-----------------------------------------------------------------------------
(* Properties *)

\* Every variable has the values the code can give it.
TypeOK ==
  /\ client \in [Clients ->
       [pc : {"new", "idle", "sending", "waiting", "closed"},
        call : Calls \cup {NULL}, left : 0 .. MaxRest]]
  /\ up \in [Clients -> Seq(Pieces)] /\ down \in [Clients -> Seq(Calls)]
  /\ torn \subseteq Clients
  /\ files \in [Fds -> Clients \cup {NULL}]
  /\ backlog \in Seq(Clients)
  /\ acceptor \in [pc : {"accept", "enlist", "start", "setId"},
                   conn : Clients \cup {NULL}]
  /\ sockets_queue \in Seq(Clients) /\ socket_count \in Nat
  /\ thread \in [Clients ->
       [pc : {"none", "starting", "reading", "tail", "running", "close", "free",
              "freeFailed", "throw", "ended", "left"},
        fd : Fds \cup {NULL}, call : Calls \cup {NULL}, want : 0 .. MaxRest]]
  /\ proc \in {"up", "down"}

\* The threads that still have their descriptor.
Serving == {c \in Clients : thread[c].pc \in
              {"starting", "reading", "tail", "running", "close", "free",
               "freeFailed"}}

\* A descriptor leads a thread to its own client as long as it uses it: it is
\* closed by that thread alone, and no thread closes one that another was
\* given meanwhile.
ChannelsStayConnected ==
  \A c \in Serving : Peer(c) = c

\* A thread finds an entry with its descriptor when it ends, although another
\* thread may have taken its own; the entry it reads its descriptor from is
\* still its own.
EntriesOutliveThreads ==
  /\ \A c \in Serving :
       \E e \in Range(sockets_queue) : thread[e].fd = thread[c].fd
  /\ \A c \in Clients : thread[c].pc = "starting" => c \in Range(sockets_queue)

\* The list is counted right, and it has one entry for each channel that is
\* served and one for each read that could not be answered, for ever.
ListGrowsByFailures ==
  /\ socket_count = Len(sockets_queue)
  /\ Len(sockets_queue) =
       Cardinality(Serving)
       + Cardinality({c \in Clients : thread[c].pc = "left"})
       + (IF acceptor.pc = "start" THEN 1 ELSE 0)

\* A client gets the answer to the call it made and no other, unless a tail was
\* read short.
AnswersMatchCalls ==
  \A c \in Clients \ torn :
    /\ down[c] # <<>> /\ client[c].pc # "closed" =>
         client[c].pc = "waiting" /\ down[c] = <<client[c].call>>
    /\ thread[c].pc = "running" /\ client[c].pc # "closed" =>
         client[c].pc = "waiting" /\ thread[c].call = client[c].call

\* A call is answered, unless it waits for ever, has no handler or is torn, or
\* the client or the process ends.
CallsAnswered ==
  \A c \in Clients :
    (client[c].pc = "waiting" /\ client[c].call \notin {"poll for ever", "setsockopt"})
      ~> \/ client[c].pc # "waiting" \/ down[c] # <<>>
         \/ c \in torn \/ proc = "down"

\* The descriptor of a client that has gone is closed, unless its thread polls
\* for ever.
DescriptorsReturn ==
  \A c \in Clients :
    (client[c].pc = "closed" /\ c \in Range(files))
      ~> c \notin Range(files) \/ thread[c].call = "poll for ever" \/ proc = "down"

=============================================================================
