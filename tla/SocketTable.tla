------------------------------ MODULE SocketTable ------------------------------
(***************************************************************************)
(* The table of sockets of src/socket.cpp: sockets_queue and sock_amount   *)
(* under rw_mutex, the lock and the counter inside each Socket, and the    *)
(* threads that meet there.  A worker is the thread of one IPC channel and *)
(* each of its calls names a process; the receiver is the thread that runs    *)
(* tcp_in; the debugger is the thread of timers_start, which walks the     *)
(* table now and then.  What a call does inside a socket is the business   *)
(* of TcpSock: here it keeps the socket, makes connect fail, or ends the   *)
(* process.                                                                *)
(*                                                                         *)
(* get_socket and socket_lookup return a pointer and let rw_mutex go; the  *)
(* lock of the socket is taken later.  Between the two another thread may  *)
(* free the socket.                                                        *)
(***************************************************************************)
EXTENDS Integers, FiniteSets, SequencesExt

CONSTANTS
  Workers,
  Receiver,
  Debugger,
  Pids,
  Addr,       \* memory blocks the size of a Socket
  Timeouts,   \* the timeouts given to poll, in milliseconds
  NULL

VARIABLES
  heap,           \* the Socket in each block, or NULL for a block that is free
  sockets_queue,  \* the blocks linked into the table, from head to tail
  sock_amount,
  rw_mutex,       \* the thread that has the lock, or NULL; the debugger has it
                  \* shared, the other sharers let it go within one step
  thread,         \* each thread: where it is, its call, its pointer, the process
                  \* it calls for, and what is left of the timeout of poll
  proc            \* "up", or "down" once undefined behaviour or an exception
                  \* has ended the process

vars == <<heap, sockets_queue, sock_amount, rw_mutex, thread, proc>>

Threads == Workers \cup {Receiver, Debugger}

\* connect stands for every call through the operations of a socket, the
\* others doing less.
Calls == {"socket", "connect", "poll", "input", "debug"}

\* sk: not allocated yet, allocated, or freed; node: linked to itself, into
\* the table, or to nothing.
Socket == [pid : Pids, refCnt : Nat \ {0}, lock : Threads \cup {NULL},
           sk : {"none", "live", "freed"},
           node : {"self", "queued", "null"}]

ASSUME ThreadAssumption ==
  /\ NULL \notin Threads \cup Pids \cup Addr \cup Socket
  /\ Receiver # Debugger /\ {Receiver, Debugger} \cap Workers = {}

ASSUME MemoryAssumption == IsFiniteSet(Addr)

ASSUME TimeoutAssumption == Timeouts \subseteq Int

InCall(pc, call, a, p, ms) ==
  [pc |-> pc, call |-> call, ptr |-> a, pid |-> p, timeout |-> ms]

Idle == InCall("idle", "debug", NULL, NULL, 0)

Init == /\ heap = [a \in Addr |-> NULL]
        /\ sockets_queue = <<>>
        /\ sock_amount = 0
        /\ rw_mutex = NULL
        /\ thread = [t \in Threads |-> Idle]
        /\ proc = "up"

At(t, pc) == proc = "up" /\ thread[t].pc = pc

Goto(t, pc) == thread' = [thread EXCEPT ![t].pc = pc]

Ptr(t) == thread[t].ptr

Readable == rw_mutex \in {NULL, Debugger}

Writable == rw_mutex = NULL

Dies == /\ proc' = "down"
        /\ UNCHANGED <<heap, sockets_queue, sock_amount, rw_mutex, thread>>

-----------------------------------------------------------------------------
(* The lock and the counter of a socket *)

\* Mutant of NewSocket: nobody holds the first reference.
NewSocketUncounted(p, sk) ==
  [pid |-> p, refCnt |-> 0, lock |-> NULL, sk |-> sk, node |-> "self"]

\* Socket::Socket, and family->create if it succeeds.
NewSocket(p, sk) ==
  [pid |-> p, refCnt |-> 1, lock |-> NULL, sk |-> sk, node |-> "self"]

Unlocked(a) == heap[a] = NULL \/ heap[a].lock = NULL

\* Mutant of Acquired: the lock is taken without a reference.
AcquiredUncounted(s, t) == [s EXCEPT !.lock = t]

\* socket_rd_acquire and socket_wr_acquire: both lock exclusively.
Acquired(s, t) == [s EXCEPT !.lock = t, !.refCnt = @ + 1]

\* socket_release: the last reference deletes the socket.
Released(s) == IF s.refCnt = 1 THEN NULL
               ELSE [s EXCEPT !.lock = NULL, !.refCnt = @ - 1]

-----------------------------------------------------------------------------
(* Calls of the workers *)

\* _socket up to its lock; the constructor takes rw_mutex for a moment.  An
\* unsupported domain or type leaves the socket without a Sock.
Create(w) ==
  /\ At(w, "idle") /\ Writable
  /\ \E a \in Addr, p \in Pids, sk \in {"none", "live"} :
       /\ heap[a] = NULL
       /\ heap' = [heap EXCEPT ![a] = NewSocket(p, sk)]
       /\ thread' = [thread EXCEPT ![w] =
            InCall(IF sk = "live" THEN "add" ELSE "free", "socket", a, p, 0)]
  /\ UNCHANGED <<sockets_queue, sock_amount, rw_mutex, proc>>

\* _socket puts the socket into the table and locks it, all under rw_mutex.
Add(w) ==
  LET a == Ptr(w)
  IN  /\ At(w, "add") /\ Writable /\ Unlocked(a)
      /\ heap' = [heap EXCEPT ![a] = [Acquired(@, w) EXCEPT !.node = "queued"]]
      /\ sockets_queue' = Append(sockets_queue, a)
      /\ sock_amount' = sock_amount + 1
      /\ Goto(w, "inside")
      /\ UNCHANGED <<rw_mutex, proc>>

\* Mutant of Owned: the descriptor alone decides.
OwnedByAny(a, p) == TRUE

\* sock->pid == _pid && sock->fd == _fd, every socket having descriptor 4098
Owned(a, p) == heap[a].pid = p

OwnedBy(p) == {i \in DOMAIN sockets_queue : Owned(sockets_queue[i], p)}

\* Mutant of get_socket: the newest socket of the process.
get_socketNewest(p) ==
  IF OwnedBy(p) = {} THEN NULL ELSE sockets_queue[Max(OwnedBy(p))]

\* The first socket of the process, or none.
get_socket(p) ==
  IF OwnedBy(p) = {} THEN NULL ELSE sockets_queue[Min(OwnedBy(p))]

\* A call looks its socket up and returns at once if there is none.
Enter(w, p, call, timeout) ==
  LET a == get_socket(p)
  IN  thread' = [thread EXCEPT ![w] =
        IF a = NULL THEN Idle ELSE InCall("found", call, a, p, timeout)]

Call(w) ==
  /\ At(w, "idle") /\ Readable
  /\ \E p \in Pids :
       /\ get_socket(p) # NULL
       /\ \/ Enter(w, p, "connect", 0)
          \/ \E ms \in Timeouts : Enter(w, p, "poll", ms)
  /\ UNCHANGED <<heap, sockets_queue, sock_amount, rw_mutex, proc>>

\* Mutant of TimeLeft: an exhausted timeout is taken for an endless one.
TimeLeftSigned(ms) == IF ms <= 0 THEN ms ELSE ms - 10

\* What _poll leaves of its timeout before it sleeps.
TimeLeft(ms) == IF ms <= 0 THEN ms ELSE IF ms > 10 THEN ms - 10 ELSE 0

\* _poll after its sleep: the socket is looked up again.
Wake(w) ==
  /\ At(w, "asleep") /\ Readable
  /\ Enter(w, thread[w].pid, "poll", thread[w].timeout)
  /\ UNCHANGED <<heap, sockets_queue, sock_amount, rw_mutex, proc>>

\* tcp_in looks up the socket of a segment.  The ports of a socket that was
\* never connected are not initialised, so any socket may match, or none.
Lookup ==
  /\ At(Receiver, "idle") /\ Readable
  /\ \E a \in Range(sockets_queue) :
       thread' = [thread EXCEPT ![Receiver] =
                    InCall("found", "input", a, NULL, 0)]
  /\ UNCHANGED <<heap, sockets_queue, sock_amount, rw_mutex, proc>>

\* The lock of the socket that was found.  The receiver goes to it through
\* sk->sock, which is freed memory once the Sock is freed.
Acquire(t) ==
  /\ At(t, "found") /\ Unlocked(Ptr(t))
  /\ \/ /\ heap' = [heap EXCEPT ![Ptr(t)] = Acquired(@, t)]
        /\ Goto(t, "inside")
        /\ UNCHANGED <<sockets_queue, sock_amount, rw_mutex, proc>>
     \/ /\ t = Receiver /\ heap[Ptr(t)].sk = "freed"
        /\ Dies

\* A thread whose call is over.
Done(r) == Idle

\* A connect that failed frees the socket.
Failed(r) == [r EXCEPT !.pc = "free"]

\* A poll that saw no event sleeps, unless its timeout is 0.
Sleeps(r) == InCall("asleep", r.call, NULL, r.pid, TimeLeft(r.timeout))

Outcomes(r) ==
  CASE r.call = "connect" -> {Done(r), Failed(r)}
    [] r.call = "poll" /\ r.timeout # 0 -> {Done(r), Sleeps(r)}
    [] OTHER -> {Done(r)}

\* What the call does inside the socket, and socket_release.
Leave(t) ==
  /\ At(t, "inside")
  /\ heap' = [heap EXCEPT ![Ptr(t)] = Released(@)]
  /\ \E r \in Outcomes(thread[t]) : thread' = [thread EXCEPT ![t] = r]
  /\ UNCHANGED <<sockets_queue, sock_amount, rw_mutex, proc>>

\* A teardown or a blocking connect ends the process, and so may any use of a
\* freed Sock.
Crash(t) ==
  /\ At(t, "inside")
  /\ thread[t].call \in {"connect", "input"} \/ heap[Ptr(t)].sk = "freed"
  /\ Dies

-----------------------------------------------------------------------------
(* socket_free *)

BeginFree(w) ==
  /\ At(w, "free") /\ Writable
  /\ rw_mutex' = w
  /\ Goto(w, "unlink")
  /\ UNCHANGED <<heap, sockets_queue, sock_amount, proc>>

\* Mutant of Unlinks: unlinking a node twice goes unnoticed.
UnlinksAgain(s) == TRUE

\* queue_del writes through the links of the node, which it has set to null
\* when the node was unlinked before.
Unlinks(s) == s.node # "null"

\* A socket whose creation failed is linked to itself only.
Unlinked(q, a) ==
  IF a \notin Range(q) THEN q
  ELSE RemoveAt(q, CHOOSE i \in DOMAIN q : q[i] = a)

\* The socket is locked under rw_mutex and taken out of the table.
Unlink(w) ==
  LET a == Ptr(w)
  IN  /\ At(w, "unlink") /\ Unlocked(a)
      /\ IF Unlinks(heap[a])
         THEN /\ heap' = [heap EXCEPT ![a] =
                            [Acquired(@, w) EXCEPT !.node = "null"]]
              /\ sockets_queue' = Unlinked(sockets_queue, a)
              /\ sock_amount' = sock_amount - 1
              /\ rw_mutex' = NULL
              /\ Goto(w, "freeSk")
              /\ UNCHANGED proc
         ELSE Dies

\* ops->free, which a socket whose creation failed does not have.
Freed(s) == [s EXCEPT !.sk = IF @ = "none" THEN @ ELSE "freed"]

FreeSk(w) ==
  /\ At(w, "freeSk")
  /\ heap' = [heap EXCEPT ![Ptr(w)] = Released(Freed(@))]
  /\ thread' = [thread EXCEPT ![w] = Idle]
  /\ UNCHANGED <<sockets_queue, sock_amount, rw_mutex, proc>>

-----------------------------------------------------------------------------
(* socket_debug *)

\* The socket after a in the table, or NULL at its end.
Following(a) ==
  LET i == CHOOSE j \in DOMAIN sockets_queue : sockets_queue[j] = a
  IN  IF i < Len(sockets_queue) THEN sockets_queue[i + 1] ELSE NULL

BeginWalk ==
  /\ At(Debugger, "idle") /\ Writable
  /\ sockets_queue # <<>>
  /\ rw_mutex' = Debugger
  /\ thread' = [thread EXCEPT ![Debugger] =
                  InCall("walk", "debug", Head(sockets_queue), NULL, 0)]
  /\ UNCHANGED <<heap, sockets_queue, sock_amount, proc>>

\* The socket is locked, printed with its Sock, and released.
LockNode ==
  LET a == Ptr(Debugger)
  IN  /\ At(Debugger, "walk") /\ a # NULL /\ Unlocked(a)
      /\ heap' = [heap EXCEPT ![a] = Acquired(@, Debugger)]
      /\ Goto(Debugger, "print")
      /\ UNCHANGED <<sockets_queue, sock_amount, rw_mutex, proc>>

ReleaseNode ==
  LET a == Ptr(Debugger)
  IN  /\ At(Debugger, "print")
      /\ heap' = [heap EXCEPT ![a] = Released(@)]
      /\ thread' = [thread EXCEPT ![Debugger] =
                      InCall("walk", "debug", Following(a), NULL, 0)]
      /\ UNCHANGED <<sockets_queue, sock_amount, rw_mutex, proc>>

EndWalk ==
  /\ At(Debugger, "walk") /\ Ptr(Debugger) = NULL
  /\ rw_mutex' = NULL
  /\ thread' = [thread EXCEPT ![Debugger] = Idle]
  /\ UNCHANGED <<heap, sockets_queue, sock_amount, proc>>

-----------------------------------------------------------------------------
\* What a thread that is in a call or a walk does next.
Proceed(t) ==
  \/ Acquire(t)
  \/ Leave(t)
  \/ Crash(t)
  \/ t \in Workers /\ \/ Add(t)
                      \/ Wake(t)
                      \/ BeginFree(t)
                      \/ Unlink(t)
                      \/ FreeSk(t)
  \/ t = Debugger /\ \/ LockNode
                     \/ ReleaseNode
                     \/ EndWalk

Next == \/ \E w \in Workers : Create(w) \/ Call(w)
        \/ Lookup
        \/ BeginWalk
        \/ \E t \in Threads : Proceed(t)

Spec == Init /\ [][Next]_vars

\* A thread goes on, and gets a lock that is free again and again.  No call
\* need ever be made.
FairSpec == Spec /\ \A t \in Threads : SF_vars(Proceed(t))

-----------------------------------------------------------------------------
(* Properties *)

Places == {"idle", "add", "found", "inside", "asleep", "free", "unlink",
           "freeSk", "walk", "print"}

ThreadType == [pc : Places, call : Calls, ptr : Addr \cup {NULL},
               pid : Pids \cup {NULL}, timeout : Int]

\* Every variable has the values the code can give it; the count of sockets
\* may be negative.
TypeOK ==
  /\ heap \in [Addr -> Socket \cup {NULL}]
  /\ sockets_queue \in Seq(Addr)
  /\ sock_amount \in Int
  /\ rw_mutex \in Threads \cup {NULL}
  /\ thread \in [Threads -> ThreadType]
  /\ proc \in {"up", "down"}

\* The pointer of a thread is that of a socket of the process it calls for,
\* although get_socket and socket_lookup return it unprotected: no socket is
\* ever deleted, and its block never becomes that of another process.
PointersAreSockets ==
  \A t \in Threads : Ptr(t) # NULL =>
    /\ heap[Ptr(t)] # NULL
    /\ t \in Workers => heap[Ptr(t)].pid = thread[t].pid

\* The threads between acquire and release of the socket in a block.
Holders(a) == {t \in Threads : /\ Ptr(t) = a
                               /\ thread[t].pc \in {"inside", "freeSk", "print"}}

\* refCnt counts the creator, who never lets go, and the one thread inside.
RefCountsHolders ==
  \A a \in Addr : heap[a] # NULL =>
    /\ Holders(a) = {t \in Threads : heap[a].lock = t}
    /\ heap[a].refCnt = IF heap[a].lock = NULL THEN 1 ELSE 2

\* The table links sockets once each, and only sockets whose Sock may be used
\* by the walks of socket_lookup and socket_debug.
TableLinksLiveSockets ==
  /\ IsInjective(sockets_queue)
  /\ \A a \in Range(sockets_queue) : heap[a] # NULL /\ heap[a].sk = "live"

\* A failed creation is counted out without having been counted in.
FailedCreations == {a \in Addr : /\ heap[a] # NULL
                                 /\ heap[a].sk = "none"
                                 /\ heap[a].node = "null"}

\* sock_amount is short of the length of the table by one for every creation
\* that failed.
AmountDriftsByFailures ==
  sock_amount = Len(sockets_queue) - Cardinality(FailedCreations)

\* Two calls that fail the same socket do not free its Sock twice: the second
\* one dies on the links of the node before.
SkFreedOnce ==
  \A w \in Workers : At(w, "freeSk") => heap[Ptr(w)].sk # "freed"

\* A call returns, however it meets the others at the locks, unless it is a
\* poll without a timeout.
CallsReturn ==
  \A w \in Workers :
    (thread[w].pc # "idle" /\ thread[w].timeout >= 0)
      ~> (thread[w].pc = "idle" \/ proc = "down")

\* What is in S of the first 0, 1, 2, ... elements of q, in their order.
With(sel, a, S) == IF a \in S THEN Append(sel, a) ELSE sel

Selections(q, S) ==
  LET sel[n \in 0 .. Len(q)] ==
        IF n = 0 THEN <<>> ELSE With(sel[n - 1], q[n], S)
  IN  sel

Selected(q, S) == Selections(q, S)[Len(q)]

SocketsOf(p) == {a \in Addr : heap[a] # NULL /\ heap[a].pid = p}

\* The sockets of each process, in the order of the table.
Lines == [p \in Pids |-> Selected(sockets_queue, SocketsOf(p))]

Service == INSTANCE SocketService
             WITH Process <- Pids, Sock <- Addr, line <- Lines

\* Joining and leaving the table, calls and frees of any number of threads
\* leave each process a line of which only the first is ever freed.
ImplementsService == Service!SSpec

=============================================================================
