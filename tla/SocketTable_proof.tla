--------------------------- MODULE SocketTable_proof ---------------------------
(***************************************************************************)
(* Pointers to sockets, the counters and the table are sound for any       *)
(* number of threads, processes and blocks.                                *)
(*                                                                         *)
(* The argument: a socket is locked exactly while one thread is inside it, *)
(* so its counter is 1 or 2 and never falls to 0, and no block is ever     *)
(* used again.  A socket that is not in the table yet is known to its      *)
(* creator only; one that left the table has null links, which the next    *)
(* thread that frees it does not survive.                                  *)
(*                                                                         *)
(* Sockets join the table at its end, so a call that found the first       *)
(* socket of its process works on the first until that one is unlinked,    *)
(* however long it waits for the lock: SocketService is implemented.       *)
(***************************************************************************)
EXTENDS SocketTable, QueueLemmas, FiniteSetTheorems

-----------------------------------------------------------------------------
(* The inductive invariant *)

Inside(t) == thread[t].pc \in {"inside", "freeSk", "print"}

\* A thread has a pointer while it works on a socket, and a process while it
\* does not but will again.
PointersAreSet ==
  \A t \in Threads :
    /\ thread[t].pc \in {"add", "found", "inside", "free", "unlink", "freeSk",
                         "print"} => Ptr(t) # NULL
    /\ thread[t].pc \in {"idle", "asleep"} => Ptr(t) = NULL
    /\ thread[t].pc = "asleep" \/ thread[t].call = "poll" =>
         thread[t].pid \in Pids

\* refCnt and the lock of a socket, as RefCountsHolders, thread by thread.
LocksMatch ==
  \A a \in Addr : heap[a] # NULL =>
    /\ \A t \in Threads : heap[a].lock = t <=> Inside(t) /\ Ptr(t) = a
    /\ heap[a].refCnt = IF heap[a].lock = NULL THEN 1 ELSE 2

\* The links of a socket tell whether it is in the table, and what became of
\* its Sock.
NodesMatch ==
  /\ NoDuplicates(sockets_queue)
  /\ \A a \in Range(sockets_queue) : heap[a] # NULL /\ heap[a].node = "queued"
  /\ \A a \in Addr : heap[a] # NULL =>
       /\ heap[a].node = "queued" =>
            a \in Range(sockets_queue) /\ heap[a].sk = "live"
       /\ heap[a].sk = "freed" => heap[a].node = "null"

\* A socket is known to its creator alone until it is in the table.
CreatorsAlone ==
  /\ \A t \in Threads : thread[t].pc = "add" =>
       /\ heap[Ptr(t)].node = "self" /\ heap[Ptr(t)].sk = "live"
       /\ \A u \in Threads \ {t} : Ptr(u) # Ptr(t)
  /\ \A a \in Addr : heap[a] # NULL /\ heap[a].node = "self" =>
       \/ heap[a].sk = "none"
       \/ \E t \in Threads : thread[t].pc = "add" /\ Ptr(t) = a

\* A thread that frees a Sock has unlinked its socket, and is the first.
FreesOnce ==
  \A t \in Threads : thread[t].pc = "freeSk" =>
    heap[Ptr(t)].node = "null" /\ heap[Ptr(t)].sk # "freed"

\* rw_mutex is held from BeginFree to Unlink and during a walk, which stays on
\* the table.
TableLocked ==
  /\ \A t \in Threads :
       thread[t].pc \in {"unlink", "walk", "print"} => rw_mutex = t
  /\ thread[Debugger].pc \in {"idle", "walk", "print"}
  /\ thread[Debugger].pc \in {"walk", "print"} =>
       Ptr(Debugger) \in Range(sockets_queue) \cup {NULL}

Sound ==
  /\ TypeOK /\ PointersAreSockets /\ PointersAreSet /\ LocksMatch
  /\ NodesMatch /\ CreatorsAlone /\ FreesOnce /\ TableLocked

LEMMA QueueRange ==
  ASSUME NEW q \in Seq(Addr)
  PROVE  Range(q) \subseteq Addr /\ NULL \notin Range(q)
  BY ThreadAssumption DEF ThreadAssumption, Range

LEMMA SoundInit == Init => Sound
  <1> SUFFICES ASSUME Init PROVE Sound
    OBVIOUS
  <1>1. Range(sockets_queue) = {} BY DEF Init, Range
  <1>2. \A t \in Threads : thread[t] = Idle BY DEF Init
  <1>3. Idle \in ThreadType BY DEF Idle, InCall, ThreadType, Places, Calls
  <1>4. TypeOK BY <1>2, <1>3 DEF Init, TypeOK
  <1>5. Debugger \in Threads BY DEF Threads
  <1> QED
    BY <1>1, <1>2, <1>4, <1>5
       DEF Init, Idle, InCall, Sound, PointersAreSockets, PointersAreSet, LocksMatch,
           NodesMatch, NoDuplicates, CreatorsAlone, FreesOnce, TableLocked, Ptr

-----------------------------------------------------------------------------
(* Locks and counters *)

\* What the fields of threads and sockets range over.
LEMMA Typing ==
  ASSUME TypeOK, NEW t \in Threads, NEW a \in Addr
  PROVE  /\ thread[t] \in ThreadType /\ Ptr(t) \in Addr \cup {NULL}
         /\ heap[a] \in Socket \cup {NULL}
         /\ heap[a] # NULL => /\ heap[a] \in Socket
                              /\ heap[a].lock \in Threads \cup {NULL}
                              /\ heap[a].refCnt \in Nat \ {0}
                              /\ heap[a].pid \in Pids
         /\ NULL \notin Socket /\ NULL \notin Threads /\ NULL \notin Addr
         /\ NULL \notin Pids
         /\ Debugger \in Threads
  BY ThreadAssumption DEF ThreadAssumption, TypeOK, ThreadType, Socket, Ptr, Threads

LEMMA AcquiredSocket ==
  ASSUME NEW s \in Socket, NEW t \in Threads
  PROVE  /\ Acquired(s, t) \in Socket
         /\ Acquired(s, t).lock = t /\ Acquired(s, t).refCnt = s.refCnt + 1
         /\ Acquired(s, t).pid = s.pid /\ Acquired(s, t).sk = s.sk
         /\ Acquired(s, t).node = s.node
  <1> DEFINE x == [s EXCEPT !.lock = t]
  <1>1. x \in Socket BY DEF Socket
  <1>2. s.refCnt + 1 \in Nat \ {0} BY DEF Socket
  <1>3. [x EXCEPT !.refCnt = s.refCnt + 1] \in Socket BY <1>1, <1>2 DEF Socket
  <1>4. Acquired(s, t) = [x EXCEPT !.refCnt = s.refCnt + 1] BY DEF Acquired, Socket
  <1> QED BY <1>3, <1>4 DEF Socket

LEMMA ReleasedSocket ==
  ASSUME NEW s \in Socket, s.refCnt = 2
  PROVE  /\ Released(s) \in Socket
         /\ Released(s).lock = NULL /\ Released(s).refCnt = 1
         /\ Released(s).pid = s.pid /\ Released(s).sk = s.sk
         /\ Released(s).node = s.node
  <1> DEFINE x == [s EXCEPT !.lock = NULL]
  <1>1. x \in Socket BY DEF Socket
  <1>2. [x EXCEPT !.refCnt = 1] \in Socket BY <1>1 DEF Socket
  <1>3. Released(s) = [x EXCEPT !.refCnt = 1] BY DEF Released, Socket
  <1> QED BY <1>2, <1>3 DEF Socket

\* The end of the process changes nothing else.
LEMMA DiesSound == Sound /\ Dies => Sound'
  BY DEF Dies, Sound, TypeOK, PointersAreSockets, PointersAreSet, LocksMatch,
         NodesMatch, CreatorsAlone, FreesOnce, TableLocked, Inside, Ptr

\* A thread takes or leaves the lock of the socket it points to.
LEMMA LockStep ==
  ASSUME Sound, NEW t \in Threads, NEW nt \in ThreadType, NEW ns \in Socket,
         Ptr(t) \in Addr, heap[Ptr(t)] # NULL,
         heap' = [heap EXCEPT ![Ptr(t)] = ns],
         thread' = [thread EXCEPT ![t] = nt],
         ns.pid = heap[Ptr(t)].pid,
         nt.pc \in {"inside", "freeSk", "print"} =>
           /\ ~Inside(t) /\ heap[Ptr(t)].lock = NULL
           /\ nt.ptr = Ptr(t) /\ ns.lock = t /\ ns.refCnt = 2,
         nt.pc \notin {"inside", "freeSk", "print"} =>
           Inside(t) /\ ns.lock = NULL /\ ns.refCnt = 1,
         nt.pc \in {"add", "found", "free", "unlink"} => nt.ptr # NULL,
         nt.pc \in {"idle", "asleep"} => nt.ptr = NULL,
         nt.pc = "asleep" \/ nt.call = "poll" => nt.pid \in Pids,
         nt.ptr # NULL => /\ heap[nt.ptr] # NULL
                          /\ t \in Workers => heap[nt.ptr].pid = nt.pid
  PROVE  /\ heap' \in [Addr -> Socket \cup {NULL}]
         /\ thread' \in [Threads -> ThreadType]
         /\ heap'[Ptr(t)] = ns /\ heap'[Ptr(t)] # NULL
         /\ \A b \in Addr \ {Ptr(t)} : heap'[b] = heap[b]
         /\ thread'[t] = nt
         /\ \A u \in Threads \ {t} : thread'[u] = thread[u]
         /\ PointersAreSockets' /\ PointersAreSet' /\ LocksMatch'
  <1> DEFINE a == Ptr(t)
  <1>1. TypeOK /\ a \in Addr /\ heap[a] # NULL BY DEF Sound
  <1>2. /\ heap' \in [Addr -> Socket \cup {NULL}]
        /\ thread' \in [Threads -> ThreadType]
        /\ heap'[a] = ns
        /\ \A b \in Addr \ {a} : heap'[b] = heap[b]
        /\ thread'[t] = nt
        /\ \A u \in Threads \ {t} : thread'[u] = thread[u]
    BY <1>1 DEF TypeOK
  <1>3. Ptr(t)' = nt.ptr /\ \A u \in Threads \ {t} : Ptr(u)' = Ptr(u)
    BY <1>2 DEF Ptr
  <1>4. heap'[a] # NULL BY <1>1, <1>2, Typing
  <1>5. nt.ptr \in Addr \cup {NULL} /\ \A u \in Threads : Ptr(u) \in Addr \cup {NULL}
    BY <1>1 DEF TypeOK, ThreadType, Ptr
  <1> HIDE DEF a
  <1>6. PointersAreSockets'
    <2>1. ASSUME NEW b \in Addr, heap[b] # NULL
          PROVE  heap'[b] # NULL /\ heap'[b].pid = heap[b].pid
      BY <1>2, <1>4, <2>1 DEF a
    <2> QED BY <1>2, <1>3, <1>5, <2>1 DEF Sound, PointersAreSockets
  <1>7. PointersAreSet'
    BY <1>1, <1>2, <1>3, Typing DEF Sound, PointersAreSet, a
  <1>8. LocksMatch'
    <2> SUFFICES ASSUME NEW b \in Addr, heap'[b] # NULL
                 PROVE  /\ \A u \in Threads : heap'[b].lock = u <=> Inside(u)' /\ Ptr(u)' = b
                        /\ heap'[b].refCnt = IF heap'[b].lock = NULL THEN 1 ELSE 2
      BY DEF LocksMatch
    <2>1. CASE b = a
      <3>1. \A u \in Threads : heap[a].lock = u <=> Inside(u) /\ Ptr(u) = a
        BY <1>1 DEF Sound, LocksMatch
      <3> QED BY <1>1, <1>2, <1>3, <2>1, <3>1, Typing DEF Inside, a
    <2>2. CASE b # a
      <3>1. heap'[b] = heap[b] BY <1>2, <2>2
      <3>2. /\ \A u \in Threads : heap[b].lock = u <=> Inside(u) /\ Ptr(u) = b
            /\ heap[b].refCnt = IF heap[b].lock = NULL THEN 1 ELSE 2
        BY <3>1 DEF Sound, LocksMatch
      <3>3. Inside(t)' /\ Ptr(t)' = b <=> Inside(t) /\ Ptr(t) = b
        BY <1>2, <1>3, <2>2 DEF Inside, a
      <3> QED BY <1>2, <1>3, <3>1, <3>2, <3>3 DEF Inside
    <2> QED BY <2>1, <2>2
  <1> QED BY <1>2, <1>3, <1>4, <1>6, <1>7, <1>8 DEF a

\* A thread waits for the lock of the socket it found, and gets it.
LEMMA AcquireSound ==
  ASSUME Sound, NEW t \in Threads, Acquire(t)
  PROVE  Sound'
  <1> DEFINE a == Ptr(t)
             nt == [thread[t] EXCEPT !.pc = "inside"]
             ns == Acquired(heap[a], t)
  <1>1. At(t, "found") /\ Unlocked(a) /\ TypeOK
    BY DEF Acquire, Sound
  <1>2. thread[t].pc = "found" /\ a \in Addr
    BY <1>1 DEF At, Sound, PointersAreSet, TypeOK, ThreadType, Ptr
  <1>3. heap[a] # NULL /\ heap[a] \in Socket
    BY <1>1, <1>2, Typing DEF Sound, PointersAreSockets
  <1>4. heap[a].lock = NULL /\ heap[a].refCnt = 1
    BY <1>1, <1>2, <1>3 DEF Unlocked, Sound, LocksMatch
  <1>5. CASE /\ heap' = [heap EXCEPT ![a] = Acquired(@, t)]
             /\ Goto(t, "inside")
             /\ UNCHANGED <<sockets_queue, sock_amount, rw_mutex, proc>>
    <2>1. /\ nt \in ThreadType /\ nt.pc = "inside" /\ nt.ptr = a
          /\ nt.pid = thread[t].pid
          /\ nt.call = "poll" => nt.pid \in Pids
      BY <1>1, <1>2 DEF Sound, PointersAreSet, TypeOK, ThreadType, Places, Ptr
    <2>2. /\ ns \in Socket /\ ns.lock = t /\ ns.refCnt = 2
          /\ ns.pid = heap[a].pid /\ ns.sk = heap[a].sk /\ ns.node = heap[a].node
      BY <1>3, <1>4, AcquiredSocket
    <2>3. /\ thread' = [thread EXCEPT ![t] = nt]
          /\ heap' = [heap EXCEPT ![a] = ns]
      BY <1>1, <1>5 DEF Goto
    <2>4. ~Inside(t) /\ (t \in Workers => heap[a].pid = thread[t].pid)
      BY <1>2, <1>3, Typing DEF Inside, Sound, PointersAreSockets
    <2> HIDE DEF nt, ns
    <2>5. /\ heap' \in [Addr -> Socket \cup {NULL}]
          /\ thread' \in [Threads -> ThreadType]
          /\ heap'[a] = ns /\ heap'[a] # NULL
          /\ \A b \in Addr \ {a} : heap'[b] = heap[b]
          /\ thread'[t] = nt
          /\ \A u \in Threads \ {t} : thread'[u] = thread[u]
          /\ PointersAreSockets' /\ PointersAreSet' /\ LocksMatch'
      <3>1. /\ nt.pc \in {"inside", "freeSk", "print"} /\ nt.ptr = Ptr(t)
            /\ nt.pc \notin {"add", "found", "free", "unlink", "idle", "asleep"}
            /\ heap[nt.ptr] # NULL /\ (t \in Workers => heap[nt.ptr].pid = nt.pid)
        BY <1>3, <2>1, <2>4
      <3> QED BY <1>2, <1>3, <1>4, <2>1, <2>2, <2>3, <2>4, <3>1, LockStep
    <2> HIDE DEF a
    <2>6. TypeOK' BY <1>1, <1>5, <2>5 DEF TypeOK
    <2>7. NodesMatch'
      <3>1. \A b \in Addr : (heap'[b] # NULL <=> heap[b] # NULL)
              /\ (heap[b] # NULL => /\ heap'[b].node = heap[b].node
                                   /\ heap'[b].sk = heap[b].sk)
        BY <1>2, <1>3, <2>2, <2>5
      <3>2. Range(sockets_queue) \subseteq Addr
        BY <1>1, QueueRange DEF TypeOK
      <3> QED BY <1>5, <3>1, <3>2 DEF Sound, NodesMatch
    <2>8. \A u \in Threads : Ptr(u)' = Ptr(u) /\ Ptr(u) \in Addr \cup {NULL}
      BY <1>1, <2>1, <2>5 DEF a, Ptr, TypeOK, ThreadType
    <2>9. CreatorsAlone' /\ FreesOnce'
      BY <1>2, <1>3, <2>1, <2>2, <2>5, <2>8, Typing
         DEF Sound, CreatorsAlone, FreesOnce, PointersAreSet
    <2>10. TableLocked'
      BY <1>1, <1>2, <1>5, <2>1, <2>5, <2>8, Typing DEF Sound, TableLocked
    <2> QED BY <2>5, <2>6, <2>7, <2>9, <2>10 DEF Sound
  <1> QED BY <1>5, DiesSound DEF Acquire

\* A thread outside every socket goes on without touching one.
LEMMA OutsideStep ==
  ASSUME Sound, NEW t \in Threads, NEW nt \in ThreadType,
         UNCHANGED <<heap, sockets_queue, sock_amount, proc>>,
         rw_mutex' \in Threads \cup {NULL},
         thread' = [thread EXCEPT ![t] = nt],
         thread[t].pc \notin {"add", "inside", "freeSk", "print"},
         nt.pc \notin {"add", "inside", "freeSk", "print"},
         nt.pc \in {"found", "free", "unlink"} => nt.ptr # NULL,
         nt.pc \in {"idle", "asleep"} => nt.ptr = NULL,
         nt.pc = "asleep" \/ nt.call = "poll" => nt.pid \in Pids,
         nt.ptr \in {NULL, Ptr(t)} \cup Range(sockets_queue),
         nt.ptr # NULL => /\ heap[nt.ptr] # NULL
                          /\ t \in Workers => heap[nt.ptr].pid = nt.pid,
         TableLocked'
  PROVE  Sound'
  <1>1. TypeOK /\ Range(sockets_queue) \subseteq Addr /\ NULL \notin Range(sockets_queue)
    BY QueueRange DEF Sound, TypeOK
  <1>2. /\ thread' \in [Threads -> ThreadType]
        /\ thread'[t] = nt
        /\ \A u \in Threads \ {t} : thread'[u] = thread[u]
    BY <1>1 DEF TypeOK
  <1>3. TypeOK' BY <1>1, <1>2 DEF TypeOK
  <1>4. \A u \in Threads : thread[u].ptr \in Addr \cup {NULL}
    BY <1>1 DEF TypeOK, ThreadType
  <1>5. PointersAreSockets'
    BY <1>2, <1>4 DEF Sound, PointersAreSockets, Ptr
  <1>6. PointersAreSet'
    BY <1>2 DEF Sound, PointersAreSet, Ptr
  <1>7. LocksMatch'
    <2> SUFFICES ASSUME NEW a \in Addr, heap[a] # NULL
                 PROVE  /\ \A u \in Threads : heap[a].lock = u <=> Inside(u)' /\ thread'[u].ptr = a
                        /\ heap[a].refCnt = IF heap[a].lock = NULL THEN 1 ELSE 2
      BY DEF LocksMatch, Ptr
    <2>1. ~Inside(t) /\ ~Inside(t)' BY <1>2 DEF Inside
    <2>2. \A u \in Threads \ {t} : Inside(u)' <=> Inside(u) BY <1>2 DEF Inside
    <2> QED BY <1>2, <2>1, <2>2 DEF Sound, LocksMatch, Ptr
  <1>8. NodesMatch' BY DEF Sound, NodesMatch
  <1>9. CreatorsAlone'
    <2>1. ASSUME NEW u \in Threads, thread'[u].pc = "add"
          PROVE  /\ heap[thread'[u].ptr].node = "self" /\ heap[thread'[u].ptr].sk = "live"
                 /\ \A v \in Threads \ {u} : thread'[v].ptr # thread'[u].ptr
      <3>1. u # t /\ thread'[u] = thread[u] /\ thread[u].pc = "add"
        BY <1>2, <2>1
      <3>2. /\ heap[thread[u].ptr].node = "self" /\ heap[thread[u].ptr].sk = "live"
            /\ \A v \in Threads \ {u} : thread[v].ptr # thread[u].ptr
            /\ thread[u].ptr # NULL
        BY <3>1 DEF Sound, CreatorsAlone, PointersAreSet, Ptr
      <3>3. nt.ptr # thread[u].ptr
        BY <3>1, <3>2 DEF Sound, NodesMatch, Ptr
      <3> QED BY <1>2, <3>1, <3>2, <3>3
    <2>2. ASSUME NEW a \in Addr, heap[a] # NULL, heap[a].node = "self"
          PROVE  \/ heap[a].sk = "none"
                 \/ \E u \in Threads : thread'[u].pc = "add" /\ thread'[u].ptr = a
      <3>1. \/ heap[a].sk = "none"
            \/ \E u \in Threads : thread[u].pc = "add" /\ thread[u].ptr = a
        BY <2>2 DEF Sound, CreatorsAlone, Ptr
      <3> QED BY <1>2, <3>1
    <2> QED BY <2>1, <2>2 DEF CreatorsAlone, Ptr
  <1>10. FreesOnce' BY <1>2 DEF Sound, FreesOnce, Ptr
  <1> QED BY <1>3, <1>5, <1>6, <1>7, <1>8, <1>9, <1>10 DEF Sound

\* What get_socket returns is linked and belongs to the process.
LEMMA GetSocket ==
  ASSUME TypeOK, NEW p, get_socket(p) # NULL
  PROVE  /\ get_socket(p) \in Range(sockets_queue)
         /\ heap[get_socket(p)].pid = p
  <1>1. OwnedBy(p) # {} /\ OwnedBy(p) \subseteq Nat
    BY DEF get_socket, OwnedBy, TypeOK
  <1>2. Min(OwnedBy(p)) \in OwnedBy(p) BY <1>1, LeastIndex
  <1> QED BY <1>1, <1>2 DEF get_socket, OwnedBy, Owned, Range

LEMMA IdleThread ==
  /\ Idle \in ThreadType /\ Idle.pc = "idle" /\ Idle.ptr = NULL
  /\ Idle.call = "debug"
  BY DEF Idle, InCall, ThreadType, Places, Calls

\* A call that starts, or a poll that wakes up, with what get_socket returns.
LEMMA EnterSound ==
  ASSUME Sound, NEW w \in Workers, NEW p \in Pids, NEW call \in Calls,
         NEW timeout \in Int, thread[w].pc \in {"idle", "asleep"},
         Enter(w, p, call, timeout),
         UNCHANGED <<heap, sockets_queue, sock_amount, rw_mutex, proc>>
  PROVE  Sound'
  <1> DEFINE a == get_socket(p)
             ft == InCall("found", call, a, p, timeout)
             nt == IF a = NULL THEN Idle ELSE ft
  <1>1. /\ TypeOK /\ w \in Threads /\ thread' = [thread EXCEPT ![w] = nt]
        /\ rw_mutex \in Threads \cup {NULL} /\ w # Debugger
    BY ThreadAssumption DEF Enter, Sound, TypeOK, Threads, ThreadAssumption
  <1>2. a # NULL => /\ a \in Addr /\ a \in Range(sockets_queue)
                    /\ heap[a] # NULL /\ heap[a].pid = p
    BY <1>1, GetSocket, QueueRange DEF Sound, NodesMatch, TypeOK
  <1>3. ft = [pc |-> "found", call |-> call, ptr |-> a, pid |-> p, timeout |-> timeout]
    BY DEF InCall
  <1> HIDE DEF a
  <1>4. nt \in ThreadType
    BY <1>2, <1>3, IdleThread DEF ThreadType, Places
  <1>5. /\ nt.pc \in {"idle", "found"} /\ (nt.pc = "idle" <=> nt.ptr = NULL)
        /\ nt.ptr \in {NULL, a} /\ (nt.ptr # NULL => nt.pid = p)
        /\ nt.call = "poll" => nt.pid = p
    BY <1>2, <1>3, IdleThread
  <1> HIDE DEF nt, ft
  <1>6. /\ thread'[w] = nt
        /\ \A u \in Threads \ {w} : thread'[u] = thread[u]
    BY <1>1 DEF TypeOK
  <1>7. TableLocked'
    BY <1>1, <1>5, <1>6 DEF Sound, TableLocked, Ptr, Threads
  <1> QED BY <1>1, <1>2, <1>4, <1>5, <1>7, OutsideStep

LEMMA CallSound ==
  ASSUME Sound, NEW w \in Workers, Call(w)
  PROVE  Sound'
  <1>1. thread[w].pc = "idle" BY DEF Call, At
  <1>2. PICK p \in Pids : \/ Enter(w, p, "connect", 0)
                          \/ \E ms \in Timeouts : Enter(w, p, "poll", ms)
    BY DEF Call
  <1>3. \E call \in Calls, ms \in Int : Enter(w, p, call, ms)
    BY <1>2, TimeoutAssumption DEF TimeoutAssumption, Calls
  <1> QED BY <1>1, <1>3, EnterSound DEF Call

LEMMA WakeSound ==
  ASSUME Sound, NEW w \in Workers, Wake(w)
  PROVE  Sound'
  <1>1. thread[w].pc = "asleep" /\ w \in Threads BY DEF Wake, At, Threads
  <1>2. thread[w].timeout \in Int /\ thread[w].pid \in Pids
    BY <1>1 DEF Sound, PointersAreSet, TypeOK, ThreadType
  <1>3. Enter(w, thread[w].pid, "poll", thread[w].timeout) /\ "poll" \in Calls
    BY DEF Wake, Calls
  <1> QED BY <1>1, <1>2, <1>3, EnterSound DEF Wake

LEMMA LookupSound ==
  ASSUME Sound, Lookup
  PROVE  Sound'
  <1>1. PICK a \in Range(sockets_queue) :
          thread' = [thread EXCEPT ![Receiver] = InCall("found", "input", a, NULL, 0)]
    BY DEF Lookup
  <1> DEFINE nt == InCall("found", "input", a, NULL, 0)
  <1>2. /\ TypeOK /\ Receiver \in Threads /\ Receiver # Debugger
        /\ Receiver \notin Workers /\ thread[Receiver].pc = "idle"
        /\ rw_mutex \in Threads \cup {NULL}
    BY ThreadAssumption DEF Lookup, At, Sound, TypeOK, Threads, ThreadAssumption
  <1>3. a \in Addr /\ a # NULL /\ heap[a] # NULL
    BY <1>2, QueueRange DEF Sound, NodesMatch, TypeOK
  <1>4. /\ nt \in ThreadType /\ nt.pc = "found" /\ nt.ptr = a
        /\ nt.call = "input"
    BY <1>3 DEF InCall, ThreadType, Places, Calls
  <1> HIDE DEF nt
  <1>5. \A u \in Threads \ {Receiver} : thread'[u] = thread[u]
    BY <1>1, <1>2, <1>4 DEF TypeOK, nt
  <1>6. thread'[Receiver] = nt BY <1>1, <1>2 DEF TypeOK, nt
  <1>7. TableLocked'
    BY <1>2, <1>4, <1>5, <1>6 DEF Sound, TableLocked, Ptr, Lookup, Threads
  <1> QED BY <1>1, <1>2, <1>3, <1>4, <1>7, OutsideStep DEF Lookup, nt

LEMMA BeginFreeSound ==
  ASSUME Sound, NEW w \in Workers, BeginFree(w)
  PROVE  Sound'
  <1> DEFINE nt == [thread[w] EXCEPT !.pc = "unlink"]
  <1>1. /\ TypeOK /\ w \in Threads /\ w # Debugger
        /\ thread[w].pc = "free" /\ rw_mutex = NULL /\ rw_mutex' = w
        /\ thread' = [thread EXCEPT ![w] = nt]
        /\ UNCHANGED <<heap, sockets_queue, sock_amount, proc>>
    BY ThreadAssumption
       DEF BeginFree, At, Goto, Writable, Sound, Threads, ThreadAssumption
  <1>2. /\ nt \in ThreadType /\ nt.pc = "unlink" /\ nt.ptr = Ptr(w)
        /\ nt.pid = thread[w].pid
        /\ nt.call = "poll" => nt.pid \in Pids
    BY <1>1 DEF Sound, PointersAreSet, TypeOK, ThreadType, Places, Ptr
  <1>3. /\ Ptr(w) # NULL /\ heap[Ptr(w)] # NULL /\ heap[Ptr(w)].pid = thread[w].pid
    BY <1>1 DEF Sound, PointersAreSet, PointersAreSockets
  <1> HIDE DEF nt
  <1>4. \A u \in Threads \ {w} : thread'[u] = thread[u]
    BY <1>1, <1>2 DEF TypeOK
  <1>5. thread'[w] = nt BY <1>1 DEF TypeOK
  <1>6. \A u \in Threads : thread[u].pc \notin {"unlink", "walk", "print"}
    BY <1>1, ThreadAssumption DEF Sound, TableLocked, ThreadAssumption
  <1>7. TableLocked'
    <2>1. thread'[Debugger].pc = "idle"
      BY <1>1, <1>4, <1>6 DEF Sound, TableLocked, Threads
    <2> QED BY <1>1, <1>4, <1>5, <1>6, <2>1 DEF TableLocked
  <1> QED BY <1>1, <1>2, <1>3, <1>7, OutsideStep

LEMMA BeginWalkSound ==
  ASSUME Sound, BeginWalk
  PROVE  Sound'
  <1> DEFINE a == Head(sockets_queue)
             nt == InCall("walk", "debug", a, NULL, 0)
  <1>1. /\ TypeOK /\ Debugger \in Threads /\ Debugger \notin Workers
        /\ thread[Debugger].pc = "idle" /\ rw_mutex = NULL /\ rw_mutex' = Debugger
        /\ thread' = [thread EXCEPT ![Debugger] = nt]
        /\ UNCHANGED <<heap, sockets_queue, sock_amount, proc>>
    BY ThreadAssumption
       DEF BeginWalk, At, Writable, Sound, Threads, ThreadAssumption
  <1>2. a \in Range(sockets_queue) /\ a \in Addr /\ a # NULL
    BY <1>1, QueueRange DEF BeginWalk, TypeOK, Range
  <1>3. heap[a] # NULL BY <1>2 DEF Sound, NodesMatch
  <1> HIDE DEF a
  <1>4. /\ nt \in ThreadType /\ nt.pc = "walk" /\ nt.ptr = a
        /\ nt.call = "debug"
    BY <1>2 DEF InCall, ThreadType, Places, Calls
  <1> HIDE DEF nt
  <1>5. /\ thread'[Debugger] = nt
        /\ \A u \in Threads \ {Debugger} : thread'[u] = thread[u]
    BY <1>1 DEF TypeOK
  <1>6. \A u \in Threads : thread[u].pc \notin {"unlink", "walk", "print"}
    BY <1>1, ThreadAssumption DEF Sound, TableLocked, ThreadAssumption
  <1>7. TableLocked'
    BY <1>1, <1>2, <1>4, <1>5, <1>6 DEF TableLocked, Ptr
  <1> QED BY <1>1, <1>2, <1>3, <1>4, <1>7, OutsideStep

LEMMA EndWalkSound ==
  ASSUME Sound, EndWalk
  PROVE  Sound'
  <1>1. /\ TypeOK /\ Debugger \in Threads
        /\ thread[Debugger].pc = "walk" /\ rw_mutex' = NULL
        /\ thread' = [thread EXCEPT ![Debugger] = Idle]
        /\ UNCHANGED <<heap, sockets_queue, sock_amount, proc>>
    BY DEF EndWalk, At, Sound, Threads
  <1>2. rw_mutex = Debugger BY <1>1 DEF Sound, TableLocked
  <1>3. /\ thread'[Debugger] = Idle
        /\ \A u \in Threads \ {Debugger} : thread'[u] = thread[u]
    BY <1>1 DEF TypeOK
  <1>4. \A u \in Threads \ {Debugger} : thread[u].pc \notin {"unlink", "walk", "print"}
    BY <1>2 DEF Sound, TableLocked
  <1>5. TableLocked'
    BY <1>1, <1>3, <1>4, IdleThread DEF TableLocked
  <1> QED BY <1>1, <1>5, IdleThread, OutsideStep

\* The walk locks the node it stands on.
LEMMA LockNodeSound ==
  ASSUME Sound, LockNode
  PROVE  Sound'
  <1> DEFINE t == Debugger
             a == Ptr(t)
             nt == [thread[t] EXCEPT !.pc = "print"]
             ns == Acquired(heap[a], t)
  <1>1. /\ TypeOK /\ t \in Threads /\ t \notin Workers
        /\ thread[t].pc = "walk" /\ a # NULL /\ Unlocked(a)
        /\ UNCHANGED <<sockets_queue, sock_amount, rw_mutex, proc>>
    BY ThreadAssumption DEF LockNode, At, Sound, Threads, ThreadAssumption
  <1>2. a \in Addr /\ a \in Range(sockets_queue) /\ rw_mutex = t
    BY <1>1 DEF Sound, TableLocked, TypeOK, ThreadType, Ptr
  <1>3. heap[a] # NULL /\ heap[a] \in Socket
    BY <1>1, <1>2, Typing DEF Sound, PointersAreSockets
  <1>4. heap[a].lock = NULL /\ heap[a].refCnt = 1
    BY <1>1, <1>2, <1>3 DEF Unlocked, Sound, LocksMatch
  <1>5. /\ nt \in ThreadType /\ nt.pc = "print" /\ nt.ptr = a
        /\ nt.call = "poll" => nt.pid \in Pids
    BY <1>1, <1>2 DEF Sound, PointersAreSet, TypeOK, ThreadType, Places, Ptr
  <1>6. /\ ns \in Socket /\ ns.lock = t /\ ns.refCnt = 2
        /\ ns.pid = heap[a].pid /\ ns.sk = heap[a].sk /\ ns.node = heap[a].node
    BY <1>1, <1>3, <1>4, AcquiredSocket
  <1>7. /\ thread' = [thread EXCEPT ![t] = nt]
        /\ heap' = [heap EXCEPT ![a] = ns] /\ ~Inside(t)
    BY <1>1 DEF LockNode, Goto, Inside
  <1> HIDE DEF nt, ns
  <1>8. /\ heap' \in [Addr -> Socket \cup {NULL}]
        /\ thread' \in [Threads -> ThreadType]
        /\ heap'[a] = ns /\ heap'[a] # NULL
        /\ \A b \in Addr \ {a} : heap'[b] = heap[b]
        /\ thread'[t] = nt
        /\ \A u \in Threads \ {t} : thread'[u] = thread[u]
        /\ PointersAreSockets' /\ PointersAreSet' /\ LocksMatch'
    <2>1. /\ nt.pc \in {"inside", "freeSk", "print"} /\ nt.ptr = Ptr(t)
          /\ nt.pc \notin {"add", "found", "free", "unlink", "idle", "asleep"}
          /\ heap[nt.ptr] # NULL
      BY <1>3, <1>5
    <2> QED BY <1>1, <1>2, <1>3, <1>4, <1>5, <1>6, <1>7, <2>1, LockStep
  <1> HIDE DEF a, t
  <1>9. TypeOK' BY <1>1, <1>8 DEF TypeOK
  <1>10. NodesMatch'
    <2>1. \A b \in Addr : (heap'[b] # NULL <=> heap[b] # NULL)
            /\ (heap[b] # NULL => /\ heap'[b].node = heap[b].node
                                 /\ heap'[b].sk = heap[b].sk)
      BY <1>2, <1>3, <1>6, <1>8
    <2>2. Range(sockets_queue) \subseteq Addr
      BY <1>1, QueueRange DEF TypeOK
    <2> QED BY <1>1, <2>1, <2>2 DEF Sound, NodesMatch
  <1>11. \A u \in Threads : Ptr(u)' = Ptr(u) /\ Ptr(u) \in Addr \cup {NULL}
    BY <1>1, <1>5, <1>8 DEF a, t, Ptr, TypeOK, ThreadType
  <1>12. CreatorsAlone' /\ FreesOnce'
    BY <1>1, <1>2, <1>3, <1>5, <1>6, <1>8, <1>11, Typing
       DEF Sound, CreatorsAlone, FreesOnce, PointersAreSet
  <1>13. TableLocked'
    BY <1>1, <1>2, <1>5, <1>8, <1>11 DEF Sound, TableLocked, t
  <1> QED BY <1>8, <1>9, <1>10, <1>12, <1>13 DEF Sound

\* A thread lets go of its socket.  What it does to the Sock on the way out is
\* the difference between a release and FreeSk.
LEMMA ReleaseStep ==
  ASSUME Sound, NEW t \in Threads, NEW nt \in ThreadType, NEW ns \in Socket,
         Inside(t),
         heap' = [heap EXCEPT ![Ptr(t)] = ns],
         thread' = [thread EXCEPT ![t] = nt],
         UNCHANGED <<sockets_queue, sock_amount, rw_mutex, proc>>,
         ns.lock = NULL, ns.refCnt = 1,
         ns.pid = heap[Ptr(t)].pid, ns.node = heap[Ptr(t)].node,
         ns.sk = "none" <=> heap[Ptr(t)].sk = "none",
         \/ ns.sk = heap[Ptr(t)].sk
         \/ thread[t].pc = "freeSk",
         nt.pc \in {"idle", "asleep", "free", "walk"},
         nt.pc = "free" => nt.ptr # NULL,
         nt.pc \in {"idle", "asleep"} => nt.ptr = NULL,
         nt.pc = "asleep" \/ nt.call = "poll" => nt.pid \in Pids,
         nt.ptr \in {NULL, Ptr(t)} \cup Range(sockets_queue),
         nt.ptr # NULL => /\ heap[nt.ptr] # NULL
                          /\ t \in Workers => heap[nt.ptr].pid = nt.pid,
         nt.pc = "walk" => rw_mutex = t,
         t = Debugger => /\ nt.pc = "walk"
                         /\ nt.ptr \in Range(sockets_queue) \cup {NULL}
  PROVE  Sound'
  <1> DEFINE a == Ptr(t)
  <1>1. /\ TypeOK /\ a \in Addr /\ heap[a] # NULL /\ heap[a] \in Socket
        /\ heap[a].lock = t
    <2>1. TypeOK /\ a \in Addr
      BY DEF Inside, Sound, PointersAreSet, TypeOK, ThreadType, Ptr
    <2>2. heap[a] # NULL /\ heap[a] \in Socket
      BY <2>1, Typing DEF Sound, PointersAreSockets
    <2> QED BY <2>1, <2>2 DEF Sound, LocksMatch
  <1>2. /\ heap' \in [Addr -> Socket \cup {NULL}]
        /\ thread' \in [Threads -> ThreadType]
        /\ heap'[a] = ns /\ heap'[a] # NULL
        /\ \A b \in Addr \ {a} : heap'[b] = heap[b]
        /\ thread'[t] = nt
        /\ \A u \in Threads \ {t} : thread'[u] = thread[u]
        /\ PointersAreSockets' /\ PointersAreSet' /\ LocksMatch'
    <2>1. nt.pc \notin {"inside", "freeSk", "print", "add", "found", "unlink"}
      OBVIOUS
    <2> QED BY <1>1, <2>1, LockStep
  <1>3. TypeOK' BY <1>1, <1>2 DEF TypeOK
  <1>4. Range(sockets_queue) \subseteq Addr /\ NULL \notin Range(sockets_queue)
    BY <1>1, QueueRange DEF TypeOK
  <1>5. thread[t].pc = "freeSk" => heap[a].node = "null"
    BY DEF Sound, FreesOnce
  <1> HIDE DEF a
  <1>6. NodesMatch'
    <2>1. ASSUME NEW b \in Addr, heap'[b] # NULL
          PROVE  /\ heap[b] # NULL /\ heap'[b].node = heap[b].node
                 /\ heap'[b].sk = heap[b].sk \/ heap[b].node = "null"
      BY <1>1, <1>2, <1>5, <2>1 DEF a
    <2>2. ASSUME NEW b \in Addr, heap[b] # NULL
          PROVE  heap'[b] # NULL
      BY <1>2, <2>2
    <2> QED BY <1>4, <2>1, <2>2 DEF Sound, NodesMatch
  <1>7. CreatorsAlone'
    <2>1. ASSUME NEW u \in Threads, thread'[u].pc = "add"
          PROVE  /\ heap'[thread'[u].ptr].node = "self"
                 /\ heap'[thread'[u].ptr].sk = "live"
                 /\ \A v \in Threads \ {u} : thread'[v].ptr # thread'[u].ptr
      <3>1. u # t /\ thread'[u] = thread[u] /\ thread[u].pc = "add"
        BY <1>2, <2>1
      <3>2. /\ heap[thread[u].ptr].node = "self" /\ heap[thread[u].ptr].sk = "live"
            /\ \A v \in Threads \ {u} : thread[v].ptr # thread[u].ptr
            /\ thread[u].ptr # NULL /\ thread[u].ptr \in Addr
        BY <1>1, <3>1 DEF Sound, CreatorsAlone, PointersAreSet, Ptr, TypeOK, ThreadType
      <3>3. thread[u].ptr # a BY <3>1, <3>2 DEF a, Ptr
      <3>4. nt.ptr # thread[u].ptr
        BY <3>2, <3>3 DEF Sound, NodesMatch, a
      <3> QED BY <1>2, <3>1, <3>2, <3>3, <3>4
    <2>2. ASSUME NEW b \in Addr, heap'[b] # NULL, heap'[b].node = "self"
          PROVE  \/ heap'[b].sk = "none"
                 \/ \E u \in Threads : thread'[u].pc = "add" /\ thread'[u].ptr = b
      <3>1. heap[b] # NULL /\ heap[b].node = "self"
            /\ (heap'[b].sk = "none" <=> heap[b].sk = "none")
        BY <1>1, <1>2, <2>2 DEF a
      <3>2. \/ heap[b].sk = "none"
            \/ \E u \in Threads : thread[u].pc = "add" /\ thread[u].ptr = b
        BY <3>1 DEF Sound, CreatorsAlone, Ptr
      <3>3. thread[t].pc # "add" BY DEF Inside
      <3> QED BY <1>2, <3>1, <3>2, <3>3
    <2> QED BY <2>1, <2>2 DEF CreatorsAlone, Ptr
  <1>8. FreesOnce'
    <2>1. ASSUME NEW u \in Threads, thread'[u].pc = "freeSk"
          PROVE  heap'[thread'[u].ptr].node = "null" /\ heap'[thread'[u].ptr].sk # "freed"
      <3>1. u # t /\ thread'[u] = thread[u] BY <1>2, <2>1
      <3>2. thread[u].ptr \in Addr /\ thread[u].ptr # a
        <4>1. thread[u].ptr \in Addr
          BY <1>1, <2>1, <3>1 DEF Sound, PointersAreSet, Ptr, TypeOK, ThreadType
        <4>2. Inside(u) BY <2>1, <3>1 DEF Inside
        <4> QED BY <1>1, <3>1, <4>1, <4>2 DEF Sound, LocksMatch, Ptr
      <3> QED BY <1>2, <2>1, <3>1, <3>2 DEF Sound, FreesOnce, Ptr
    <2> QED BY <2>1 DEF FreesOnce, Ptr
  <1>9. TableLocked'
    BY <1>2 DEF Sound, TableLocked, Ptr
  <1> QED BY <1>2, <1>3, <1>6, <1>7, <1>8, <1>9 DEF Sound

LEMMA ReleaseNodeSound ==
  ASSUME Sound, ReleaseNode
  PROVE  Sound'
  <1> DEFINE t == Debugger
             a == Ptr(t)
             f == Following(a)
             nt == InCall("walk", "debug", f, NULL, 0)
             ns == Released(heap[a])
  <1>1. /\ TypeOK /\ t \in Threads /\ t \notin Workers /\ thread[t].pc = "print"
        /\ thread' = [thread EXCEPT ![t] = nt]
        /\ heap' = [heap EXCEPT ![a] = ns]
        /\ UNCHANGED <<sockets_queue, sock_amount, rw_mutex, proc>>
    BY ThreadAssumption DEF ReleaseNode, At, Sound, Threads, ThreadAssumption
  <1>2. /\ a \in Addr /\ a \in Range(sockets_queue) /\ rw_mutex = t
        /\ Inside(t)
    BY <1>1 DEF Sound, PointersAreSet, TableLocked, TypeOK, ThreadType, Ptr, Inside
  <1>3. /\ heap[a] # NULL /\ heap[a] \in Socket /\ heap[a].refCnt = 2
    <2>1. heap[a] # NULL /\ heap[a] \in Socket
      BY <1>1, <1>2, Typing DEF Sound, PointersAreSockets
    <2>2. heap[a].lock = t BY <1>1, <1>2, <2>1 DEF Sound, LocksMatch
    <2>3. t # NULL BY <1>1, <1>2, Typing
    <2> QED BY <1>2, <2>1, <2>2, <2>3 DEF Sound, LocksMatch
  <1>4. f \in Range(sockets_queue) \cup {NULL}
    <2> DEFINE i == CHOOSE j \in DOMAIN sockets_queue : sockets_queue[j] = a
    <2>1. i \in 1 .. Len(sockets_queue) BY <1>1, <1>2 DEF Range, TypeOK
    <2>2. f = IF i < Len(sockets_queue) THEN sockets_queue[i + 1] ELSE NULL
      BY DEF Following
    <2> HIDE DEF i, f
    <2> QED BY <1>1, <2>1, <2>2 DEF Range, TypeOK
  <1>5. /\ f \in Addr \cup {NULL}
        /\ f # NULL => heap[f] # NULL
    BY <1>1, <1>4, QueueRange DEF TypeOK, Sound, NodesMatch
  <1> HIDE DEF f
  <1>6. /\ nt \in ThreadType /\ nt.pc = "walk" /\ nt.ptr = f /\ nt.call = "debug"
    BY <1>5 DEF InCall, ThreadType, Places, Calls
  <1>7. /\ ns \in Socket /\ ns.lock = NULL /\ ns.refCnt = 1
        /\ ns.pid = heap[a].pid /\ ns.sk = heap[a].sk /\ ns.node = heap[a].node
    BY <1>3, ReleasedSocket
  <1> HIDE DEF nt, ns
  <1> QED BY <1>1, <1>2, <1>4, <1>5, <1>6, <1>7, ReleaseStep

\* The socket a thread is inside of is locked and counted.
LEMMA InsideSocket ==
  ASSUME Sound, NEW t \in Threads, Inside(t)
  PROVE  /\ Ptr(t) \in Addr /\ heap[Ptr(t)] # NULL /\ heap[Ptr(t)] \in Socket
         /\ heap[Ptr(t)].lock = t /\ heap[Ptr(t)].refCnt = 2
  <1>1. TypeOK /\ Ptr(t) \in Addr
    BY DEF Inside, Sound, PointersAreSet, TypeOK, ThreadType, Ptr
  <1>2. heap[Ptr(t)] # NULL /\ heap[Ptr(t)] \in Socket
    BY <1>1, Typing DEF Sound, PointersAreSockets
  <1>3. heap[Ptr(t)].lock = t /\ t # NULL
    BY <1>1, <1>2, Typing DEF Sound, LocksMatch
  <1> QED BY <1>1, <1>2, <1>3 DEF Sound, LocksMatch

LEMMA LeaveSound ==
  ASSUME Sound, NEW t \in Threads, Leave(t), t # Debugger
  PROVE  Sound'
  <1> DEFINE a == Ptr(t)
             ns == Released(heap[a])
  <1>1. /\ TypeOK /\ thread[t].pc = "inside" /\ Inside(t)
        /\ heap' = [heap EXCEPT ![a] = ns]
        /\ UNCHANGED <<sockets_queue, sock_amount, rw_mutex, proc>>
    BY DEF Leave, At, Sound, Inside
  <1>2. PICK nt \in Outcomes(thread[t]) : thread' = [thread EXCEPT ![t] = nt]
    BY DEF Leave
  <1>3. /\ a \in Addr /\ heap[a] # NULL /\ heap[a] \in Socket /\ heap[a].refCnt = 2
    BY <1>1, InsideSocket
  <1>4. /\ ns \in Socket /\ ns.lock = NULL /\ ns.refCnt = 1
        /\ ns.pid = heap[a].pid /\ ns.sk = heap[a].sk /\ ns.node = heap[a].node
    BY <1>3, ReleasedSocket
  <1>5. /\ thread[t] \in ThreadType
        /\ thread[t].call = "poll" => thread[t].pid \in Pids
        /\ t \in Workers => heap[a].pid = thread[t].pid
    BY <1>1, <1>3, Typing DEF TypeOK, Sound, PointersAreSet, PointersAreSockets
  <1> HIDE DEF ns
  <1>6. CASE nt = Idle
    BY <1>1, <1>2, <1>4, <1>6, IdleThread, ReleaseStep
  <1>7. CASE nt = Failed(thread[t])
    <2>1. /\ nt \in ThreadType /\ nt.pc = "free" /\ nt.ptr = a
          /\ nt.pid = thread[t].pid /\ nt.call = thread[t].call
      BY <1>5, <1>7 DEF Failed, ThreadType, Places, Ptr
    <2>2. a # NULL BY <1>1 DEF Inside, Sound, PointersAreSet
    <2> QED BY <1>1, <1>2, <1>3, <1>4, <1>5, <2>1, <2>2, ReleaseStep
  <1>8. CASE nt = Sleeps(thread[t]) /\ thread[t].call = "poll"
    <2>1. TimeLeft(thread[t].timeout) \in Int
      BY <1>5 DEF TimeLeft, ThreadType
    <2>2. /\ nt \in ThreadType /\ nt.pc = "asleep" /\ nt.ptr = NULL
          /\ nt.pid = thread[t].pid
      BY <1>5, <1>8, <2>1 DEF Sleeps, InCall, ThreadType, Places, Calls
    <2> QED BY <1>1, <1>2, <1>4, <1>5, <1>8, <2>2, ReleaseStep
  <1>9. \/ nt = Idle \/ nt = Failed(thread[t])
        \/ nt = Sleeps(thread[t]) /\ thread[t].call = "poll"
    BY <1>2 DEF Outcomes, Done
  <1> QED BY <1>6, <1>7, <1>8, <1>9

LEMMA FreeSkSound ==
  ASSUME Sound, NEW w \in Workers, FreeSk(w)
  PROVE  Sound'
  <1> DEFINE a == Ptr(w)
             s == Freed(heap[a])
             ns == Released(s)
  <1>1. /\ TypeOK /\ w \in Threads /\ thread[w].pc = "freeSk" /\ Inside(w)
        /\ w # Debugger
        /\ heap' = [heap EXCEPT ![a] = ns]
        /\ thread' = [thread EXCEPT ![w] = Idle]
        /\ UNCHANGED <<sockets_queue, sock_amount, rw_mutex, proc>>
    BY ThreadAssumption
       DEF FreeSk, At, Sound, Inside, Threads, ThreadAssumption
  <1>2. /\ a \in Addr /\ heap[a] # NULL /\ heap[a] \in Socket /\ heap[a].refCnt = 2
    BY <1>1, InsideSocket
  <1>3. /\ s \in Socket /\ s.refCnt = 2 /\ s.pid = heap[a].pid
        /\ s.node = heap[a].node
        /\ s.sk = "none" <=> heap[a].sk = "none"
    BY <1>2 DEF Freed, Socket
  <1> HIDE DEF s
  <1>4. /\ ns \in Socket /\ ns.lock = NULL /\ ns.refCnt = 1
        /\ ns.pid = heap[a].pid /\ ns.node = heap[a].node
        /\ ns.sk = "none" <=> heap[a].sk = "none"
    BY <1>3, ReleasedSocket
  <1> HIDE DEF ns
  <1> QED BY <1>1, <1>4, IdleThread, ReleaseStep

\* A new socket, known to its creator only.
LEMMA CreateSound ==
  ASSUME Sound, NEW w \in Workers, Create(w)
  PROVE  Sound'
  <1>1. /\ TypeOK /\ w \in Threads /\ w # Debugger /\ thread[w].pc = "idle"
        /\ UNCHANGED <<sockets_queue, sock_amount, rw_mutex, proc>>
    BY ThreadAssumption DEF Create, At, Sound, Threads, ThreadAssumption
  <1>2. PICK a \in Addr, p \in Pids, sk \in {"none", "live"} :
          /\ heap[a] = NULL
          /\ heap' = [heap EXCEPT ![a] = NewSocket(p, sk)]
          /\ thread' = [thread EXCEPT ![w] =
               InCall(IF sk = "live" THEN "add" ELSE "free", "socket", a, p, 0)]
    BY DEF Create
  <1> DEFINE ns == NewSocket(p, sk)
             nt == InCall(IF sk = "live" THEN "add" ELSE "free", "socket", a, p, 0)
  <1>3. /\ ns \in Socket /\ ns.lock = NULL /\ ns.refCnt = 1 /\ ns.pid = p
        /\ ns.sk = sk /\ ns.node = "self"
    BY DEF NewSocket, Socket
  <1>4. /\ nt \in ThreadType /\ nt.pc = (IF sk = "live" THEN "add" ELSE "free")
        /\ nt.ptr = a /\ nt.pid = p /\ nt.call = "socket"
    BY DEF InCall, ThreadType, Places, Calls
  <1> HIDE DEF ns, nt
  <1>5. ns # NULL /\ a # NULL BY <1>1, <1>3, Typing
  <1>6. /\ heap' \in [Addr -> Socket \cup {NULL}] /\ heap'[a] = ns
        /\ \A b \in Addr \ {a} : heap'[b] = heap[b]
        /\ thread' \in [Threads -> ThreadType] /\ thread'[w] = nt
        /\ \A u \in Threads \ {w} : thread'[u] = thread[u]
    BY <1>1, <1>2, <1>3, <1>4 DEF TypeOK, ns, nt
  <1>7. /\ \A u \in Threads : thread[u].ptr # a
        /\ \A u \in Threads : thread[u].ptr \in Addr \cup {NULL}
        /\ a \notin Range(sockets_queue)
    BY <1>1, <1>2, <1>5 DEF Sound, PointersAreSockets, NodesMatch, TypeOK, ThreadType, Ptr
  <1>8. Range(sockets_queue) \subseteq Addr
    BY <1>1, QueueRange DEF TypeOK
  <1>9. TypeOK' BY <1>1, <1>6 DEF TypeOK
  <1>10. PointersAreSockets'
    BY <1>3, <1>4, <1>5, <1>6, <1>7 DEF Sound, PointersAreSockets, Ptr
  <1>11. PointersAreSet'
    BY <1>4, <1>5, <1>6 DEF Sound, PointersAreSet, Ptr
  <1>12. LocksMatch'
    <2> SUFFICES ASSUME NEW b \in Addr, heap'[b] # NULL
                 PROVE  /\ \A u \in Threads : heap'[b].lock = u <=> Inside(u)' /\ thread'[u].ptr = b
                        /\ heap'[b].refCnt = IF heap'[b].lock = NULL THEN 1 ELSE 2
      BY DEF LocksMatch, Ptr
    <2>1. ~Inside(w) /\ ~Inside(w)' BY <1>1, <1>4, <1>6 DEF Inside
    <2>2. \A u \in Threads \ {w} : Inside(u)' <=> Inside(u) BY <1>6 DEF Inside
    <2>3. CASE b = a
      <3>1. NULL \notin Threads BY <1>1, Typing
      <3> QED BY <1>3, <1>6, <1>7, <2>1, <2>3, <3>1
    <2>4. CASE b # a
      BY <1>6, <2>1, <2>2, <2>4 DEF Sound, LocksMatch, Ptr
    <2> QED BY <2>3, <2>4
  <1>13. NodesMatch'
    BY <1>1, <1>3, <1>5, <1>6, <1>7, <1>8 DEF Sound, NodesMatch
  <1>14. CreatorsAlone'
    <2>1. ASSUME NEW u \in Threads, thread'[u].pc = "add"
          PROVE  /\ heap'[thread'[u].ptr].node = "self"
                 /\ heap'[thread'[u].ptr].sk = "live"
                 /\ \A v \in Threads \ {u} : thread'[v].ptr # thread'[u].ptr
      <3>1. CASE u = w
        BY <1>3, <1>4, <1>6, <1>7, <2>1, <3>1
      <3>2. CASE u # w
        <4>1. /\ heap[thread[u].ptr].node = "self" /\ heap[thread[u].ptr].sk = "live"
              /\ \A v \in Threads \ {u} : thread[v].ptr # thread[u].ptr
              /\ thread[u].ptr \in Addr \ {a} /\ thread'[u] = thread[u]
          BY <1>6, <1>7, <2>1, <3>2 DEF Sound, CreatorsAlone, PointersAreSet, Ptr
        <4> QED BY <1>4, <1>6, <3>2, <4>1
      <3> QED BY <3>1, <3>2
    <2>2. ASSUME NEW b \in Addr, heap'[b] # NULL, heap'[b].node = "self"
          PROVE  \/ heap'[b].sk = "none"
                 \/ \E u \in Threads : thread'[u].pc = "add" /\ thread'[u].ptr = b
      <3>1. CASE b = a BY <1>1, <1>3, <1>4, <1>6, <3>1
      <3>2. CASE b # a
        <4>1. heap'[b] = heap[b] /\ thread[w].pc # "add"
          BY <1>1, <1>6, <3>2
        <4> QED BY <1>6, <2>2, <4>1 DEF Sound, CreatorsAlone, Ptr
      <3> QED BY <3>1, <3>2
    <2> QED BY <2>1, <2>2 DEF CreatorsAlone, Ptr
  <1>15. FreesOnce'
    BY <1>4, <1>6, <1>7 DEF Sound, FreesOnce, PointersAreSet, Ptr
  <1>16. TableLocked'
    BY <1>1, <1>4, <1>6, Typing DEF Sound, TableLocked, Ptr, Threads
  <1> QED
    BY <1>9, <1>10, <1>11, <1>12, <1>13, <1>14, <1>15, <1>16 DEF Sound

\* The creator links its socket and locks it.
LEMMA AddSound ==
  ASSUME Sound, NEW w \in Workers, Add(w)
  PROVE  Sound'
  <1> DEFINE a == Ptr(w)
             s == Acquired(heap[a], w)
             ns == [s EXCEPT !.node = "queued"]
             nt == [thread[w] EXCEPT !.pc = "inside"]
             q == Append(sockets_queue, a)
  <1>1. /\ TypeOK /\ w \in Threads /\ w # Debugger /\ thread[w].pc = "add"
        /\ Unlocked(a) /\ rw_mutex = NULL /\ ~Inside(w)
        /\ heap' = [heap EXCEPT ![a] = ns]
        /\ thread' = [thread EXCEPT ![w] = nt]
        /\ sockets_queue' = q /\ sock_amount' = sock_amount + 1
        /\ UNCHANGED <<rw_mutex, proc>>
    BY ThreadAssumption
       DEF Add, At, Goto, Writable, Sound, Threads, ThreadAssumption, Inside
  <1>2. a \in Addr BY <1>1 DEF Sound, PointersAreSet, TypeOK, ThreadType, Ptr
  <1>3. /\ heap[a] # NULL /\ heap[a] \in Socket /\ heap[a].pid = thread[w].pid
        /\ heap[a].node = "self" /\ heap[a].sk = "live"
    BY <1>1, <1>2, Typing DEF Sound, PointersAreSockets, CreatorsAlone
  <1>4. heap[a].lock = NULL /\ heap[a].refCnt = 1
    BY <1>1, <1>2, <1>3 DEF Unlocked, Sound, LocksMatch
  <1>5. /\ nt \in ThreadType /\ nt.pc = "inside" /\ nt.ptr = a
        /\ nt.pid = thread[w].pid
        /\ nt.call = "poll" => nt.pid \in Pids
    BY <1>1, <1>2 DEF Sound, PointersAreSet, TypeOK, ThreadType, Places, Ptr
  <1>6. /\ ns \in Socket /\ ns.lock = w /\ ns.refCnt = 2
        /\ ns.pid = heap[a].pid /\ ns.sk = "live" /\ ns.node = "queued"
    <2>1. s \in Socket /\ s.lock = w /\ s.refCnt = 2 /\ s.pid = heap[a].pid
          /\ s.sk = "live"
      BY <1>1, <1>3, <1>4, AcquiredSocket
    <2> HIDE DEF s
    <2> QED BY <2>1 DEF Socket
  <1> HIDE DEF ns, nt, s
  <1>7. /\ heap' \in [Addr -> Socket \cup {NULL}]
        /\ thread' \in [Threads -> ThreadType]
        /\ heap'[a] = ns /\ heap'[a] # NULL
        /\ \A b \in Addr \ {a} : heap'[b] = heap[b]
        /\ thread'[w] = nt
        /\ \A u \in Threads \ {w} : thread'[u] = thread[u]
        /\ PointersAreSockets' /\ PointersAreSet' /\ LocksMatch'
    <2>1. /\ nt.pc \in {"inside", "freeSk", "print"} /\ nt.ptr = Ptr(w)
          /\ nt.pc \notin {"add", "found", "free", "unlink", "idle", "asleep"}
          /\ heap[nt.ptr] # NULL /\ (w \in Workers => heap[nt.ptr].pid = nt.pid)
      BY <1>3, <1>5
    <2> QED BY <1>1, <1>2, <1>3, <1>4, <1>5, <1>6, <2>1, LockStep
  <1> HIDE DEF a, q
  <1>8. a \notin Range(sockets_queue)
    BY <1>3 DEF Sound, NodesMatch
  <1>9. /\ q \in Seq(Addr) /\ NoDuplicates(q)
        /\ Range(q) = Range(sockets_queue) \cup {a}
        /\ Range(sockets_queue) \subseteq Addr
    BY <1>1, <1>2, <1>8, AppendedNode, QueueRange DEF Sound, NodesMatch, TypeOK, q
  <1>10. TypeOK' BY <1>1, <1>7, <1>9 DEF TypeOK
  <1>11. NodesMatch'
    BY <1>1, <1>2, <1>6, <1>7, <1>9 DEF Sound, NodesMatch
  <1>12. \A u \in Threads : /\ thread'[u].ptr = thread[u].ptr
                            /\ thread[u].ptr \in Addr \cup {NULL}
    BY <1>1, <1>5, <1>7 DEF a, Ptr, TypeOK, ThreadType
  <1>13. \A u \in Threads \ {w} : thread[u].ptr # a
    BY <1>1 DEF Sound, CreatorsAlone, a, Ptr
  <1>14. CreatorsAlone'
    <2>1. ASSUME NEW u \in Threads, thread'[u].pc = "add"
          PROVE  /\ heap'[thread'[u].ptr].node = "self"
                 /\ heap'[thread'[u].ptr].sk = "live"
                 /\ \A v \in Threads \ {u} : thread'[v].ptr # thread'[u].ptr
      <3>1. u # w /\ thread[u].pc = "add" BY <1>5, <1>7, <2>1
      <3>2. thread[u].ptr \in Addr \ {a}
        BY <1>12, <1>13, <3>1 DEF Sound, PointersAreSet, Ptr
      <3> QED BY <1>7, <1>12, <3>1, <3>2 DEF Sound, CreatorsAlone, Ptr
    <2>2. ASSUME NEW b \in Addr, heap'[b] # NULL, heap'[b].node = "self"
          PROVE  \/ heap'[b].sk = "none"
                 \/ \E u \in Threads : thread'[u].pc = "add" /\ thread'[u].ptr = b
      <3>1. b # a /\ heap'[b] = heap[b] BY <1>6, <1>7, <2>2
      <3>2. thread[w].ptr = a BY DEF a, Ptr
      <3> QED BY <1>7, <2>2, <3>1, <3>2 DEF Sound, CreatorsAlone, Ptr
    <2> QED BY <2>1, <2>2 DEF CreatorsAlone, Ptr
  <1>15. FreesOnce'
    <2> SUFFICES ASSUME NEW u \in Threads, thread'[u].pc = "freeSk"
                 PROVE  /\ heap'[thread'[u].ptr].node = "null"
                        /\ heap'[thread'[u].ptr].sk # "freed"
      BY DEF FreesOnce, Ptr
    <2>1. u # w /\ thread'[u] = thread[u] BY <1>5, <1>7
    <2>2. thread[u].ptr \in Addr \ {a}
      BY <1>12, <1>13, <2>1 DEF Sound, PointersAreSet, Ptr
    <2> QED BY <1>7, <2>1, <2>2 DEF Sound, FreesOnce, Ptr
  <1>16. TableLocked'
    BY <1>1, <1>5, <1>7, <1>9, <1>12, Typing DEF Sound, TableLocked, Ptr
  <1> QED BY <1>7, <1>10, <1>11, <1>14, <1>15, <1>16 DEF Sound

\* A node that is linked, to the table or to itself, leaves the table.
LEMMA UnlinkedNode ==
  ASSUME NEW q \in Seq(Addr), NoDuplicates(q), NEW a \in Addr
  PROVE  /\ Unlinked(q, a) \in Seq(Addr)
         /\ NoDuplicates(Unlinked(q, a))
         /\ Range(Unlinked(q, a)) = Range(q) \ {a}
         /\ Len(Unlinked(q, a)) = IF a \in Range(q) THEN Len(q) - 1 ELSE Len(q)
  <1>1. CASE a \notin Range(q) BY <1>1 DEF Unlinked
  <1>2. CASE a \in Range(q)
    <2> DEFINE i == CHOOSE j \in DOMAIN q : q[j] = a
    <2>1. i \in 1 .. Len(q) /\ q[i] = a BY <1>2 DEF Range
    <2>2. Unlinked(q, a) = RemoveAt(q, i) BY <1>2 DEF Unlinked
    <2> HIDE DEF i
    <2> QED BY <1>2, <2>1, <2>2, RemovedNode, SMTT(40)
  <1> QED BY <1>1, <1>2

LEMMA UnlinkSound ==
  ASSUME Sound, NEW w \in Workers, Unlink(w)
  PROVE  Sound'
  <1> DEFINE a == Ptr(w)
             s == Acquired(heap[a], w)
             ns == [s EXCEPT !.node = "null"]
             nt == [thread[w] EXCEPT !.pc = "freeSk"]
             q == Unlinked(sockets_queue, a)
  <1>1. /\ TypeOK /\ w \in Threads /\ w # Debugger /\ thread[w].pc = "unlink"
        /\ Unlocked(a) /\ ~Inside(w) /\ rw_mutex = w
    BY ThreadAssumption
       DEF Unlink, At, Sound, TableLocked, Threads, ThreadAssumption, Inside
  <1>2. a \in Addr BY <1>1 DEF Sound, PointersAreSet, TypeOK, ThreadType, Ptr
  <1>3. /\ heap[a] # NULL /\ heap[a] \in Socket /\ heap[a].pid = thread[w].pid
    BY <1>1, <1>2, Typing DEF Sound, PointersAreSockets
  <1>4. heap[a].lock = NULL /\ heap[a].refCnt = 1
    BY <1>1, <1>2, <1>3 DEF Unlocked, Sound, LocksMatch
  <1>5. CASE Dies BY <1>5, DiesSound
  <1>6. CASE /\ Unlinks(heap[a])
             /\ heap' = [heap EXCEPT ![a] = ns]
             /\ sockets_queue' = q
             /\ sock_amount' = sock_amount - 1
             /\ rw_mutex' = NULL
             /\ Goto(w, "freeSk")
             /\ UNCHANGED proc
    <2>1. /\ nt \in ThreadType /\ nt.pc = "freeSk" /\ nt.ptr = a
          /\ nt.pid = thread[w].pid
          /\ nt.call = "poll" => nt.pid \in Pids
      BY <1>1, <1>2 DEF Sound, PointersAreSet, TypeOK, ThreadType, Places, Ptr
    <2>2. /\ ns \in Socket /\ ns.lock = w /\ ns.refCnt = 2
          /\ ns.pid = heap[a].pid /\ ns.sk = heap[a].sk /\ ns.node = "null"
      <3>1. s \in Socket /\ s.lock = w /\ s.refCnt = 2 /\ s.pid = heap[a].pid
            /\ s.sk = heap[a].sk
        BY <1>1, <1>3, <1>4, AcquiredSocket
      <3> HIDE DEF s
      <3> QED BY <3>1 DEF Socket
    <2>3. thread' = [thread EXCEPT ![w] = nt] BY <1>6 DEF Goto
    <2>4. heap[a].node # "null" /\ heap[a].sk # "freed"
      BY <1>2, <1>3, <1>6 DEF Unlinks, Sound, NodesMatch
    <2> HIDE DEF ns, nt, s
    <2>5. /\ heap' \in [Addr -> Socket \cup {NULL}]
          /\ thread' \in [Threads -> ThreadType]
          /\ heap'[a] = ns /\ heap'[a] # NULL
          /\ \A b \in Addr \ {a} : heap'[b] = heap[b]
          /\ thread'[w] = nt
          /\ \A u \in Threads \ {w} : thread'[u] = thread[u]
          /\ PointersAreSockets' /\ PointersAreSet' /\ LocksMatch'
      <3>1. /\ nt.pc \in {"inside", "freeSk", "print"} /\ nt.ptr = Ptr(w)
            /\ nt.pc \notin {"add", "found", "free", "unlink", "idle", "asleep"}
            /\ heap[nt.ptr] # NULL /\ (w \in Workers => heap[nt.ptr].pid = nt.pid)
        BY <1>3, <2>1
      <3> QED BY <1>1, <1>2, <1>3, <1>4, <1>6, <2>1, <2>2, <2>3, <3>1, LockStep
    <2> HIDE DEF a, q
    <2>6. /\ q \in Seq(Addr) /\ NoDuplicates(q)
          /\ Range(q) = Range(sockets_queue) \ {a}
          /\ Range(sockets_queue) \subseteq Addr
      BY <1>1, <1>2, UnlinkedNode, QueueRange DEF Sound, NodesMatch, TypeOK, q
    <2>7. TypeOK' BY <1>1, <1>6, <2>5, <2>6 DEF TypeOK
    <2>8. NodesMatch'
      BY <1>2, <1>6, <2>2, <2>5, <2>6 DEF Sound, NodesMatch
    <2>9. \A u \in Threads : /\ thread'[u].ptr = thread[u].ptr
                             /\ thread[u].ptr \in Addr \cup {NULL}
      BY <1>1, <2>1, <2>5 DEF a, Ptr, TypeOK, ThreadType
    <2>10. thread[w].ptr = a BY DEF a, Ptr
    <2>11. CreatorsAlone'
      <3>1. ASSUME NEW u \in Threads, thread'[u].pc = "add"
            PROVE  /\ heap'[thread'[u].ptr].node = "self"
                   /\ heap'[thread'[u].ptr].sk = "live"
                   /\ \A v \in Threads \ {u} : thread'[v].ptr # thread'[u].ptr
        <4>1. u # w /\ thread[u].pc = "add" BY <2>1, <2>5, <3>1
        <4>2. thread[u].ptr \in Addr \ {a}
          BY <1>1, <2>9, <2>10, <4>1 DEF Sound, CreatorsAlone, PointersAreSet, Ptr
        <4> QED BY <2>5, <2>9, <4>1, <4>2 DEF Sound, CreatorsAlone, Ptr
      <3>2. ASSUME NEW b \in Addr, heap'[b] # NULL, heap'[b].node = "self"
            PROVE  \/ heap'[b].sk = "none"
                   \/ \E u \in Threads : thread'[u].pc = "add" /\ thread'[u].ptr = b
        <4>1. b # a /\ heap'[b] = heap[b] BY <2>2, <2>5, <3>2
        <4> QED BY <2>5, <2>10, <3>2, <4>1 DEF Sound, CreatorsAlone, Ptr
      <3> QED BY <3>1, <3>2 DEF CreatorsAlone, Ptr
    <2>12. FreesOnce'
      <3> SUFFICES ASSUME NEW u \in Threads, thread'[u].pc = "freeSk"
                   PROVE  /\ heap'[thread'[u].ptr].node = "null"
                          /\ heap'[thread'[u].ptr].sk # "freed"
        BY DEF FreesOnce, Ptr
      <3>1. CASE u = w BY <2>2, <2>4, <2>5, <2>9, <2>10, <3>1
      <3>2. CASE u # w
        <4>1. thread'[u] = thread[u] /\ thread[u].pc = "freeSk" /\ Inside(u)
          BY <2>5, <3>2 DEF Inside
        <4>2. thread[u].ptr \in Addr \ {a}
          <5>1. heap[Ptr(u)].lock = u /\ Ptr(u) \in Addr
            BY <4>1, InsideSocket
          <5>2. u # NULL BY <1>1, <1>2, Typing
          <5> QED BY <1>4, <5>1, <5>2 DEF Ptr
        <4> QED BY <2>5, <4>1, <4>2 DEF Sound, FreesOnce, Ptr
      <3> QED BY <3>1, <3>2
    <2>13. TableLocked'
      <3>1. \A u \in Threads \ {w} : thread[u].pc \notin {"unlink", "walk", "print"}
        BY <1>1 DEF Sound, TableLocked
      <3>2. thread'[Debugger].pc = "idle" /\ Debugger \in Threads
        BY <1>1, <2>5, <3>1 DEF Sound, TableLocked, Threads
      <3> QED BY <2>1, <2>5, <3>1, <3>2 DEF TableLocked
    <2> QED BY <2>5, <2>7, <2>8, <2>11, <2>12, <2>13 DEF Sound
  <1> QED BY <1>5, <1>6 DEF Unlink

-----------------------------------------------------------------------------
(* Every step *)

LEMMA ProceedSound ==
  ASSUME Sound, NEW t \in Threads, Proceed(t)
  PROVE  Sound'
  <1>1. CASE Acquire(t) BY <1>1, AcquireSound
  <1>2. CASE Leave(t)
    <2>1. t # Debugger
      BY <1>2 DEF Leave, At, Sound, TableLocked
    <2> QED BY <1>2, <2>1, LeaveSound
  <1>3. CASE Crash(t) BY <1>3, DiesSound DEF Crash
  <1>4. CASE /\ t \in Workers
             /\ Add(t) \/ Wake(t) \/ BeginFree(t) \/ Unlink(t) \/ FreeSk(t)
    BY <1>4, AddSound, WakeSound, BeginFreeSound, UnlinkSound, FreeSkSound
  <1>5. CASE t = Debugger /\ (LockNode \/ ReleaseNode \/ EndWalk)
    BY <1>5, LockNodeSound, ReleaseNodeSound, EndWalkSound
  <1> QED BY <1>1, <1>2, <1>3, <1>4, <1>5 DEF Proceed

LEMMA SoundNext == Sound /\ [Next]_vars => Sound'
  <1> SUFFICES ASSUME Sound, [Next]_vars PROVE Sound'
    OBVIOUS
  <1>1. ASSUME NEW w \in Workers, Create(w) \/ Call(w) PROVE Sound'
    BY <1>1, CreateSound, CallSound
  <1>2. CASE Lookup BY <1>2, LookupSound
  <1>3. CASE BeginWalk BY <1>3, BeginWalkSound
  <1>4. ASSUME NEW t \in Threads, Proceed(t) PROVE Sound'
    BY <1>4, ProceedSound
  <1>5. CASE UNCHANGED vars
    BY <1>5
       DEF vars, Sound, TypeOK, PointersAreSockets, PointersAreSet, LocksMatch,
           NodesMatch, CreatorsAlone, FreesOnce, TableLocked, Inside, Ptr
  <1> QED BY <1>1, <1>2, <1>3, <1>4, <1>5 DEF Next

-----------------------------------------------------------------------------
(* The count of sockets *)

LEMMA FailuresFinite == IsFiniteSet(FailedCreations)
  BY MemoryAssumption, FS_Subset DEF MemoryAssumption, FailedCreations

\* A step that leaves a failed creation, or none, where it found one, or none.
LEMMA SameFailures ==
  ASSUME Sound, NEW a \in Addr, NEW s \in Socket,
         heap' = [heap EXCEPT ![a] = s],
         s.node = "null" /\ s.sk = "none" <=>
           heap[a] # NULL /\ heap[a].node = "null" /\ heap[a].sk = "none"
  PROVE  FailedCreations' = FailedCreations
  <1>1. heap \in [Addr -> Socket \cup {NULL}] BY DEF Sound, TypeOK
  <1>2. s # NULL BY ThreadAssumption DEF ThreadAssumption
  <1>3. heap'[a] = s /\ \A b \in Addr \ {a} : heap'[b] = heap[b]
    BY <1>1
  <1>4. ASSUME NEW b \in Addr
        PROVE  (heap'[b] # NULL /\ heap'[b].sk = "none" /\ heap'[b].node = "null")
               <=> (heap[b] # NULL /\ heap[b].sk = "none" /\ heap[b].node = "null")
    BY <1>2, <1>3
  <1> QED BY <1>4 DEF FailedCreations

\* The steps between the counted ones.
KeepsCount == /\ FailedCreations' = FailedCreations
              /\ UNCHANGED <<sockets_queue, sock_amount>>

LEMMA StillKeepsCount ==
  UNCHANGED <<heap, sockets_queue, sock_amount>> => KeepsCount
  BY DEF KeepsCount, FailedCreations

LEMMA CreateKeepsCount ==
  ASSUME Sound, NEW w \in Workers, Create(w)
  PROVE  KeepsCount
  <1>1. PICK a \in Addr, p \in Pids, sk \in {"none", "live"} :
          heap[a] = NULL /\ heap' = [heap EXCEPT ![a] = NewSocket(p, sk)]
    BY DEF Create
  <1>2. NewSocket(p, sk) \in Socket /\ NewSocket(p, sk).node = "self"
    BY DEF NewSocket, Socket
  <1>3. FailedCreations' = FailedCreations
    BY <1>1, <1>2, SameFailures
  <1> QED BY <1>3 DEF Create, KeepsCount

LEMMA LockKeepsCount ==
  ASSUME Sound, NEW t \in Threads, Ptr(t) # NULL,
         heap' = [heap EXCEPT ![Ptr(t)] = Acquired(@, t)]
  PROVE  FailedCreations' = FailedCreations
  <1>1. /\ Ptr(t) \in Addr /\ heap[Ptr(t)] # NULL /\ heap[Ptr(t)] \in Socket
    BY Typing DEF TypeOK, ThreadType, Ptr, Sound, PointersAreSockets
  <1>2. /\ Acquired(heap[Ptr(t)], t) \in Socket
        /\ Acquired(heap[Ptr(t)], t).sk = heap[Ptr(t)].sk
        /\ Acquired(heap[Ptr(t)], t).node = heap[Ptr(t)].node
    BY <1>1, AcquiredSocket
  <1> QED BY <1>1, <1>2, SameFailures

LEMMA ReleaseKeepsCount ==
  ASSUME Sound, NEW t \in Threads, Inside(t),
         heap' = [heap EXCEPT ![Ptr(t)] = Released(@)]
  PROVE  FailedCreations' = FailedCreations
  <1>1. /\ Ptr(t) \in Addr /\ heap[Ptr(t)] # NULL /\ heap[Ptr(t)] \in Socket
        /\ heap[Ptr(t)].refCnt = 2
    BY InsideSocket
  <1>2. PICK s \in Socket :
          /\ heap' = [heap EXCEPT ![Ptr(t)] = s]
          /\ s.sk = heap[Ptr(t)].sk /\ s.node = heap[Ptr(t)].node
    BY <1>1, ReleasedSocket
  <1>3. s.node = "null" /\ s.sk = "none" <=>
          heap[Ptr(t)] # NULL /\ heap[Ptr(t)].node = "null"
            /\ heap[Ptr(t)].sk = "none"
    BY <1>1, <1>2
  <1> QED BY <1>1, <1>2, <1>3, SameFailures

LEMMA FreeSkKeepsCount ==
  ASSUME Sound, NEW w \in Workers, FreeSk(w)
  PROVE  KeepsCount
  <1> DEFINE a == Ptr(w)
             s == Freed(heap[a])
             r == Released(s)
  <1>1. /\ w \in Threads /\ Inside(w) /\ heap' = [heap EXCEPT ![a] = r]
        /\ UNCHANGED <<sockets_queue, sock_amount>>
    BY DEF FreeSk, At, Inside, Threads
  <1>2. /\ a \in Addr /\ heap[a] # NULL /\ heap[a] \in Socket
        /\ heap[a].refCnt = 2
    BY <1>1, InsideSocket
  <1>3. /\ s \in Socket /\ s.refCnt = 2 /\ s.node = heap[a].node
        /\ s.sk = "none" <=> heap[a].sk = "none"
    BY <1>2 DEF Freed, Socket
  <1> HIDE DEF s, a
  <1>4. r \in Socket /\ r.sk = s.sk /\ r.node = s.node
    BY <1>3, ReleasedSocket
  <1> HIDE DEF r
  <1>5. FailedCreations' = FailedCreations
    BY <1>1, <1>2, <1>3, <1>4, SameFailures
  <1> QED BY <1>1, <1>5 DEF KeepsCount

\* A socket that joins the table is counted.
LEMMA AddCounts ==
  ASSUME Sound, NEW w \in Workers, Add(w)
  PROVE  /\ FailedCreations' = FailedCreations
         /\ Len(sockets_queue') = Len(sockets_queue) + 1
         /\ sock_amount' = sock_amount + 1
  <1> DEFINE a == Ptr(w)
             s == Acquired(heap[a], w)
             ns == [s EXCEPT !.node = "queued"]
  <1>1. /\ TypeOK /\ w \in Threads /\ thread[w].pc = "add"
        /\ heap' = [heap EXCEPT ![a] = ns]
        /\ sockets_queue' = Append(sockets_queue, a)
        /\ sock_amount' = sock_amount + 1
    BY DEF Add, At, Sound, Threads
  <1>2. a \in Addr BY <1>1 DEF Sound, PointersAreSet, TypeOK, ThreadType, Ptr
  <1>3. heap[a] # NULL /\ heap[a] \in Socket /\ heap[a].node = "self"
    BY <1>1, <1>2, Typing DEF Sound, PointersAreSockets, CreatorsAlone
  <1>4. s \in Socket BY <1>1, <1>3, AcquiredSocket
  <1> HIDE DEF s
  <1>5. ns \in Socket /\ ns.node = "queued" BY <1>4 DEF Socket
  <1> HIDE DEF ns
  <1>6. FailedCreations' = FailedCreations
    BY <1>1, <1>2, <1>3, <1>5, SameFailures
  <1>7. Len(sockets_queue') = Len(sockets_queue) + 1
    BY <1>1, <1>2 DEF TypeOK
  <1> QED BY <1>1, <1>6, <1>7

\* A socket that leaves the table is counted out; so is a failed creation,
\* which was not in it.
LEMMA UnlinkCounts ==
  ASSUME Sound, AmountDriftsByFailures, NEW w \in Workers, Unlink(w)
  PROVE  AmountDriftsByFailures'
  <1> DEFINE a == Ptr(w)
             s == Acquired(heap[a], w)
             ns == [s EXCEPT !.node = "null"]
             q == Unlinked(sockets_queue, a)
  <1>1. TypeOK /\ w \in Threads /\ thread[w].pc = "unlink"
    BY DEF Unlink, At, Sound, Threads
  <1>2. a \in Addr BY <1>1 DEF Sound, PointersAreSet, TypeOK, ThreadType, Ptr
  <1>3. heap[a] # NULL /\ heap[a] \in Socket
    BY <1>1, <1>2, Typing DEF Sound, PointersAreSockets
  <1>4. CASE Dies
    BY <1>4 DEF Dies, AmountDriftsByFailures, FailedCreations
  <1>5. CASE /\ Unlinks(heap[a])
             /\ heap' = [heap EXCEPT ![a] = ns]
             /\ sockets_queue' = q
             /\ sock_amount' = sock_amount - 1
    <2>1. /\ s \in Socket /\ s.sk = heap[a].sk
      BY <1>1, <1>3, AcquiredSocket
    <2> HIDE DEF s
    <2>2. ns \in Socket /\ ns.sk = heap[a].sk /\ ns.node = "null" /\ ns # NULL
      BY <2>1, ThreadAssumption DEF Socket, ThreadAssumption
    <2> HIDE DEF ns
    <2>3. heap'[a] = ns /\ \A b \in Addr \ {a} : heap'[b] = heap[b]
      BY <1>1, <1>2, <1>5 DEF TypeOK
    <2>4. heap[a].node \in {"self", "queued"}
      BY <1>3, <1>5 DEF Unlinks, Socket
    <2>5. a \notin FailedCreations BY <2>4 DEF FailedCreations
    <2> HIDE DEF a
    <2>6. CASE heap[a].node = "queued"
      <3>1. heap[a].sk = "live" /\ a \in Range(sockets_queue)
        BY <1>2, <1>3, <2>6 DEF Sound, NodesMatch
      <3>2. Len(q) = Len(sockets_queue) - 1
        <4> DEFINE i == CHOOSE j \in DOMAIN sockets_queue : sockets_queue[j] = a
        <4>1. sockets_queue \in Seq(Addr) /\ NoDuplicates(sockets_queue)
          BY <1>1 DEF TypeOK, Sound, NodesMatch
        <4>2. \E j \in DOMAIN sockets_queue : sockets_queue[j] = a
          BY <3>1 DEF Range
        <4>3. i \in DOMAIN sockets_queue BY <4>2
        <4>4. i \in 1 .. Len(sockets_queue) BY <4>1, <4>3
        <4>5. q = RemoveAt(sockets_queue, i) BY <3>1 DEF Unlinked
        <4> HIDE DEF i
        <4> QED BY <4>1, <4>4, <4>5, RemovedNode
      <3>3. FailedCreations' = FailedCreations
        BY <1>2, <1>3, <1>5, <2>2, <2>6, <3>1, SameFailures
      <3> HIDE DEF q
      <3>4. Cardinality(FailedCreations) \in Nat /\ Len(sockets_queue) \in Nat
        BY <1>1, FailuresFinite, FS_CardinalityType DEF TypeOK
      <3> QED BY <1>5, <3>2, <3>3, <3>4 DEF AmountDriftsByFailures
    <2>7. CASE heap[a].node = "self"
      <3>1. heap[a].sk = "none"
        <4>1. ASSUME NEW t \in Threads, thread[t].pc = "add", Ptr(t) = a
              PROVE  FALSE
          <5>1. t # w BY <1>1, <4>1
          <5> QED BY <1>1, <4>1, <5>1 DEF Sound, CreatorsAlone, a
        <4> QED BY <1>2, <1>3, <2>7, <4>1 DEF Sound, CreatorsAlone
      <3>2. a \notin Range(sockets_queue) /\ q = sockets_queue
        BY <2>7 DEF Sound, NodesMatch, Unlinked
      <3>3. FailedCreations' = FailedCreations \cup {a}
        BY <1>2, <2>2, <2>3, <3>1 DEF FailedCreations
      <3>4. Cardinality(FailedCreations') = Cardinality(FailedCreations) + 1
        BY <2>5, <3>3, FailuresFinite, FS_AddElement
      <3> HIDE DEF q
      <3>5. Cardinality(FailedCreations) \in Nat /\ Len(sockets_queue) \in Nat
        BY <1>1, FailuresFinite, FS_CardinalityType DEF TypeOK
      <3> QED BY <1>5, <3>2, <3>4, <3>5 DEF AmountDriftsByFailures
    <2> QED BY <2>4, <2>6, <2>7
  <1> QED BY <1>4, <1>5 DEF Unlink

LEMMA AmountNext ==
  Sound /\ AmountDriftsByFailures /\ [Next]_vars => AmountDriftsByFailures'
  <1> SUFFICES ASSUME Sound, AmountDriftsByFailures, [Next]_vars
               PROVE  AmountDriftsByFailures'
    OBVIOUS
  <1>1. ASSUME KeepsCount PROVE AmountDriftsByFailures'
    BY <1>1 DEF KeepsCount, AmountDriftsByFailures
  <1>2. ASSUME NEW w \in Workers, Create(w) \/ Call(w)
        PROVE  AmountDriftsByFailures'
    BY <1>1, <1>2, CreateKeepsCount, StillKeepsCount DEF Call
  <1>3. CASE Lookup \/ BeginWalk \/ UNCHANGED vars
    BY <1>1, <1>3, StillKeepsCount DEF Lookup, BeginWalk, vars
  <1>4. ASSUME NEW t \in Threads, Acquire(t) \/ Crash(t)
        PROVE  AmountDriftsByFailures'
    <2>1. CASE Dies BY <1>1, <2>1, StillKeepsCount DEF Dies
    <2>2. CASE ~Dies
      <3>1. /\ Ptr(t) # NULL /\ heap' = [heap EXCEPT ![Ptr(t)] = Acquired(@, t)]
            /\ UNCHANGED <<sockets_queue, sock_amount>>
        BY <1>4, <2>2 DEF Acquire, Crash, At, Sound, PointersAreSet
      <3> QED BY <1>1, <3>1, LockKeepsCount DEF KeepsCount
    <2> QED BY <2>1, <2>2
  <1>5. ASSUME NEW t \in Threads, Leave(t) PROVE AmountDriftsByFailures'
    <2>1. /\ Inside(t) /\ heap' = [heap EXCEPT ![Ptr(t)] = Released(@)]
          /\ UNCHANGED <<sockets_queue, sock_amount>>
      BY <1>5 DEF Leave, At, Inside
    <2> QED BY <1>1, <2>1, ReleaseKeepsCount DEF KeepsCount
  <1>6. ASSUME NEW w \in Workers, Add(w) PROVE AmountDriftsByFailures'
    <2>1. Cardinality(FailedCreations) \in Nat /\ Len(sockets_queue) \in Nat
      BY FailuresFinite, FS_CardinalityType DEF Sound, TypeOK
    <2> QED BY <1>6, <2>1, AddCounts DEF AmountDriftsByFailures
  <1>7. ASSUME NEW w \in Workers, Wake(w) \/ BeginFree(w)
        PROVE  AmountDriftsByFailures'
    BY <1>1, <1>7, StillKeepsCount DEF Wake, BeginFree
  <1>8. ASSUME NEW w \in Workers, Unlink(w) \/ FreeSk(w)
        PROVE  AmountDriftsByFailures'
    BY <1>1, <1>8, UnlinkCounts, FreeSkKeepsCount
  <1>9. CASE LockNode
    <2>1. /\ Debugger \in Threads /\ Ptr(Debugger) # NULL
          /\ heap' = [heap EXCEPT ![Ptr(Debugger)] = Acquired(@, Debugger)]
          /\ UNCHANGED <<sockets_queue, sock_amount>>
      BY <1>9 DEF LockNode, Threads
    <2> QED BY <1>1, <2>1, LockKeepsCount DEF KeepsCount
  <1>10. CASE ReleaseNode
    <2>1. /\ Debugger \in Threads /\ Inside(Debugger)
          /\ heap' = [heap EXCEPT ![Ptr(Debugger)] = Released(@)]
          /\ UNCHANGED <<sockets_queue, sock_amount>>
      BY <1>10 DEF ReleaseNode, Threads, At, Inside
    <2> QED BY <1>1, <2>1, ReleaseKeepsCount DEF KeepsCount
  <1>11. CASE EndWalk BY <1>1, <1>11, StillKeepsCount DEF EndWalk
  <1> QED
    BY <1>2, <1>3, <1>4, <1>5, <1>6, <1>7, <1>8, <1>9, <1>10, <1>11
       DEF Next, Proceed

LEMMA SoundAlways == Spec => []Sound
  BY SoundInit, SoundNext, PTL DEF Spec

\* sock_amount falls below the number of sockets in the table by one for each
\* creation that failed.
THEOREM AmountDrifts == Spec => []AmountDriftsByFailures
  <1>1. Init => AmountDriftsByFailures
    <2> SUFFICES ASSUME Init PROVE AmountDriftsByFailures
      OBVIOUS
    <2>1. FailedCreations = {} BY DEF Init, FailedCreations
    <2>2. Cardinality({}) = 0 BY FS_EmptySet
    <2> QED BY <2>1, <2>2 DEF Init, AmountDriftsByFailures
  <1> QED BY <1>1, AmountNext, SoundAlways, PTL DEF Spec

\* Every variable keeps its type.
THEOREM TypeCorrect == Spec => []TypeOK
  <1>1. Sound => TypeOK BY DEF Sound
  <1> QED BY <1>1, SoundAlways, PTL

\* A pointer that get_socket or socket_lookup returned stays that of a socket
\* of the same process, however long its user waits for the lock.
THEOREM PointersStaySockets == Spec => []PointersAreSockets
  <1>1. Sound => PointersAreSockets BY DEF Sound
  <1> QED BY <1>1, SoundAlways, PTL

\* refCnt is 1, and 2 while a thread is inside: it never falls to 0.
THEOREM ReferencesCounted == Spec => []RefCountsHolders
  <1>1. Sound => RefCountsHolders
    BY Typing DEF Sound, LocksMatch, RefCountsHolders, Holders, Inside
  <1> QED BY <1>1, SoundAlways, PTL

\* The table links every socket once and none that lost its Sock.
THEOREM TableStaysLive == Spec => []TableLinksLiveSockets
  <1>1. Sound => TableLinksLiveSockets
    BY QueueRange
       DEF Sound, NodesMatch, NoDuplicates, TableLinksLiveSockets, IsInjective,
           TypeOK
  <1> QED BY <1>1, SoundAlways, PTL

\* No Sock is freed twice.
THEOREM SkNeverFreedTwice == Spec => []SkFreedOnce
  <1>1. Sound => SkFreedOnce
    BY DEF Sound, FreesOnce, SkFreedOnce, At, Threads
  <1> QED BY <1>1, SoundAlways, PTL

-----------------------------------------------------------------------------
(* What is selected of a queue *)

AreSelections(f, N, q, S) ==
  f = [n \in 0 .. N |-> IF n = 0 THEN <<>> ELSE With(f[n - 1], q[n], S)]

LEMMA SelectionsExist ==
  ASSUME NEW N \in Nat, NEW q, NEW S
  PROVE  \E f : AreSelections(f, N, q, S)
  <1> DEFINE M == {m \in Nat : \E f : AreSelections(f, m, q, S)}
  <1>1. 0 \in M
    <2>1. AreSelections([n \in 0 .. 0 |-> <<>>], 0, q, S) BY DEF AreSelections
    <2> QED BY <2>1
  <1>2. ASSUME NEW m \in 0 .. N - 1, m \in M PROVE m + 1 \in M
    <2>1. PICK f : AreSelections(f, m, q, S) BY <1>2
    <2>2. AreSelections([n \in 0 .. m + 1 |->
               IF n = m + 1 THEN With(f[m], q[n], S) ELSE f[n]], m + 1, q, S)
      BY <2>1 DEF AreSelections
    <2>3. m + 1 \in Nat OBVIOUS
    <2> QED BY <2>2, <2>3
  <1> HIDE DEF M
  <1>3. 0 .. N \subseteq M BY <1>1, <1>2, Induction
  <1>4. N \in M BY <1>3
  <1> QED BY <1>4 DEF M

LEMMA SelectionsAre ==
  ASSUME NEW A, NEW q \in Seq(A), NEW S
  PROVE  /\ Selections(q, S)[0] = <<>>
         /\ \A n \in 1 .. Len(q) :
              Selections(q, S)[n] = With(Selections(q, S)[n - 1], q[n], S)
  <1> DEFINE f == Selections(q, S)
  <1>1. Len(q) \in Nat OBVIOUS
  <1>2. AreSelections(f, Len(q), q, S)
    <2>1. f = CHOOSE g : AreSelections(g, Len(q), q, S)
      BY DEF Selections, AreSelections
    <2>2. \E g : AreSelections(g, Len(q), q, S) BY <1>1, SelectionsExist
    <2> HIDE DEF f
    <2> QED BY <2>1, <2>2, Zenon
  <1> HIDE DEF f
  <1>3. f[0] = <<>> BY <1>1, <1>2 DEF AreSelections
  <1>4. \A n \in 1 .. Len(q) : f[n] = With(f[n - 1], q[n], S)
    BY <1>1, <1>2 DEF AreSelections
  <1> QED BY <1>3, <1>4 DEF f

\* What is selected is of the queue and of the set.
LEMMA SelectedFrom ==
  ASSUME NEW A, NEW q \in Seq(A), NEW S
  PROVE  /\ \A n \in 0 .. Len(q) : Selections(q, S)[n] \in Seq(Range(q) \cap S)
         /\ Selected(q, S) \in Seq(Range(q) \cap S)
  <1> DEFINE f == Selections(q, S)
             R == Range(q) \cap S
             M == {n \in 0 .. Len(q) : f[n] \in Seq(R)}
  <1>1. Len(q) \in Nat OBVIOUS
  <1>2. f[0] = <<>> /\ \A n \in 1 .. Len(q) : f[n] = With(f[n - 1], q[n], S)
    BY SelectionsAre
  <1>3. \A n \in 1 .. Len(q) : q[n] \in S => q[n] \in R BY DEF Range
  <1> HIDE DEF f, R
  <1>4. 0 \in M
    <2>1. f[0] \in Seq(R) BY <1>2
    <2> QED BY <1>1, <2>1
  <1>5. ASSUME NEW n \in 0 .. Len(q) - 1, n \in M PROVE n + 1 \in M
    <2>1. n + 1 \in 1 .. Len(q) /\ (n + 1) - 1 = n BY <1>1
    <2>2. f[n] \in Seq(R) BY <1>5
    <2>3. f[n + 1] = With(f[n], q[n + 1], S) BY <1>2, <2>1
    <2>4. f[n + 1] \in Seq(R) BY <1>3, <2>1, <2>2, <2>3 DEF With
    <2> QED BY <1>1, <2>1, <2>4
  <1> HIDE DEF M
  <1>6. 0 .. Len(q) \subseteq M BY <1>1, <1>4, <1>5, Induction
  <1>7. \A n \in 0 .. Len(q) : f[n] \in Seq(R) BY <1>6 DEF M
  <1> QED BY <1>1, <1>7 DEF f, R, Selected

\* Queues that agree up to an index select the same up to it, from sets that
\* agree on what they hold.
LEMMA SameSelections ==
  ASSUME NEW A, NEW q \in Seq(A), NEW r \in Seq(A), NEW S, NEW T,
         NEW N \in Nat, N <= Len(q), N <= Len(r),
         \A n \in 1 .. N : q[n] = r[n] /\ (q[n] \in S <=> q[n] \in T)
  PROVE  \A n \in 0 .. N : Selections(q, S)[n] = Selections(r, T)[n]
  <1> DEFINE f == Selections(q, S)
             g == Selections(r, T)
             M == {n \in 0 .. N : f[n] = g[n]}
  <1>1. /\ Len(q) \in Nat /\ Len(r) \in Nat
        /\ f[0] = <<>> /\ g[0] = <<>>
        /\ \A n \in 1 .. Len(q) : f[n] = With(f[n - 1], q[n], S)
        /\ \A n \in 1 .. Len(r) : g[n] = With(g[n - 1], r[n], T)
    BY SelectionsAre
  <1> HIDE DEF f, g
  <1>2. 0 \in M BY <1>1
  <1>3. ASSUME NEW n \in 0 .. N - 1, n \in M PROVE n + 1 \in M
    <2>1. /\ n + 1 \in 1 .. Len(q) /\ n + 1 \in 1 .. Len(r)
          /\ n + 1 \in 1 .. N /\ (n + 1) - 1 = n
      BY <1>1
    <2>2. f[n] = g[n] BY <1>3
    <2>3. f[n + 1] = With(f[n], q[n + 1], S) /\ g[n + 1] = With(g[n], r[n + 1], T)
      BY <1>1, <2>1
    <2>4. q[n + 1] = r[n + 1] /\ (q[n + 1] \in S <=> q[n + 1] \in T) BY <2>1
    <2>5. With(f[n], q[n + 1], S) = With(g[n], r[n + 1], T)
      BY <2>2, <2>4 DEF With
    <2>6. f[n + 1] = g[n + 1] BY <2>3, <2>5
    <2> QED BY <2>1, <2>6
  <1> HIDE DEF M
  <1>4. 0 .. N \subseteq M BY <1>2, <1>3, Induction
  <1> QED BY <1>4 DEF M, f, g

LEMMA SelectedSame ==
  ASSUME NEW A, NEW q \in Seq(A), NEW S, NEW T,
         \A a \in Range(q) : a \in S <=> a \in T
  PROVE  Selected(q, S) = Selected(q, T)
  <1>1. Len(q) \in Nat OBVIOUS
  <1>2. \A n \in 1 .. Len(q) : q[n] \in S <=> q[n] \in T BY DEF Range
  <1>3. \A n \in 0 .. Len(q) : Selections(q, S)[n] = Selections(q, T)[n]
    BY <1>1, <1>2, SameSelections
  <1> QED BY <1>1, <1>3 DEF Selected

LEMMA SelectedAppend ==
  ASSUME NEW A, NEW q \in Seq(A), NEW a \in A, NEW S
  PROVE  Selected(Append(q, a), S) =
           IF a \in S THEN Append(Selected(q, S), a) ELSE Selected(q, S)
  <1> DEFINE r == Append(q, a)
             N == Len(q)
  <1>1. /\ r \in Seq(A) /\ N \in Nat /\ Len(r) = N + 1 /\ r[N + 1] = a
        /\ \A n \in 1 .. N : r[n] = q[n]
    OBVIOUS
  <1> HIDE DEF r
  <1>2. \A n \in 0 .. N : Selections(q, S)[n] = Selections(r, S)[n]
    <2>1. N <= Len(q) /\ N <= Len(r) BY <1>1
    <2> HIDE DEF N
    <2> QED BY <1>1, <2>1, SameSelections
  <1>3. Selections(q, S)[N] = Selections(r, S)[N] BY <1>1, <1>2
  <1>4. N + 1 \in 1 .. Len(r) /\ (N + 1) - 1 = N BY <1>1
  <1>5. Selections(r, S)[N + 1] = With(Selections(r, S)[N], r[N + 1], S)
    BY <1>1, <1>4, SelectionsAre
  <1>6. Selections(r, S)[N + 1] =
          IF a \in S THEN Append(Selections(q, S)[N], a) ELSE Selections(q, S)[N]
    BY <1>1, <1>3, <1>5 DEF With
  <1> QED BY <1>1, <1>6 DEF Selected, r

LEMMA TailOfAppend ==
  ASSUME NEW R, NEW s \in Seq(R), NEW x \in R, s # <<>>
  PROVE  /\ Append(s, x) # <<>> /\ Tail(Append(s, x)) = Append(Tail(s), x)
  <1>1. Len(s) \in Nat /\ Len(s) # 0 OBVIOUS
  <1>2. /\ Append(s, x) \in Seq(R) /\ Len(Append(s, x)) = Len(s) + 1
        /\ Append(s, x) # <<>>
    OBVIOUS
  <1>3. Tail(s) \in Seq(R) /\ Len(Tail(s)) = Len(s) - 1 BY <1>1
  <1> DEFINE u == Tail(Append(s, x))
             v == Append(Tail(s), x)
  <1>4. u \in Seq(R) /\ Len(u) = Len(s) BY <1>1, <1>2
  <1>5. v \in Seq(R) /\ Len(v) = Len(s) BY <1>1, <1>3
  <1>6. ASSUME NEW j \in 1 .. Len(s) PROVE u[j] = v[j]
    <2>1. u[j] = Append(s, x)[j + 1] BY <1>1, <1>2, <1>4
    <2>2. CASE j = Len(s)
      <3>1. Append(s, x)[j + 1] = x BY <1>1, <2>2
      <3>2. v[j] = x BY <1>1, <1>3, <2>2
      <3> QED BY <2>1, <3>1, <3>2
    <2>3. CASE j # Len(s)
      <3>1. j \in 1 .. Len(s) - 1 /\ j + 1 \in 1 .. Len(s) BY <1>1, <2>3
      <3>2. Append(s, x)[j + 1] = s[j + 1] BY <1>1, <3>1
      <3>3. v[j] = Tail(s)[j] BY <1>1, <1>3, <3>1
      <3>4. Tail(s)[j] = s[j + 1] BY <1>1, <3>1
      <3> QED BY <2>1, <3>2, <3>3, <3>4
    <2> QED BY <2>2, <2>3
  <1> HIDE DEF u, v
  <1>7. u = v BY <1>4, <1>5, <1>6, SeqEqual
  <1> QED BY <1>2, <1>7 DEF u, v

\* Removing what is not selected changes nothing of what is; removing the
\* first that is leaves the rest.
LEMMA SelectedRemoved ==
  ASSUME NEW A, NEW q \in Seq(A), NEW i \in 1 .. Len(q), NEW S
  PROVE  /\ q[i] \notin S => Selected(RemoveAt(q, i), S) = Selected(q, S)
         /\ (q[i] \in S /\ \A j \in 1 .. i - 1 : q[j] \notin S) =>
              /\ Selected(q, S) # <<>>
              /\ Selected(RemoveAt(q, i), S) = Tail(Selected(q, S))
  <1> DEFINE r == RemoveAt(q, i)
             f == Selections(q, S)
             g == Selections(r, S)
             l == Len(q)
  <1>1. /\ r = [j \in 1 .. l - 1 |-> IF j < i THEN q[j] ELSE q[j + 1]]
        /\ l \in Nat /\ i \in 1 .. l
    BY RemoveAtIs
  <1> HIDE DEF r
  <1>2. /\ r \in Seq(A) /\ Len(r) = l - 1
        /\ \A j \in 1 .. i - 1 : r[j] = q[j]
        /\ \A j \in i .. l - 1 : r[j] = q[j + 1]
    BY <1>1
  <1>3. /\ f[0] = <<>> /\ \A n \in 1 .. l : f[n] = With(f[n - 1], q[n], S)
        /\ g[0] = <<>> /\ \A n \in 1 .. l - 1 : g[n] = With(g[n - 1], r[n], S)
    <2>1. f[0] = <<>> /\ \A n \in 1 .. l : f[n] = With(f[n - 1], q[n], S)
      BY SelectionsAre
    <2>2. g[0] = <<>> /\ \A n \in 1 .. Len(r) : g[n] = With(g[n - 1], r[n], S)
      BY <1>2, SelectionsAre
    <2> QED BY <1>2, <2>1, <2>2
  <1>4. f[i - 1] = g[i - 1]
    <2> DEFINE N == i - 1
    <2>1. N \in Nat /\ N <= Len(q) /\ N <= Len(r) BY <1>1, <1>2
    <2>2. \A n \in 1 .. N : q[n] = r[n] BY <1>2
    <2> HIDE DEF N, f, g
    <2>3. \A n \in 0 .. N : Selections(q, S)[n] = Selections(r, S)[n]
      BY <1>2, <2>1, <2>2, SameSelections
    <2> QED BY <2>1, <2>3 DEF N, f, g
  <1>5. Selected(q, S) = f[l] /\ Selected(r, S) = g[l - 1]
    BY <1>2 DEF Selected
  <1>6. \A n \in 0 .. l : f[n] \in Seq(Range(q) \cap S) BY SelectedFrom
  <1>7. \A n \in 1 .. l : q[n] \in S => q[n] \in Range(q) \cap S
    BY DEF Range
  <1> HIDE DEF f, g, l
  <1>8. i - 1 \in 0 .. l - 1 /\ l - i \in Nat BY <1>1
  \* From i on the two are one step apart.
  <1>9. ASSUME NEW n \in 0 .. l - i - 1
        PROVE  /\ i + n + 1 \in 1 .. l /\ i + n \in i .. l - 1
               /\ f[i + (n + 1)] = With(f[i + n], q[i + n + 1], S)
               /\ g[i + (n + 1) - 1] = With(g[i + n - 1], q[i + n + 1], S)
    <2>1. /\ i + n + 1 \in 1 .. l /\ i + n \in 1 .. l - 1 /\ i + n \in i .. l - 1
          /\ i + (n + 1) = i + n + 1 /\ (i + n + 1) - 1 = i + n
          /\ i + (n + 1) - 1 = i + n
      BY <1>1
    <2>2. f[i + n + 1] = With(f[i + n], q[i + n + 1], S) BY <1>3, <2>1
    <2>3. g[i + n] = With(g[i + n - 1], r[i + n], S) BY <1>3, <2>1
    <2>4. r[i + n] = q[i + n + 1] BY <1>2, <2>1
    <2> QED BY <2>1, <2>2, <2>3, <2>4
  <1>10. ASSUME q[i] \notin S PROVE f[l] = g[l - 1]
    <2> DEFINE M == {n \in 0 .. l - i : f[i + n] = g[i + n - 1]}
    <2>1. 0 \in M
      <3>1. f[i] = With(f[i - 1], q[i], S) BY <1>1, <1>3
      <3>2. f[i] = g[i - 1] BY <1>4, <1>10, <3>1 DEF With
      <3>3. i + 0 = i /\ i + 0 - 1 = i - 1 BY <1>1
      <3> QED BY <1>8, <3>2, <3>3
    <2>2. ASSUME NEW n \in 0 .. l - i - 1, n \in M PROVE n + 1 \in M
      <3>1. f[i + n] = g[i + n - 1] BY <2>2
      <3>2. f[i + (n + 1)] = g[i + (n + 1) - 1] BY <1>9, <3>1
      <3>3. n + 1 \in 0 .. l - i BY <1>1
      <3> QED BY <3>2, <3>3
    <2> HIDE DEF M
    <2>3. 0 .. l - i \subseteq M BY <1>8, <2>1, <2>2, Induction
    <2>4. l - i \in M BY <1>8, <2>3
    <2>5. i + (l - i) = l /\ i + (l - i) - 1 = l - 1 BY <1>1
    <2> QED BY <2>4, <2>5 DEF M
  <1>11. ASSUME q[i] \in S, \A j \in 1 .. i - 1 : q[j] \notin S
         PROVE  f[l] # <<>> /\ g[l - 1] = Tail(f[l])
    <2> DEFINE M == {n \in 0 .. l - i :
                      f[i + n] # <<>> /\ g[i + n - 1] = Tail(f[i + n])}
    <2>1. f[i - 1] = <<>>
      <3> DEFINE N == i - 1
      <3>1. N \in Nat /\ N <= Len(q) BY <1>1 DEF l
      <3>2. \A n \in 1 .. N : q[n] = q[n] /\ (q[n] \in S <=> q[n] \in {})
        BY <1>11
      <3> HIDE DEF N
      <3>3. \A n \in 0 .. N : Selections(q, S)[n] = Selections(q, {})[n]
        BY <3>1, <3>2, SameSelections
      <3>4. \A n \in 0 .. Len(q) : Selections(q, {})[n] \in Seq(Range(q) \cap {})
        BY SelectedFrom
      <3>5. Selections(q, {})[N] \in Seq({}) BY <3>1, <3>4
      <3>6. Selections(q, {})[N] = <<>> BY <3>5
      <3> QED BY <3>1, <3>3, <3>6 DEF f, N
    <2>2. 0 \in M
      <3>1. f[i] = With(f[i - 1], q[i], S) BY <1>1, <1>3
      <3>2. f[i] = Append(<<>>, q[i]) BY <1>11, <2>1, <3>1 DEF With
      <3>3. f[i] # <<>> /\ Tail(f[i]) = <<>> BY <3>2
      <3>4. i + 0 = i /\ i + 0 - 1 = i - 1 /\ 0 \in 0 .. l - i BY <1>1
      <3>5. f[i + 0] # <<>> /\ g[i + 0 - 1] = Tail(f[i + 0])
        <4> HIDE DEF M
        <4> QED BY <1>4, <2>1, <3>3, <3>4
      <3> QED BY <3>4, <3>5
    <2>3. ASSUME NEW n \in 0 .. l - i - 1, n \in M PROVE n + 1 \in M
      <3>1. f[i + n] # <<>> /\ g[i + n - 1] = Tail(f[i + n]) BY <2>3
      <3>2. i + n \in 0 .. l /\ n + 1 \in 0 .. l - i BY <1>1
      <3>3. f[i + n] \in Seq(Range(q) \cap S) BY <1>6, <3>2
      <3> DEFINE x == q[i + n + 1]
      <3>4. x \in S => x \in Range(q) \cap S BY <1>7, <1>9
      <3>5. /\ f[i + (n + 1)] = With(f[i + n], x, S)
            /\ g[i + (n + 1) - 1] = With(Tail(f[i + n]), x, S)
        BY <1>9, <3>1
      <3> HIDE DEF x
      <3>6. CASE x \in S
        <4>1. /\ Append(f[i + n], x) # <<>>
              /\ Tail(Append(f[i + n], x)) = Append(Tail(f[i + n]), x)
          BY <3>1, <3>3, <3>4, <3>6, TailOfAppend
        <4>2. /\ f[i + (n + 1)] = Append(f[i + n], x)
              /\ g[i + (n + 1) - 1] = Append(Tail(f[i + n]), x)
          BY <3>5, <3>6 DEF With
        <4> QED BY <3>2, <4>1, <4>2
      <3>7. CASE x \notin S
        <4>1. /\ f[i + (n + 1)] = f[i + n]
              /\ g[i + (n + 1) - 1] = Tail(f[i + n])
          BY <3>5, <3>7 DEF With
        <4> QED BY <3>1, <3>2, <4>1
      <3> QED BY <3>6, <3>7
    <2> HIDE DEF M
    <2>4. 0 .. l - i \subseteq M BY <1>8, <2>2, <2>3, Induction
    <2>5. l - i \in M BY <1>8, <2>4
    <2>6. i + (l - i) = l /\ i + (l - i) - 1 = l - 1 BY <1>1
    <2> QED BY <2>5, <2>6 DEF M
  <1> QED BY <1>5, <1>10, <1>11 DEF r

-----------------------------------------------------------------------------
(* The first of a line *)

\* No socket of process p is before block a in the table.
First(a, p) ==
  \A i, j \in DOMAIN sockets_queue :
    sockets_queue[i] = a /\ j < i => heap[sockets_queue[j]].pid # p

\* The socket that a call works on is the first of its process for as long as
\* it is in the table: later ones come after it.  A creation that failed
\* frees a socket that was never there.
Oldest ==
  \A w \in Workers :
    /\ thread[w].pc = "add" => thread[w].call = "socket"
    /\ Ptr(w) # NULL /\ thread[w].call # "socket" => First(Ptr(w), thread[w].pid)
    /\ thread[w].pc \in {"free", "unlink"} /\ thread[w].call = "socket" =>
         Ptr(w) \notin Range(sockets_queue)

\* A step that leaves the table and its sockets' processes alone.
TableStays ==
  /\ sockets_queue' = sockets_queue
  /\ \A b \in Range(sockets_queue) :
       heap[b] # NULL => heap'[b] # NULL /\ heap'[b].pid = heap[b].pid

LEMMA OneSocketStays ==
  ASSUME Sound, NEW a \in Addr, NEW s \in Socket, sockets_queue' = sockets_queue,
         heap' = [heap EXCEPT ![a] = s],
         heap[a] = NULL \/ s.pid = heap[a].pid
  PROVE  TableStays
  <1>1. TypeOK /\ s # NULL
    BY ThreadAssumption DEF Sound, ThreadAssumption
  <1>2. heap'[a] = s /\ \A b \in Addr \ {a} : heap'[b] = heap[b]
    BY <1>1 DEF TypeOK
  <1>3. Range(sockets_queue) \subseteq Addr BY <1>1, QueueRange DEF TypeOK
  <1> QED BY <1>1, <1>2, <1>3 DEF TableStays

LEMMA LinesStay ==
  ASSUME Sound, TableStays
  PROVE  Lines' = Lines
  <1> SUFFICES ASSUME NEW p \in Pids
               PROVE  Selected(sockets_queue', SocketsOf(p)') =
                        Selected(sockets_queue, SocketsOf(p))
    BY DEF Lines
  <1>1. sockets_queue \in Seq(Addr) /\ Range(sockets_queue) \subseteq Addr
    BY QueueRange DEF Sound, TypeOK
  <1>2. \A a \in Range(sockets_queue) :
          a \in SocketsOf(p)' <=> a \in SocketsOf(p)
    BY <1>1 DEF TableStays, SocketsOf, Sound, NodesMatch
  <1>3. Selected(sockets_queue, SocketsOf(p)') =
          Selected(sockets_queue, SocketsOf(p))
    BY <1>1, <1>2, SelectedSame
  <1> QED BY <1>3 DEF TableStays

LEMMA OldestStep ==
  ASSUME Sound, Oldest, TableStays, NEW t \in Threads, NEW r,
         thread' = [thread EXCEPT ![t] = r],
         t \in Workers =>
           /\ r.pc = "add" => r.call = "socket"
           /\ r.ptr # NULL /\ r.call # "socket" => First(r.ptr, r.pid)
           /\ r.pc \in {"free", "unlink"} /\ r.call = "socket" =>
                r.ptr \notin Range(sockets_queue)
  PROVE  Oldest' /\ Lines' = Lines
  <1>1. /\ sockets_queue \in Seq(Addr) /\ Workers \subseteq Threads
        /\ thread'[t] = r /\ \A u \in Threads \ {t} : thread'[u] = thread[u]
    BY DEF Sound, TypeOK, Threads
  <1>2. sockets_queue' = sockets_queue BY DEF TableStays
  <1>3. ASSUME NEW w \in Workers
        PROVE  /\ thread'[w].pc = "add" => thread'[w].call = "socket"
               /\ thread'[w].ptr # NULL /\ thread'[w].call # "socket" =>
                    First(thread'[w].ptr, thread'[w].pid)
               /\ thread'[w].pc \in {"free", "unlink"} /\ thread'[w].call = "socket" =>
                    thread'[w].ptr \notin Range(sockets_queue)
    <2>1. CASE w = t BY <1>1, <1>3, <2>1
    <2>2. CASE w # t BY <1>1, <1>3, <2>2 DEF Oldest, Ptr
    <2> QED BY <2>1, <2>2
  <1>4. \A w \in Workers :
          thread'[w].ptr # NULL /\ thread'[w].call # "socket" =>
            First(thread[w].ptr, thread[w].pid)'
    <2> SUFFICES ASSUME NEW w \in Workers,
                        thread'[w].ptr # NULL, thread'[w].call # "socket"
                 PROVE  First(thread[w].ptr, thread[w].pid)'
      OBVIOUS
    <2>1. First(thread'[w].ptr, thread'[w].pid) BY <1>3
    <2>2. \A j \in DOMAIN sockets_queue :
            heap'[sockets_queue[j]].pid = heap[sockets_queue[j]].pid
      BY DEF TableStays, Sound, NodesMatch, Range
    <2> QED BY <1>2, <2>1, <2>2 DEF First
  <1>5. Oldest' BY <1>2, <1>3, <1>4 DEF Oldest, Ptr
  <1> QED BY <1>5, LinesStay

LEMMA HeapStays ==
  ASSUME sockets_queue' = sockets_queue, heap' = heap
  PROVE  TableStays
  BY DEF TableStays

\* The socket that get_socket returns is the first of its process.
LEMMA GetFirst ==
  ASSUME Sound, NEW p, get_socket(p) # NULL
  PROVE  First(get_socket(p), p)
  <1> DEFINE m == Min(OwnedBy(p))
  <1>1. OwnedBy(p) # {} /\ OwnedBy(p) \subseteq Nat /\ get_socket(p) = sockets_queue[m]
    BY DEF get_socket, OwnedBy, Sound, TypeOK
  <1>2. m \in OwnedBy(p) /\ \A j \in OwnedBy(p) : m <= j
    BY <1>1, LeastIndex
  <1> HIDE DEF m
  <1>3. sockets_queue \in Seq(Addr) /\ NoDuplicates(sockets_queue)
    BY DEF Sound, TypeOK, NodesMatch
  <1>4. m \in DOMAIN sockets_queue BY <1>2 DEF OwnedBy
  <1> SUFFICES ASSUME NEW i \in DOMAIN sockets_queue, NEW j \in DOMAIN sockets_queue,
                      sockets_queue[i] = sockets_queue[m], j < i
               PROVE  heap[sockets_queue[j]].pid # p
    BY <1>1 DEF First
  <1>5. i = m BY <1>3, <1>4 DEF NoDuplicates
  <1>6. j \notin OwnedBy(p) BY <1>2, <1>3, <1>5
  <1> QED BY <1>6 DEF OwnedBy, Owned

-----------------------------------------------------------------------------
(* Steps that change no line *)

LEMMA EnterStutters ==
  ASSUME Sound, Oldest, NEW w \in Workers, NEW p, NEW call, NEW timeout,
         Enter(w, p, call, timeout), call # "socket",
         sockets_queue' = sockets_queue, heap' = heap
  PROVE  Oldest' /\ Lines' = Lines
  <1> DEFINE a == get_socket(p)
             r == IF a = NULL THEN Idle ELSE InCall("found", call, a, p, timeout)
  <1>1. thread' = [thread EXCEPT ![w] = r] /\ w \in Threads
    BY DEF Enter, Threads
  <1>2. a # NULL => First(a, p) BY GetFirst
  <1> HIDE DEF a
  <1>3. /\ r.pc \in {"idle", "found"}
        /\ r.ptr # NULL => First(r.ptr, r.pid)
    BY <1>2, IdleThread DEF InCall
  <1> HIDE DEF r
  <1> QED BY <1>1, <1>3, HeapStays, OldestStep

LEMMA CallStutters ==
  ASSUME Sound, Oldest, NEW w \in Workers, Call(w)
  PROVE  Oldest' /\ Lines' = Lines
  <1>1. PICK p \in Pids : \/ Enter(w, p, "connect", 0)
                          \/ \E ms \in Timeouts : Enter(w, p, "poll", ms)
    BY DEF Call
  <1> QED BY <1>1, EnterStutters DEF Call

LEMMA WakeStutters ==
  ASSUME Sound, Oldest, NEW w \in Workers, Wake(w)
  PROVE  Oldest' /\ Lines' = Lines
  <1>1. Enter(w, thread[w].pid, "poll", thread[w].timeout) BY DEF Wake
  <1> QED BY <1>1, EnterStutters DEF Wake

LEMMA CreateStutters ==
  ASSUME Sound, Oldest, NEW w \in Workers, Create(w)
  PROVE  Oldest' /\ Lines' = Lines
  <1>1. PICK a \in Addr, p \in Pids, sk \in {"none", "live"} :
          /\ heap[a] = NULL
          /\ heap' = [heap EXCEPT ![a] = NewSocket(p, sk)]
          /\ thread' = [thread EXCEPT ![w] =
               InCall(IF sk = "live" THEN "add" ELSE "free", "socket", a, p, 0)]
    BY DEF Create
  <1> DEFINE r == InCall(IF sk = "live" THEN "add" ELSE "free", "socket", a, p, 0)
  <1>2. NewSocket(p, sk) \in Socket BY DEF NewSocket, Socket
  <1>3. sockets_queue' = sockets_queue /\ w \in Threads BY DEF Create, Threads
  <1>4. TableStays BY <1>1, <1>2, <1>3, OneSocketStays
  <1>5. r.ptr = a /\ r.call = "socket" BY DEF InCall
  <1>6. a \notin Range(sockets_queue) BY <1>1 DEF Sound, NodesMatch
  <1>7. thread' = [thread EXCEPT ![w] = r] BY <1>1
  <1> HIDE DEF r
  <1> QED BY <1>3, <1>4, <1>5, <1>6, <1>7, OldestStep

\* A step of the receiver or the debugger.
LEMMA OthersStutter ==
  ASSUME Sound, Oldest, NEW t \in Threads \ Workers, NEW r, TableStays,
         thread' = [thread EXCEPT ![t] = r]
  PROVE  Oldest' /\ Lines' = Lines
  BY OldestStep

LEMMA LookupStutters ==
  ASSUME Sound, Oldest, Lookup
  PROVE  Oldest' /\ Lines' = Lines
  <1>1. PICK a \in Range(sockets_queue) :
          thread' = [thread EXCEPT ![Receiver] = InCall("found", "input", a, NULL, 0)]
    BY DEF Lookup
  <1>2. Receiver \in Threads \ Workers /\ TableStays
    BY ThreadAssumption, HeapStays DEF Lookup, ThreadAssumption, Threads
  <1> QED BY <1>1, <1>2, OthersStutter

LEMMA DiesStutters ==
  ASSUME Sound, Oldest, Dies
  PROVE  Oldest' /\ Lines' = Lines
  <1>1. TableStays /\ thread' = thread BY HeapStays DEF Dies
  <1>2. Oldest' BY DEF Dies, Oldest, First, Ptr
  <1> QED BY <1>1, <1>2, LinesStay

LEMMA AcquireStutters ==
  ASSUME Sound, Oldest, NEW t \in Threads, Acquire(t)
  PROVE  Oldest' /\ Lines' = Lines
  <1> DEFINE a == Ptr(t)
             r == [thread[t] EXCEPT !.pc = "inside"]
             s == Acquired(heap[a], t)
  <1>1. CASE Dies BY <1>1, DiesStutters
  <1>2. CASE /\ heap' = [heap EXCEPT ![a] = Acquired(@, t)]
             /\ Goto(t, "inside")
             /\ UNCHANGED <<sockets_queue, sock_amount, rw_mutex, proc>>
    <2>1. TypeOK /\ thread[t].pc = "found" BY DEF Acquire, At, Sound
    <2>2. a \in Addr BY <2>1 DEF Sound, PointersAreSet, TypeOK, ThreadType, Ptr
    <2>3. heap[a] # NULL /\ heap[a] \in Socket
      BY <2>1, <2>2, Typing DEF Sound, PointersAreSockets
    <2>4. s \in Socket /\ s.pid = heap[a].pid BY <2>3, AcquiredSocket
    <2>5. heap' = [heap EXCEPT ![a] = s] /\ thread' = [thread EXCEPT ![t] = r]
      BY <1>2, <2>1, <2>2 DEF Goto, TypeOK
    <2>6. /\ r.pc = "inside" /\ r.ptr = Ptr(t) /\ r.pid = thread[t].pid
          /\ r.call = thread[t].call
      BY <2>1 DEF TypeOK, ThreadType, Ptr
    <2> HIDE DEF r, s, a
    <2>7. TableStays BY <1>2, <2>2, <2>4, <2>5, OneSocketStays
    <2>8. t \in Workers =>
            (r.ptr # NULL /\ r.call # "socket" => First(r.ptr, r.pid))
      BY <2>6 DEF Oldest
    <2> QED BY <2>5, <2>6, <2>7, <2>8, OldestStep
  <1> QED BY <1>1, <1>2 DEF Acquire

LEMMA LeaveStutters ==
  ASSUME Sound, Oldest, NEW t \in Threads, Leave(t)
  PROVE  Oldest' /\ Lines' = Lines
  <1> DEFINE a == Ptr(t)
             s == Released(heap[a])
  <1>1. /\ TypeOK /\ Inside(t) /\ sockets_queue' = sockets_queue
        /\ heap' = [heap EXCEPT ![a] = s]
    BY DEF Leave, At, Sound, Inside
  <1>2. PICK r \in Outcomes(thread[t]) : thread' = [thread EXCEPT ![t] = r]
    BY DEF Leave
  <1>3. a \in Addr /\ s \in Socket /\ s.pid = heap[a].pid
    BY <1>1, InsideSocket, ReleasedSocket
  <1> HIDE DEF a, s
  <1>4. TableStays BY <1>1, <1>3, OneSocketStays
  <1>5. \/ r = Idle
        \/ r = Failed(thread[t]) /\ thread[t].call = "connect"
        \/ r = Sleeps(thread[t])
    BY <1>2 DEF Outcomes, Done
  <1>6. ASSUME t \in Workers
        PROVE  /\ r.pc # "add"
               /\ r.ptr # NULL /\ r.call # "socket" => First(r.ptr, r.pid)
               /\ r.pc \notin {"free", "unlink"} \/ r.call # "socket"
    <2>1. CASE r = Idle BY <2>1, IdleThread
    <2>2. CASE r = Failed(thread[t]) /\ thread[t].call = "connect"
      <3>1. /\ r.pc = "free" /\ r.ptr = Ptr(t) /\ r.pid = thread[t].pid
            /\ r.call = "connect"
        BY <1>1, <2>2 DEF Failed, TypeOK, ThreadType, Ptr
      <3> QED BY <1>6, <2>2, <3>1 DEF Oldest
    <2>3. CASE r = Sleeps(thread[t])
      <3>1. r.pc = "asleep" /\ r.ptr = NULL BY <2>3 DEF Sleeps, InCall
      <3> QED BY <3>1
    <2> QED BY <1>5, <2>1, <2>2, <2>3
  <1> QED BY <1>2, <1>4, <1>6, OldestStep

LEMMA BeginFreeStutters ==
  ASSUME Sound, Oldest, NEW w \in Workers, BeginFree(w)
  PROVE  Oldest' /\ Lines' = Lines
  <1> DEFINE r == [thread[w] EXCEPT !.pc = "unlink"]
  <1>1. /\ TypeOK /\ w \in Threads /\ thread[w].pc = "free"
        /\ thread' = [thread EXCEPT ![w] = r] /\ TableStays
    BY HeapStays DEF BeginFree, At, Goto, Sound, TypeOK, Threads
  <1>2. /\ r.pc = "unlink" /\ r.ptr = Ptr(w) /\ r.pid = thread[w].pid
        /\ r.call = thread[w].call
    BY <1>1 DEF TypeOK, ThreadType, Ptr
  <1> HIDE DEF r
  <1>3. /\ r.ptr # NULL /\ r.call # "socket" => First(r.ptr, r.pid)
        /\ r.call = "socket" => r.ptr \notin Range(sockets_queue)
    BY <1>1, <1>2 DEF Oldest
  <1> QED BY <1>1, <1>2, <1>3, OldestStep

LEMMA FreeSkStutters ==
  ASSUME Sound, Oldest, NEW w \in Workers, FreeSk(w)
  PROVE  Oldest' /\ Lines' = Lines
  <1> DEFINE a == Ptr(w)
             f == Freed(heap[a])
             s == Released(f)
  <1>1. /\ TypeOK /\ w \in Threads /\ Inside(w) /\ sockets_queue' = sockets_queue
        /\ heap' = [heap EXCEPT ![a] = s]
        /\ thread' = [thread EXCEPT ![w] = Idle]
    BY DEF FreeSk, At, Sound, Inside, Threads
  <1>2. a \in Addr /\ heap[a] \in Socket /\ heap[a].refCnt = 2
    BY <1>1, InsideSocket
  <1>3. f \in Socket /\ f.refCnt = 2 /\ f.pid = heap[a].pid
    BY <1>2 DEF Freed, Socket
  <1> HIDE DEF f
  <1>4. s \in Socket /\ s.pid = heap[a].pid BY <1>3, ReleasedSocket
  <1> HIDE DEF a, s
  <1>5. TableStays BY <1>1, <1>2, <1>4, OneSocketStays
  <1> QED BY <1>1, <1>5, IdleThread, OldestStep

LEMMA WalkStutters ==
  ASSUME Sound, Oldest, BeginWalk \/ LockNode \/ ReleaseNode \/ EndWalk
  PROVE  Oldest' /\ Lines' = Lines
  <1> DEFINE t == Debugger
             a == Ptr(t)
  <1>1. TypeOK /\ t \in Threads \ Workers
    BY ThreadAssumption DEF Sound, ThreadAssumption, Threads
  <1>2. \E r : thread' = [thread EXCEPT ![t] = r]
    BY DEF BeginWalk, LockNode, ReleaseNode, EndWalk, Goto
  <1>3. CASE BeginWalk \/ EndWalk
    <2>1. TableStays BY <1>3, HeapStays DEF BeginWalk, EndWalk
    <2> QED BY <1>1, <1>2, <2>1, OthersStutter
  <1>4. CASE LockNode
    <2> DEFINE s == Acquired(heap[a], t)
    <2>1. /\ sockets_queue' = sockets_queue /\ heap' = [heap EXCEPT ![a] = s]
          /\ a # NULL
      BY <1>4 DEF LockNode
    <2>2. a \in Addr BY <1>1, <2>1 DEF TypeOK, ThreadType, Ptr
    <2>3. heap[a] # NULL /\ heap[a] \in Socket
      BY <1>1, <2>1, <2>2, Typing DEF Sound, PointersAreSockets
    <2>4. s \in Socket /\ s.pid = heap[a].pid BY <1>1, <2>3, AcquiredSocket
    <2> HIDE DEF s, a
    <2>5. TableStays BY <2>1, <2>2, <2>4, OneSocketStays
    <2> QED BY <1>1, <1>2, <2>5, OthersStutter
  <1>5. CASE ReleaseNode
    <2> DEFINE s == Released(heap[a])
    <2>1. /\ sockets_queue' = sockets_queue /\ heap' = [heap EXCEPT ![a] = s]
          /\ Inside(t)
      BY <1>5 DEF ReleaseNode, At, Inside
    <2>2. a \in Addr /\ s \in Socket /\ s.pid = heap[a].pid
      BY <1>1, <2>1, InsideSocket, ReleasedSocket
    <2> HIDE DEF s, a
    <2>3. TableStays BY <2>1, <2>2, OneSocketStays
    <2> QED BY <1>1, <1>2, <2>3, OthersStutter
  <1> QED BY <1>3, <1>4, <1>5

-----------------------------------------------------------------------------
(* Sockets join a line, and leave it *)

\* A socket that is not in the table is in no line.
LEMMA NotInLine ==
  ASSUME Sound, NEW a, a \notin Range(sockets_queue)
  PROVE  ~Service!InLine(a)
  <1> SUFFICES ASSUME NEW p \in Pids, NEW i \in DOMAIN Lines[p], Lines[p][i] = a
               PROVE  FALSE
    BY DEF Service!InLine
  <1> DEFINE s == Selected(sockets_queue, SocketsOf(p))
  <1>1. sockets_queue \in Seq(Addr) BY DEF Sound, TypeOK
  <1>2. s \in Seq(Range(sockets_queue) \cap SocketsOf(p))
    BY <1>1, SelectedFrom
  <1>3. Lines[p] = s BY DEF Lines
  <1> HIDE DEF s
  <1>4. s[i] \in Range(sockets_queue) BY <1>2, <1>3
  <1> QED BY <1>3, <1>4

LEMMA AddJoins ==
  ASSUME Sound, Oldest, NEW w \in Workers, Add(w)
  PROVE  Oldest' /\ Service!SNext
  <1> DEFINE a == Ptr(w)
             o == heap[a].pid
             s == Acquired(heap[a], w)
             ns == [s EXCEPT !.node = "queued"]
             q == sockets_queue
  <1>1. /\ TypeOK /\ w \in Threads /\ thread[w].pc = "add"
        /\ heap' = [heap EXCEPT ![a] = ns]
        /\ thread' = [thread EXCEPT ![w].pc = "inside"]
        /\ q' = Append(q, a)
    BY DEF Add, At, Goto, Sound, Threads
  <1>2. a \in Addr BY <1>1 DEF Sound, PointersAreSet, TypeOK, ThreadType, Ptr
  <1>3. heap[a] # NULL /\ heap[a] \in Socket /\ heap[a].node = "self" /\ o \in Pids
    BY <1>1, <1>2, Typing DEF Sound, PointersAreSockets, CreatorsAlone
  <1>4. ns \in Socket /\ ns.pid = o
    <2>1. s \in Socket /\ s.pid = o BY <1>1, <1>3, AcquiredSocket
    <2> HIDE DEF s
    <2> QED BY <2>1 DEF Socket
  <1> HIDE DEF ns, s
  <1>5. /\ heap'[a] = ns /\ ns # NULL
        /\ \A b \in Addr \ {a} : heap'[b] = heap[b]
    BY <1>1, <1>2, <1>4, ThreadAssumption DEF TypeOK, ThreadAssumption
  <1>6. a \notin Range(q) BY <1>3 DEF Sound, NodesMatch
  <1>7. /\ q \in Seq(Addr) /\ Range(q) \subseteq Addr
        /\ q' \in Seq(Addr) /\ Len(q') = Len(q) + 1
        /\ q'[Len(q) + 1] = a /\ \A j \in 1 .. Len(q) : q'[j] = q[j]
    BY <1>1, <1>2, QueueRange DEF TypeOK
  <1> HIDE DEF q
  <1>8. \A p \in Pids : SocketsOf(p)' = SocketsOf(p)
    BY <1>2, <1>3, <1>4, <1>5 DEF SocketsOf
  <1>9. ASSUME NEW p \in Pids
        PROVE  Lines'[p] = IF p = o THEN Append(Lines[p], a) ELSE Lines[p]
    <2>1. Lines'[p] = Selected(Append(q, a), SocketsOf(p))
      BY <1>1, <1>8 DEF Lines, q
    <2>2. Lines[p] = Selected(q, SocketsOf(p)) BY DEF Lines, q
    <2>3. a \in SocketsOf(p) <=> p = o BY <1>2, <1>3 DEF SocketsOf
    <2> QED BY <1>2, <1>7, <2>1, <2>2, <2>3, SelectedAppend
  <1>10. ~Service!InLine(a) BY <1>6, NotInLine DEF q
  <1>11. Lines' = [Lines EXCEPT ![o] = Append(@, a)]
    <2>1. /\ Lines = [p \in Pids |-> Lines[p]]
          /\ Lines' = [p \in Pids |-> Lines'[p]]
      BY DEF Lines
    <2> QED BY <1>3, <1>9, <2>1
  <1>12. Service!Join(o, a) BY <1>10, <1>11 DEF Service!Join
  <1>13. ASSUME NEW u \in Workers
         PROVE  /\ thread'[u].ptr = thread[u].ptr /\ thread'[u].pid = thread[u].pid
                /\ thread'[u].call = thread[u].call
                /\ thread'[u].pc # "inside" => u # w /\ thread'[u].pc = thread[u].pc
    BY <1>1 DEF TypeOK, ThreadType, Threads
  <1>14. \A u \in Workers : u = w \/ Ptr(u) # a
    BY <1>1 DEF Sound, CreatorsAlone, Threads
  <1>15. thread[w].call = "socket" BY <1>1 DEF Oldest
  <1>16. ASSUME NEW u \in Workers, Ptr(u) # NULL, thread[u].call # "socket"
         PROVE  First(Ptr(u), thread[u].pid)'
    <2>1. First(Ptr(u), thread[u].pid) /\ Ptr(u) # a
      BY <1>14, <1>15, <1>16 DEF Oldest
    <2>2. Ptr(u)' = Ptr(u) /\ thread'[u].pid = thread[u].pid BY <1>13 DEF Ptr
    <2> SUFFICES ASSUME NEW i \in 1 .. Len(q) + 1, NEW j \in 1 .. Len(q) + 1,
                        q'[i] = Ptr(u), j < i
                 PROVE  heap'[q'[j]].pid # thread[u].pid
      BY <1>7, <2>2 DEF First, q
    <2>3. i \in 1 .. Len(q) /\ j \in 1 .. Len(q) BY <1>7, <2>1
    <2>4. q[i] = Ptr(u) /\ q'[j] = q[j] BY <1>7, <2>3
    <2>5. q[j] \in Addr \ {a} BY <1>6, <1>7, <2>3 DEF Range
    <2>6. heap[q[j]].pid # thread[u].pid BY <1>7, <2>1, <2>3, <2>4 DEF First, q
    <2> QED BY <1>5, <2>4, <2>5, <2>6
  <1>17. Range(q') = Range(q) \cup {a} BY <1>7 DEF Range
  <1>18. Oldest'
    BY <1>13, <1>14, <1>15, <1>16, <1>17 DEF Oldest, Ptr, q
  <1> QED BY <1>2, <1>3, <1>12, <1>18 DEF Service!SNext

\* Taking a block out of the table leaves the others in their order.
LEMMA StillFirst ==
  ASSUME Sound, NEW i \in 1 .. Len(sockets_queue), NEW b, NEW p, First(b, p),
         sockets_queue' = RemoveAt(sockets_queue, i),
         \A c \in Addr : heap[c] # NULL => heap'[c].pid = heap[c].pid
  PROVE  First(b, p)'
  <1> DEFINE q == sockets_queue
  <1>1. /\ q \in Seq(Addr) /\ Len(q) \in Nat
        /\ q' = [j \in 1 .. Len(q) - 1 |-> IF j < i THEN q[j] ELSE q[j + 1]]
    BY RemoveAtIs DEF Sound, TypeOK
  <1>2. \A j \in 1 .. Len(q) : q[j] \in Addr /\ heap[q[j]] # NULL
    BY <1>1 DEF Sound, NodesMatch, Range
  <1> SUFFICES ASSUME NEW k \in 1 .. Len(q) - 1, NEW j \in 1 .. Len(q) - 1,
                      q'[k] = b, j < k
               PROVE  heap'[q'[j]].pid # p
    BY <1>1 DEF First
  <1> DEFINE k0 == IF k < i THEN k ELSE k + 1
             j0 == IF j < i THEN j ELSE j + 1
  <1>3. /\ k0 \in 1 .. Len(q) /\ j0 \in 1 .. Len(q) /\ j0 < k0
        /\ q'[k] = q[k0] /\ q'[j] = q[j0]
    BY <1>1
  <1> HIDE DEF k0, j0
  <1>4. heap[q[j0]].pid # p BY <1>1, <1>3 DEF First
  <1> QED BY <1>2, <1>3, <1>4

LEMMA UnlinkLeaves ==
  ASSUME Sound, Oldest, NEW w \in Workers, Unlink(w)
  PROVE  Oldest' /\ [Service!SNext]_Lines
  <1> DEFINE a == Ptr(w)
             o == heap[a].pid
             s == Acquired(heap[a], w)
             ns == [s EXCEPT !.node = "null"]
             r == [thread[w] EXCEPT !.pc = "freeSk"]
             q == sockets_queue
  <1>1. /\ TypeOK /\ w \in Threads /\ thread[w].pc = "unlink"
    BY DEF Unlink, At, Sound, Threads
  <1>2. a \in Addr BY <1>1 DEF Sound, PointersAreSet, TypeOK, ThreadType, Ptr
  <1>3. /\ heap[a] # NULL /\ heap[a] \in Socket /\ o = thread[w].pid /\ o \in Pids
    BY <1>1, <1>2, Typing DEF Sound, PointersAreSockets
  <1>4. CASE Dies BY <1>4, DiesStutters
  <1>5. CASE /\ heap' = [heap EXCEPT ![a] = ns]
             /\ sockets_queue' = Unlinked(sockets_queue, a)
             /\ Goto(w, "freeSk")
    <2>1. ns \in Socket /\ ns.pid = o
      <3>1. s \in Socket /\ s.pid = o BY <1>1, <1>3, AcquiredSocket
      <3> HIDE DEF s
      <3> QED BY <3>1 DEF Socket
    <2> HIDE DEF ns, s
    <2>2. /\ heap'[a] = ns /\ ns # NULL
          /\ \A b \in Addr \ {a} : heap'[b] = heap[b]
      BY <1>1, <1>2, <1>5, <2>1, ThreadAssumption DEF TypeOK, ThreadAssumption
    <2>3. thread' = [thread EXCEPT ![w] = r] BY <1>5 DEF Goto
    <2>4. /\ r.pc = "freeSk" /\ r.ptr = a /\ r.pid = thread[w].pid
          /\ r.call = thread[w].call
      BY <1>1 DEF TypeOK, ThreadType, Ptr
    <2> HIDE DEF r
    <2>5. CASE a \notin Range(q)
      <3>1. sockets_queue' = sockets_queue BY <1>5, <2>5 DEF Unlinked
      <3>2. TableStays BY <1>2, <1>5, <2>1, <3>1, OneSocketStays
      <3>3. r.ptr # NULL /\ r.call # "socket" => First(r.ptr, r.pid)
        BY <2>4 DEF Oldest
      <3>4. Oldest' /\ Lines' = Lines
        BY <1>1, <2>3, <2>4, <3>2, <3>3, OldestStep
      <3> QED BY <3>4
    <2>6. CASE a \in Range(q)
      <3> DEFINE i == CHOOSE j \in DOMAIN q : q[j] = a
      <3>1. q \in Seq(Addr) /\ NoDuplicates(q) /\ Range(q) \subseteq Addr
        BY <1>1, QueueRange DEF Sound, NodesMatch, TypeOK
      <3>2. i \in 1 .. Len(q) /\ q[i] = a BY <2>6, <3>1 DEF Range
      <3>3. q' = RemoveAt(q, i) BY <1>5, <2>6 DEF Unlinked
      <3> HIDE DEF i
      <3>4. thread[w].call # "socket" BY <1>1, <2>6 DEF Oldest
      <3>5. First(a, o) BY <1>2, <1>3, <3>4, ThreadAssumption
                           DEF Oldest, ThreadAssumption
      <3>6. \A j \in 1 .. i - 1 : heap[q[j]].pid # o
        BY <3>1, <3>2, <3>5 DEF First
      <3>7. \A p \in Pids : SocketsOf(p)' = SocketsOf(p)
        BY <1>2, <1>3, <2>1, <2>2 DEF SocketsOf
      <3>8. ASSUME NEW p \in Pids
            PROVE  Lines'[p] = IF p = o THEN Tail(Lines[p]) ELSE Lines[p]
        <4>1. Lines'[p] = Selected(RemoveAt(q, i), SocketsOf(p))
          BY <3>3, <3>7 DEF Lines
        <4>2. Lines[p] = Selected(q, SocketsOf(p)) BY DEF Lines
        <4>3. q[i] \in SocketsOf(p) <=> p = o BY <1>2, <1>3, <3>2 DEF SocketsOf
        <4>4. \A j \in 1 .. i - 1 : q[j] \notin SocketsOf(o)
          BY <3>6 DEF SocketsOf
        <4> HIDE DEF q
        <4> QED BY <3>1, <3>2, <4>1, <4>2, <4>3, <4>4, SelectedRemoved
      <3>9. Lines[o] # <<>>
        <4>1. q[i] \in SocketsOf(o) BY <1>2, <1>3, <3>2 DEF SocketsOf
        <4>2. \A j \in 1 .. i - 1 : q[j] \notin SocketsOf(o)
          BY <3>6 DEF SocketsOf
        <4>3. Selected(q, SocketsOf(o)) # <<>>
          <5> HIDE DEF q
          <5> QED BY <3>1, <3>2, <4>1, <4>2, SelectedRemoved
        <4> QED BY <1>3, <4>3 DEF Lines
      <3>10. Lines' = [Lines EXCEPT ![o] = Tail(@)]
        <4>1. /\ Lines = [p \in Pids |-> Lines[p]]
              /\ Lines' = [p \in Pids |-> Lines'[p]]
          BY DEF Lines
        <4> QED BY <1>3, <3>8, <4>1
      <3>11. Service!SNext
        BY <1>3, <3>9, <3>10 DEF Service!SNext, Service!Leave
      <3>12. ASSUME NEW u \in Workers, Ptr(u) # NULL, thread[u].call # "socket"
             PROVE  First(Ptr(u), thread[u].pid)'
        <4>1. First(Ptr(u), thread[u].pid) BY <3>12 DEF Oldest
        <4>2. \A c \in Addr : heap[c] # NULL => heap'[c].pid = heap[c].pid
          BY <2>1, <2>2
        <4>3. Ptr(u)' = Ptr(u) /\ thread'[u].pid = thread[u].pid
          BY <1>1, <2>3, <2>4 DEF TypeOK, Ptr, Threads
        <4>4. \A b, p : First(b, p) => First(b, p)'
          BY <3>2, <3>3, <4>2, StillFirst
        <4> QED BY <4>1, <4>3, <4>4 DEF First
      <3>13. Range(q') \subseteq Range(q)
        BY <3>1, <3>2, <3>3, RemovedNode
      <3>14. ASSUME NEW u \in Workers
             PROVE  /\ thread'[u].ptr = thread[u].ptr
                    /\ thread'[u].call = thread[u].call
                    /\ thread'[u].pc # "freeSk" => thread'[u].pc = thread[u].pc
        BY <1>1, <2>3, <2>4 DEF TypeOK, Ptr, Threads
      <3>15. Oldest' BY <3>12, <3>13, <3>14 DEF Oldest, Ptr
      <3> QED BY <3>11, <3>15
    <2> QED BY <2>5, <2>6
  <1> QED BY <1>4, <1>5 DEF Unlink

-----------------------------------------------------------------------------
(* The table implements SocketService *)

LEMMA InitImplements == Init => Oldest /\ Service!SInit
  <1> SUFFICES ASSUME Init PROVE Oldest /\ Service!SInit
    OBVIOUS
  <1>1. Oldest
    BY IdleThread DEF Init, Oldest, Ptr, Threads
  <1>2. ASSUME NEW S PROVE Selected(<<>>, S) = <<>>
    <2>1. <<>> \in Seq(Addr) OBVIOUS
    <2>2. Selections(<<>>, S)[0] = <<>> BY <2>1, SelectionsAre
    <2> QED BY <2>2 DEF Selected
  <1>3. Lines = [p \in Pids |-> <<>>]
    BY <1>2 DEF Init, Lines
  <1> QED BY <1>1, <1>3 DEF Service!SInit

LEMMA NextImplements ==
  Sound /\ Oldest /\ [Next]_vars => Oldest' /\ [Service!SNext]_Lines
  <1> SUFFICES ASSUME Sound, Oldest, [Next]_vars
               PROVE  Oldest' /\ [Service!SNext]_Lines
    OBVIOUS
  <1>1. ASSUME NEW w \in Workers, Create(w) \/ Call(w)
        PROVE  Oldest' /\ Lines' = Lines
    BY <1>1, CreateStutters, CallStutters
  <1>2. CASE Lookup BY <1>2, LookupStutters
  <1>3. CASE BeginWalk BY <1>3, WalkStutters
  <1>4. ASSUME NEW t \in Threads, Proceed(t)
        PROVE  Oldest' /\ [Service!SNext]_Lines
    <2>1. CASE Acquire(t) BY <2>1, AcquireStutters
    <2>2. CASE Leave(t) BY <2>2, LeaveStutters
    <2>3. CASE Crash(t) BY <2>3, DiesStutters DEF Crash
    <2>4. ASSUME t \in Workers, Wake(t) \/ BeginFree(t) \/ FreeSk(t)
          PROVE  Oldest' /\ Lines' = Lines
      BY <2>4, WakeStutters, BeginFreeStutters, FreeSkStutters
    <2>5. CASE t \in Workers /\ Add(t) BY <2>5, AddJoins
    <2>6. CASE t \in Workers /\ Unlink(t) BY <2>6, UnlinkLeaves
    <2>7. CASE t = Debugger /\ (LockNode \/ ReleaseNode \/ EndWalk)
      BY <2>7, WalkStutters
    <2> QED BY <1>4, <2>1, <2>2, <2>3, <2>4, <2>5, <2>6, <2>7 DEF Proceed
  <1>5. CASE UNCHANGED vars
    <2>1. Oldest' BY <1>5 DEF vars, Oldest, First, Ptr
    <2>2. TableStays BY <1>5, HeapStays DEF vars
    <2> QED BY <2>1, <2>2, LinesStay
  <1> QED BY <1>1, <1>2, <1>3, <1>4, <1>5 DEF Next

\* Whatever threads meet in the table, the sockets of a process stay in the
\* order they joined it, its calls work on the first of them, and only the
\* first is taken out by socket_free.
THEOREM TableImplementsService == Spec => ImplementsService
  BY InitImplements, NextImplements, SoundAlways, PTL
     DEF Spec, ImplementsService, Service!SSpec

=============================================================================
