----------------------------- MODULE Timers_proof -----------------------------
(***************************************************************************)
(* The timer queue is safe for any number of clients and any amount of     *)
(* memory, and implements TimerService.                                    *)
(*                                                                         *)
(* The argument: a client that may use its pointer keeps the one reference *)
(* of a queued timer, and the sweep deletes timers without a reference.  A *)
(* block that is used again cannot be in the queue before the sweep that   *)
(* deleted it is over, because its client waits for norm_mutex.            *)
(***************************************************************************)
EXTENDS Timers, QueueLemmas

-----------------------------------------------------------------------------
(* Queues without duplicates *)

LEMMA IndexOfNode ==
  ASSUME NEW q \in Seq(Addr), NEW a \in Range(q)
  PROVE  /\ Index(q, a) \in 1 .. Len(q)
         /\ q[Index(q, a)] = a
  BY DEF Index, Range

LEMMA SuccNode ==
  ASSUME NEW q \in Seq(Addr), NoDuplicates(q), NEW a \in Range(q)
  PROVE  /\ Succ(q, a) \in Range(q) \cup {HEAD}
         /\ Succ(q, a) # a
  <1> DEFINE i == Index(q, a)
  <1>1. i \in 1 .. Len(q) /\ q[i] = a BY IndexOfNode
  <1>2. Succ(q, a) = IF i < Len(q) THEN q[i + 1] ELSE HEAD BY DEF Succ
  <1>3. a # HEAD BY AddrAssumption, <1>1 DEF AddrAssumption
  <1> HIDE DEF i
  <1>4. CASE i < Len(q)
    <2>1. i + 1 \in DOMAIN q /\ i \in DOMAIN q /\ i + 1 # i BY <1>1, <1>4
    <2>2. q[i + 1] # q[i] BY <2>1 DEF NoDuplicates
    <2> QED BY <1>1, <1>2, <1>4, <2>1, <2>2 DEF Range
  <1>5. CASE ~(i < Len(q)) BY <1>2, <1>3, <1>5
  <1> QED BY <1>4, <1>5

LEMMA UnlinkedNodes ==
  ASSUME NEW q \in Seq(Addr), NoDuplicates(q), NEW a \in Range(q)
  PROVE  /\ Unlinked(q, a) \in Seq(Addr)
         /\ NoDuplicates(Unlinked(q, a))
         /\ Range(Unlinked(q, a)) = Range(q) \ {a}
  <1> DEFINE i == Index(q, a)
  <1>1. i \in 1 .. Len(q) /\ q[i] = a BY IndexOfNode
  <1>2. Unlinked(q, a) = RemoveAt(q, i) BY DEF Unlinked
  <1> HIDE DEF i
  <1> QED BY <1>1, <1>2, RemovedNode

LEMMA AppendedNodes ==
  ASSUME NEW q \in Seq(Addr), NoDuplicates(q), NEW a \in Addr, a \notin Range(q)
  PROVE  /\ Append(q, a) \in Seq(Addr)
         /\ NoDuplicates(Append(q, a))
         /\ Range(Append(q, a)) = Range(q) \cup {a}
  BY AppendedNode

-----------------------------------------------------------------------------
(* The inductive invariant *)

\* A client keeps the reference of a queued timer, or has just built one.
HeldTimers ==
  \A c \in Clients :
    LET a == client[c].ptr
    IN  /\ client[c].pc # "idle" => a # NULL
        /\ client[c].pc = "new" =>
             a \notin Range(timers_queue) /\ ~heap[a].cancelled
        /\ client[c].pc # "new" /\ a # NULL =>
             /\ a \in Range(timers_queue)
             /\ heap[a].refcnt = 1 /\ ~heap[a].cancelled

\* A cancelled timer has no reference.
CancelledTimers ==
  \A a \in Range(timers_queue) : heap[a].cancelled => heap[a].refcnt = 0

\* The sweep has the lock of a queued timer from Visit to LeaveTimer.
SweepLocks ==
  /\ sweep.pc = "inside" => sweep.pos \in Range(timers_queue)
  /\ sweep.pc \in {"inside", "leaving"} /\ sweep.pos \in Range(timers_queue)
       => locked[sweep.pos]

\* The saved successor is another node.
SweepAdvances ==
  sweep.pc \in {"visit", "inside"} /\ sweep.pos # HEAD => sweep.nxt # sweep.pos

Consistent ==
  /\ TypeOK /\ TimerLockExclusive /\ PointersAreLive /\ SweepStaysOnQueue
  /\ HeldTimers /\ CancelledTimers /\ SweepLocks /\ SweepAdvances

LEMMA QueueRange ==
  ASSUME NEW q \in Seq(Addr)
  PROVE  /\ Range(q) \subseteq Addr
         /\ HEAD \notin Range(q) /\ NULL \notin Range(q)
  BY AddrAssumption DEF AddrAssumption, Range

LEMMA QueueOfTimers ==
  ASSUME TypeOK
  PROVE  SweepStaysOnQueue <=>
           /\ \A a \in Range(timers_queue) : heap[a] # NULL
           /\ NoDuplicates(timers_queue)
           /\ sweep.pc \in {"visit", "inside"} =>
                sweep.pos \in Range(timers_queue) \cup {HEAD}
           /\ NormHeld => sweep.nxt \in Range(timers_queue) \cup {HEAD}
  BY DEF SweepStaysOnQueue, NoDuplicates, Range

LEMMA ConsistentInit == Init => Consistent
  <1> SUFFICES ASSUME Init PROVE Consistent
    OBVIOUS
  <1>1. Range(timers_queue) = {} BY DEF Init, Range
  <1>2. TypeOK
    BY AddrAssumption
       DEF AddrAssumption, Init, TypeOK, SweepType, ClientType, Timer
  <1>3. SweepStaysOnQueue BY DEF Init, SweepStaysOnQueue, NormHeld
  <1> QED
    BY <1>1, <1>2, <1>3
       DEF Init, Consistent, TimerLockExclusive, InTimer, PointersAreLive,
           HeldTimers, CancelledTimers, SweepLocks, SweepAdvances

-----------------------------------------------------------------------------
(* The steps of a client *)

LEMMA ConstructConsistent ==
  ASSUME Consistent, NEW c \in Clients, NEW refcnt \in {0, 1},
         Construct(c, refcnt)
  PROVE  Consistent'
  <1> DEFINE t == [refcnt |-> refcnt, cancelled |-> FALSE, due |-> FALSE]
  <1>1. PICK a \in Addr :
          /\ heap[a] = NULL
          /\ heap' = [heap EXCEPT ![a] = t]
          /\ locked' = [locked EXCEPT ![a] = FALSE]
          /\ client' = [client EXCEPT ![c] = [pc |-> "new", ptr |-> a]]
    BY DEF Construct
  <1>2. /\ started' = NULL /\ UNCHANGED <<timers_queue, sweep>>
    BY DEF Construct
  <1>3. t \in Timer /\ t # NULL /\ ~t.cancelled
    <2>1. t \in Timer BY DEF Timer
    <2>2. ~t.cancelled OBVIOUS
    <2> HIDE DEF t
    <2> QED BY <2>1, <2>2, AddrAssumption DEF AddrAssumption
  <1> DEFINE ct == [pc |-> "new", ptr |-> a]
  <1>4. ct \in ClientType /\ ct.pc = "new" /\ ct.ptr = a BY DEF ClientType
  <1> HIDE DEF t, ct
  <1>5. TypeOK /\ TypeOK'
    BY <1>1, <1>2, <1>3, <1>4 DEF Consistent, TypeOK, ct
  <1>6. /\ heap'[a] = t /\ \A b \in Addr \ {a} : heap'[b] = heap[b]
        /\ \A b \in Addr \ {a} : locked'[b] = locked[b]
        /\ client'[c].pc = "new" /\ client'[c].ptr = a
        /\ \A d \in Clients \ {c} : client'[d] = client[d]
    BY <1>1, <1>4, <1>5 DEF TypeOK, ct
  <1>7. a \notin Range(timers_queue)
        /\ \A d \in Clients : client[d].ptr # a
    BY <1>1, <1>5, QueueOfTimers, AddrAssumption
       DEF Consistent, PointersAreLive, AddrAssumption
  <1>8. \A d \in Clients : client[d].ptr \in Addr \cup {NULL}
    BY <1>5 DEF TypeOK, ClientType
  <1>9. Range(timers_queue) \subseteq Addr BY <1>5, QueueRange DEF TypeOK
  <1>10. TimerLockExclusive'
    BY <1>2, <1>6, <1>7, <1>8 DEF Consistent, TimerLockExclusive, InTimer, HeldTimers
  <1>11. PointersAreLive'
    BY <1>3, <1>6, <1>7, <1>8 DEF Consistent, PointersAreLive
  <1>12. SweepStaysOnQueue'
    BY <1>2, <1>3, <1>5, <1>6, <1>7, <1>9, QueueOfTimers
       DEF Consistent, SweepStaysOnQueue, NormHeld, Range
  <1>13. HeldTimers'
    BY <1>2, <1>3, <1>6, <1>7, <1>8, AddrAssumption
       DEF Consistent, HeldTimers, AddrAssumption
  <1>14. CancelledTimers' /\ SweepLocks' /\ SweepAdvances'
    BY <1>2, <1>6, <1>7, <1>9
       DEF Consistent, CancelledTimers, SweepLocks, SweepAdvances
  <1> QED BY <1>5, <1>10, <1>11, <1>12, <1>13, <1>14 DEF Consistent

LEMMA PublishConsistent ==
  ASSUME Consistent, NEW c \in Clients, Publish(c)
  PROVE  Consistent'
  <1> DEFINE a == client[c].ptr
             p == IF heap[a].refcnt = 0 THEN NULL ELSE a
             cp == [pc |-> "idle", ptr |-> p]
  <1>1. /\ client[c].pc = "new" /\ ~NormHeld
        /\ timers_queue' = Append(timers_queue, a)
        /\ client' = [client EXCEPT ![c] = cp]
        /\ started' = NULL /\ UNCHANGED <<heap, locked, sweep>>
    BY DEF Publish, MayPublish
  <1>2. /\ TypeOK /\ a \in Addr /\ a \notin Range(timers_queue)
        /\ heap[a] \in Timer /\ ~heap[a].cancelled
    BY <1>1 DEF Consistent, TypeOK, ClientType, HeldTimers, PointersAreLive
  <1>3. p \in {NULL, a} /\ (p # NULL => heap[a].refcnt = 1)
    BY <1>2 DEF Timer
  <1> HIDE DEF a, p
  <1>4. /\ timers_queue' \in Seq(Addr) /\ NoDuplicates(timers_queue')
        /\ Range(timers_queue') = Range(timers_queue) \cup {a}
    BY <1>1, <1>2, QueueOfTimers, AppendedNodes DEF Consistent, TypeOK
  <1>5. cp \in ClientType /\ cp.pc = "idle" /\ cp.ptr = p
    BY <1>2, <1>3 DEF ClientType
  <1> HIDE DEF cp
  <1>6. TypeOK' BY <1>1, <1>2, <1>4, <1>5 DEF TypeOK
  <1>7. /\ client'[c].pc = "idle" /\ client'[c].ptr = p
        /\ \A d \in Clients \ {c} : client'[d] = client[d]
    BY <1>1, <1>2, <1>5 DEF TypeOK
  <1>8. \A d \in Clients \ {c} : client[d].ptr # a
    BY <1>2, AddrAssumption DEF Consistent, PointersAreLive, AddrAssumption, a
  <1>9. TimerLockExclusive'
    BY <1>1, <1>7 DEF Consistent, TimerLockExclusive, InTimer
  <1>10. PointersAreLive'
    BY <1>1, <1>2, <1>3, <1>7, <1>8, AddrAssumption
       DEF Consistent, PointersAreLive, AddrAssumption
  <1>11. SweepStaysOnQueue'
    <2>1. NULL \notin Timer BY AddrAssumption DEF AddrAssumption
    <2> QED
      BY <1>1, <1>2, <1>4, <1>6, <2>1, QueueOfTimers
         DEF Consistent, SweepStaysOnQueue, NormHeld, NoDuplicates, Range
  <1>12. HeldTimers'
    BY <1>1, <1>2, <1>3, <1>4, <1>7, <1>8 DEF Consistent, HeldTimers
  <1>13. CancelledTimers'
    BY <1>1, <1>2, <1>4 DEF Consistent, CancelledTimers
  <1>14. SweepLocks' /\ SweepAdvances'
    BY <1>1 DEF Consistent, SweepLocks, SweepAdvances, NormHeld
  <1> QED BY <1>6, <1>9, <1>10, <1>11, <1>12, <1>13, <1>14 DEF Consistent

LEMMA LockTimerConsistent ==
  ASSUME Consistent, NEW c \in Clients, NEW op \in {"cancel", "release"},
         LockTimer(c, op)
  PROVE  Consistent'
  <1> DEFINE a == client[c].ptr
  <1>1. /\ client[c].pc = "idle" /\ a # NULL /\ ~locked[a]
        /\ locked' = [locked EXCEPT ![a] = TRUE]
        /\ client' = [client EXCEPT ![c].pc = op]
        /\ started' = NULL /\ UNCHANGED <<heap, timers_queue, sweep>>
    BY DEF LockTimer
  <1>2. TypeOK /\ a \in Addr /\ a \in Range(timers_queue)
    BY <1>1 DEF Consistent, TypeOK, ClientType, HeldTimers
  <1> HIDE DEF a
  <1>3. /\ client'[c].pc = op /\ client'[c].ptr = a
        /\ client'[c] \in ClientType
        /\ \A d \in Clients \ {c} : client'[d] = client[d]
    BY <1>1, <1>2 DEF TypeOK, ClientType, a
  <1>4. /\ \A b \in Addr \ {a} : locked'[b] = locked[b]
        /\ locked'[a] /\ locked' \in [Addr -> BOOLEAN]
    BY <1>1, <1>2 DEF TypeOK
  <1>5. TypeOK' 
    <2>1. client' \in [Clients -> ClientType]
      BY <1>1, <1>2, <1>3 DEF TypeOK
    <2> QED BY <1>1, <1>2, <1>4, <2>1 DEF TypeOK
  <1>6. \A d \in Clients \ {c} : client[d].ptr # a
    BY <1>1, <1>2 DEF Consistent, PointersAreLive, a
  <1>7. ~(sweep.pc \in {"inside", "leaving"} /\ sweep.pos = a)
    BY <1>1, <1>2 DEF Consistent, SweepLocks
  <1>8. \A d \in Clients : InTimer(d) => client[d].ptr \in Addr
    BY <1>2 DEF Consistent, HeldTimers, InTimer, TypeOK, ClientType
  <1>9. TimerLockExclusive'
    BY <1>1, <1>3, <1>4, <1>6, <1>7, <1>8
       DEF Consistent, TimerLockExclusive, InTimer
  <1>10. PointersAreLive'
    BY <1>1, <1>3 DEF Consistent, PointersAreLive, a
  <1>11. SweepStaysOnQueue'
    BY <1>1 DEF Consistent, SweepStaysOnQueue, NormHeld, Range
  <1>12. HeldTimers'
    BY <1>1, <1>3 DEF Consistent, HeldTimers, a
  <1>13. CancelledTimers' BY <1>1 DEF Consistent, CancelledTimers
  <1>14. SweepLocks'
    BY <1>1, <1>2, <1>4, QueueRange DEF Consistent, SweepLocks, TypeOK
  <1>15. SweepAdvances' BY <1>1 DEF Consistent, SweepAdvances
  <1> QED BY <1>5, <1>9, <1>10, <1>11, <1>12, <1>13, <1>14, <1>15
          DEF Consistent

\* What cancel and release do to the timer itself.
LEMMA UnrefType ==
  ASSUME NEW t \in Timer
  PROVE  /\ Unref(t) \in Timer /\ Unref(t).refcnt = 0
         /\ Unref(t).cancelled = t.cancelled
         /\ Cancelled(t) \in Timer /\ Cancelled(t).refcnt = 0
         /\ Cancelled(t).cancelled
  <1>1. t.refcnt \in {0, 1} BY DEF Timer
  <1> DEFINE u == [t EXCEPT !.refcnt = 0]
  <1>2. Unref(t) = u
    <2>1. CASE t.refcnt = 0 BY <2>1 DEF Timer, Unref
    <2>2. CASE t.refcnt = 1 BY <2>2 DEF Timer, Unref
    <2> QED BY <1>1, <2>1, <2>2
  <1>3. u \in Timer /\ u.refcnt = 0 /\ u.cancelled = t.cancelled
    BY DEF Timer
  <1> HIDE DEF u
  <1>4. Cancelled(t) = [u EXCEPT !.cancelled = TRUE]
    BY <1>2 DEF Cancelled
  <1>5. /\ Cancelled(t) \in Timer /\ Cancelled(t).refcnt = 0
        /\ Cancelled(t).cancelled
    BY <1>3, <1>4 DEF Timer
  <1> QED BY <1>2, <1>3, <1>5

LEMMA FinishConsistent ==
  ASSUME Consistent, NEW c \in Clients, NEW op \in {"cancel", "release"},
         NEW t \in Timer, t.refcnt = 0, Finish(c, op, t)
  PROVE  Consistent'
  <1> DEFINE a == client[c].ptr
             cp == [pc |-> "idle", ptr |-> NULL]
  <1>1. /\ client[c].pc = op
        /\ heap' = [heap EXCEPT ![a] = t]
        /\ locked' = [locked EXCEPT ![a] = FALSE]
        /\ client' = [client EXCEPT ![c] = cp]
        /\ started' = NULL /\ UNCHANGED <<timers_queue, sweep>>
    BY DEF Finish, Forgotten
  <1>2. TypeOK /\ a \in Addr /\ a \in Range(timers_queue)
    BY <1>1 DEF Consistent, TypeOK, ClientType, HeldTimers
  <1> HIDE DEF a
  <1>3. cp \in ClientType /\ cp.pc = "idle" /\ cp.ptr = NULL
    BY DEF ClientType
  <1> HIDE DEF cp
  <1>4. TypeOK' BY <1>1, <1>2, <1>3 DEF TypeOK
  <1>5. /\ client'[c].pc = "idle" /\ client'[c].ptr = NULL
        /\ \A d \in Clients \ {c} : client'[d] = client[d]
        /\ \A b \in Addr \ {a} : heap'[b] = heap[b] /\ locked'[b] = locked[b]
        /\ heap'[a] = t /\ t # NULL
    BY <1>1, <1>2, <1>3, AddrAssumption DEF TypeOK, AddrAssumption
  <1>6. \A d \in Clients \ {c} : client[d].ptr # a
    BY <1>2, AddrAssumption DEF Consistent, PointersAreLive, AddrAssumption, a
  <1>7. \A d \in Clients : client[d].ptr \in Addr \cup {NULL}
    BY <1>2 DEF TypeOK, ClientType
  <1>8. TimerLockExclusive'
    BY <1>1, <1>5, <1>6, <1>7
       DEF Consistent, TimerLockExclusive, InTimer, HeldTimers
  <1>9. PointersAreLive'
    BY <1>5, <1>6, <1>7 DEF Consistent, PointersAreLive
  <1>10. SweepStaysOnQueue'
    <2>1. Range(timers_queue) \subseteq Addr BY <1>2, QueueRange DEF TypeOK
    <2>2. timers_queue' = timers_queue /\ sweep' = sweep BY <1>1
    <2> QED
      BY <1>2, <1>4, <1>5, <2>1, <2>2, QueueOfTimers
         DEF Consistent, SweepStaysOnQueue, NormHeld, Range
  <1>11. HeldTimers'
    BY <1>1, <1>5, <1>6, <1>7 DEF Consistent, HeldTimers
  <1>12. CancelledTimers'
    BY <1>1, <1>2, <1>5, QueueRange DEF Consistent, CancelledTimers, TypeOK
  <1>13. SweepLocks'
    <2>1. ~(sweep.pc \in {"inside", "leaving"} /\ sweep.pos = a)
      BY <1>1 DEF Consistent, TimerLockExclusive, InTimer, a
    <2>2. Range(timers_queue) \subseteq Addr BY <1>2, QueueRange DEF TypeOK
    <2> QED BY <1>1, <1>5, <2>1, <2>2 DEF Consistent, SweepLocks
  <1>14. SweepAdvances' BY <1>1 DEF Consistent, SweepAdvances
  <1> QED BY <1>4, <1>8, <1>9, <1>10, <1>11, <1>12, <1>13, <1>14
          DEF Consistent

LEMMA ClientConsistent ==
  ASSUME Consistent, NEW c \in Clients, Client(c)
  PROVE  Consistent'
  <1>1. ASSUME NEW refcnt \in {0, 1}, Construct(c, refcnt) PROVE Consistent'
    BY <1>1, ConstructConsistent
  <1>2. CASE Publish(c) BY <1>2, PublishConsistent
  <1>3. ASSUME NEW op \in {"cancel", "release"}, LockTimer(c, op)
        PROVE  Consistent'
    BY <1>3, LockTimerConsistent
  <1> DEFINE t == heap[client[c].ptr]
  <1>4. client[c].pc \in {"cancel", "release"} => t \in Timer
    BY DEF Consistent, TypeOK, ClientType, HeldTimers, PointersAreLive
  <1>5. CASE Cancel(c)
    <2>1. t \in Timer BY <1>4, <1>5 DEF Cancel, Finish
    <2>2. Finish(c, "cancel", Cancelled(t)) BY <1>5 DEF Cancel
    <2> HIDE DEF t
    <2> QED BY <2>1, <2>2, UnrefType, FinishConsistent
  <1>6. CASE Release(c)
    <2>1. t \in Timer BY <1>4, <1>6 DEF Release, Finish
    <2>2. Finish(c, "release", Unref(t)) BY <1>6 DEF Release
    <2> HIDE DEF t
    <2> QED BY <2>1, <2>2, UnrefType, FinishConsistent
  <1> QED BY <1>1, <1>2, <1>3, <1>5, <1>6 DEF Client

-----------------------------------------------------------------------------
(* The steps of the sweep *)

LEMMA AdvanceTickConsistent == Consistent /\ AdvanceTick => Consistent'
  <1> SUFFICES ASSUME Consistent, AdvanceTick PROVE Consistent'
    OBVIOUS
  <1>1. PICK d \in SUBSET {a \in Addr : heap[a] # NULL} :
          heap' = [a \in Addr |-> IF a \in d THEN [heap[a] EXCEPT !.due = TRUE]
                                  ELSE heap[a]]
    BY DEF AdvanceTick
  <1>2. /\ sweep.pc = "sleep" /\ sweep' = [sweep EXCEPT !.pc = "ready"]
        /\ started' = NULL /\ UNCHANGED <<locked, timers_queue, client>>
    BY DEF AdvanceTick
  <1>3. TypeOK BY DEF Consistent
  <1>4. \A a \in Addr :
          /\ heap'[a] = NULL <=> heap[a] = NULL
          /\ heap[a] # NULL => /\ heap'[a] \in Timer
                               /\ heap'[a].refcnt = heap[a].refcnt
                               /\ heap'[a].cancelled = heap[a].cancelled
    <2> TAKE a \in Addr
    <2> DEFINE t == [heap[a] EXCEPT !.due = TRUE]
    <2>1. CASE a \in d
      <3>1. heap'[a] = t /\ heap[a] \in Timer BY <1>1, <1>3, <2>1 DEF TypeOK
      <3>2. /\ t \in Timer /\ t.refcnt = heap[a].refcnt
            /\ t.cancelled = heap[a].cancelled
        BY <3>1 DEF Timer
      <3> HIDE DEF t
      <3> QED BY <2>1, <3>1, <3>2, AddrAssumption DEF AddrAssumption
    <2>2. CASE a \notin d
      BY <1>1, <1>3, <2>2 DEF TypeOK
    <2> QED BY <2>1, <2>2
  <1>5. heap' \in [Addr -> Timer \cup {NULL}]
    BY <1>1, <1>3, <1>4 DEF TypeOK
  <1>6. sweep'.pc = "ready" /\ sweep' \in SweepType
    BY <1>2, <1>3 DEF TypeOK, SweepType
  <1>7. TypeOK' BY <1>2, <1>3, <1>5, <1>6, AddrAssumption DEF TypeOK
  <1>8. Range(timers_queue) \subseteq Addr BY <1>3, QueueRange DEF TypeOK
  <1>9. \A c \in Clients : client[c].ptr \in Addr \cup {NULL}
    BY <1>3 DEF TypeOK, ClientType
  <1>10. TimerLockExclusive'
    BY <1>2, <1>6 DEF Consistent, TimerLockExclusive, InTimer
  <1>11. PointersAreLive'
    BY <1>2, <1>4, <1>9 DEF Consistent, PointersAreLive
  <1>12. SweepStaysOnQueue'
    BY <1>2, <1>3, <1>4, <1>6, <1>8, QueueOfTimers
       DEF Consistent, SweepStaysOnQueue, NormHeld, Range
  <1>13. HeldTimers'
    BY <1>2, <1>4, <1>9 DEF Consistent, HeldTimers, PointersAreLive
  <1>14. CancelledTimers'
    BY <1>2, <1>3, <1>4, <1>8, QueueOfTimers DEF Consistent, CancelledTimers
  <1>15. SweepLocks' /\ SweepAdvances' BY <1>6 DEF SweepLocks, SweepAdvances
  <1> QED BY <1>7, <1>10, <1>11, <1>12, <1>13, <1>14, <1>15 DEF Consistent

\* A step that only moves the walk to a node, or out of the queue.
LEMMA WalkConsistent ==
  ASSUME Consistent, NEW pos \in Range(timers_queue) \cup {HEAD},
         sweep' = [pc |-> "visit", pos |-> pos,
                   nxt |-> IF pos = HEAD THEN HEAD ELSE Succ(timers_queue, pos)],
         locked' \in [Addr -> BOOLEAN],
         \A c \in Clients : InTimer(c) =>
           locked'[client[c].ptr] = locked[client[c].ptr],
         started' = NULL, UNCHANGED <<heap, timers_queue, client>>
  PROVE  Consistent'
  <1> DEFINE nxt == IF pos = HEAD THEN HEAD ELSE Succ(timers_queue, pos)
  <1>1. /\ TypeOK /\ timers_queue \in Seq(Addr) /\ NoDuplicates(timers_queue)
        /\ Range(timers_queue) \subseteq Addr
    BY QueueOfTimers, QueueRange DEF Consistent, TypeOK
  <1>2. /\ nxt \in Range(timers_queue) \cup {HEAD}
        /\ pos # HEAD => nxt # pos
    BY <1>1, SuccNode
  <1> HIDE DEF nxt
  <1>3. sweep' = [pc |-> "visit", pos |-> pos, nxt |-> nxt] BY DEF nxt
  <1>4. /\ sweep'.pc = "visit" /\ sweep'.pos = pos /\ sweep'.nxt = nxt
        /\ sweep' \in SweepType
    BY <1>1, <1>2, <1>3 DEF SweepType
  <1>5. TypeOK' BY <1>1, <1>4 DEF TypeOK
  <1>6. TimerLockExclusive'
    BY <1>4 DEF Consistent, TimerLockExclusive, InTimer
  <1>7. PointersAreLive' BY DEF Consistent, PointersAreLive
  <1>8. SweepStaysOnQueue'
    BY <1>2, <1>4 DEF Consistent, SweepStaysOnQueue, Range
  <1>9. HeldTimers' /\ CancelledTimers'
    BY DEF Consistent, HeldTimers, CancelledTimers
  <1>10. SweepLocks' /\ SweepAdvances'
    BY <1>2, <1>4 DEF SweepLocks, SweepAdvances
  <1> QED BY <1>5, <1>6, <1>7, <1>8, <1>9, <1>10 DEF Consistent

LEMMA BeginSweepConsistent == Consistent /\ BeginSweep => Consistent'
  <1> SUFFICES ASSUME Consistent, BeginSweep PROVE Consistent'
    OBVIOUS
  <1> DEFINE first == IF timers_queue = <<>> THEN HEAD ELSE Head(timers_queue)
  <1>1. first \in Range(timers_queue) \cup {HEAD}
    <2>1. timers_queue \in Seq(Addr) BY DEF Consistent, TypeOK
    <2>2. timers_queue # <<>> =>
            1 \in DOMAIN timers_queue /\ Head(timers_queue) = timers_queue[1]
      BY <2>1
    <2> QED BY <2>2 DEF Range
  <1>2. sweep' = [pc |-> "visit", pos |-> first,
                  nxt |-> IF first = HEAD THEN HEAD
                          ELSE Succ(timers_queue, first)]
    BY DEF BeginSweep
  <1>3. started' = NULL /\ UNCHANGED <<heap, locked, timers_queue, client>>
    BY DEF BeginSweep
  <1> HIDE DEF first
  <1>4. locked' \in [Addr -> BOOLEAN] BY <1>3 DEF Consistent, TypeOK
  <1> QED BY <1>1, <1>2, <1>3, <1>4, WalkConsistent

LEMMA VisitConsistent == Consistent /\ Visit => Consistent'
  <1> SUFFICES ASSUME Consistent, Visit PROVE Consistent'
    OBVIOUS
  <1> DEFINE a == sweep.pos
  <1>1. /\ sweep.pc = "visit" /\ a # HEAD /\ ~locked[a]
        /\ locked' = [locked EXCEPT ![a] = TRUE]
        /\ sweep' = [sweep EXCEPT !.pc = "inside"]
        /\ started' = NULL /\ UNCHANGED <<heap, timers_queue, client>>
    BY DEF Visit
  <1>2. /\ TypeOK /\ a \in Range(timers_queue)
        /\ Range(timers_queue) \subseteq Addr
    BY <1>1, QueueRange DEF Consistent, TypeOK, SweepStaysOnQueue
  <1>3. /\ sweep'.pc = "inside" /\ sweep'.pos = a /\ sweep'.nxt = sweep.nxt
        /\ sweep' \in SweepType
    BY <1>1, <1>2 DEF TypeOK, SweepType
  <1> HIDE DEF a
  <1>4. /\ locked' \in [Addr -> BOOLEAN] /\ locked'[a]
        /\ \A b \in Addr \ {a} : locked'[b] = locked[b]
    BY <1>1, <1>2 DEF TypeOK
  <1>5. TypeOK' BY <1>1, <1>2, <1>3, <1>4 DEF TypeOK
  <1>6. \A c \in Clients : InTimer(c) =>
          client[c].ptr \in Addr /\ client[c].ptr # a
    BY <1>1, <1>2
       DEF Consistent, InTimer, HeldTimers, TypeOK, ClientType,
           TimerLockExclusive
  <1>7. TimerLockExclusive'
    BY <1>1, <1>3, <1>4, <1>6 DEF Consistent, TimerLockExclusive, InTimer
  <1>8. PointersAreLive' BY <1>1 DEF Consistent, PointersAreLive
  <1>9. SweepStaysOnQueue'
    BY <1>1, <1>2, <1>3 DEF Consistent, SweepStaysOnQueue, NormHeld, Range
  <1>10. HeldTimers' /\ CancelledTimers'
    BY <1>1 DEF Consistent, HeldTimers, CancelledTimers
  <1>11. SweepLocks' /\ SweepAdvances'
    BY <1>1, <1>2, <1>3, <1>4 DEF Consistent, SweepLocks, SweepAdvances, a
  <1> QED BY <1>5, <1>7, <1>8, <1>9, <1>10, <1>11 DEF Consistent

LEMMA SweepConsistent == Consistent /\ Sweep => Consistent'
  <1> SUFFICES ASSUME Consistent, Sweep PROVE Consistent'
    OBVIOUS
  <1> DEFINE a == sweep.pos
  <1>1. /\ sweep.pc = "inside" /\ started' \in {a, NULL}
        /\ sweep' = [sweep EXCEPT !.pc = "leaving"]
        /\ UNCHANGED <<locked, client>>
    BY DEF Sweep
  <1>2. /\ TypeOK /\ a \in Range(timers_queue) /\ a \in Addr
        /\ Range(timers_queue) \subseteq Addr
        /\ timers_queue \in Seq(Addr) /\ NoDuplicates(timers_queue)
    BY <1>1, QueueRange, QueueOfTimers DEF Consistent, TypeOK, SweepLocks
  <1>3. /\ sweep'.pc = "leaving" /\ sweep'.pos = a /\ sweep'.nxt = sweep.nxt
        /\ sweep' \in SweepType
    BY <1>1, <1>2 DEF TypeOK, SweepType
  <1>4. sweep.nxt \in (Range(timers_queue) \ {a}) \cup {HEAD}
    <2>1. a # HEAD BY <1>2, QueueRange
    <2> QED
      BY <1>1, <2>1 DEF Consistent, SweepAdvances, SweepStaysOnQueue, NormHeld
  <1>5. CASE Collectable(heap[a])
    <2>1. /\ timers_queue' = Unlinked(timers_queue, a)
          /\ heap' = [heap EXCEPT ![a] = NULL]
      BY <1>5 DEF Sweep
    <2>2. heap[a].refcnt = 0 /\ heap[a].cancelled BY <1>5 DEF Collectable
    <2> HIDE DEF a
    <2>3. /\ timers_queue' \in Seq(Addr) /\ NoDuplicates(timers_queue')
          /\ Range(timers_queue') = Range(timers_queue) \ {a}
      BY <1>2, <2>1, UnlinkedNodes
    <2>4. \A b \in Addr \ {a} : heap'[b] = heap[b]
      BY <1>2, <2>1 DEF TypeOK
    <2>5. TypeOK' BY <1>1, <1>2, <1>3, <2>1, <2>3 DEF TypeOK
    <2>6. \A c \in Clients :
            client[c].ptr \in (Addr \ {a}) \cup {NULL}
      BY <1>2, <2>2 DEF Consistent, HeldTimers, TypeOK, ClientType
    <2>7. TimerLockExclusive'
      BY <1>1, <1>2, <1>3, <2>6, AddrAssumption
         DEF Consistent, TimerLockExclusive, InTimer, AddrAssumption
    <2>8. PointersAreLive'
      BY <1>1, <2>4, <2>6 DEF Consistent, PointersAreLive
    <2>9. SweepStaysOnQueue'
      <3>1. \A b \in Range(timers_queue') : heap'[b] # NULL
        BY <1>2, <2>3, <2>4, QueueOfTimers DEF Consistent
      <3> QED
        BY <1>3, <1>4, <2>3, <3>1
           DEF SweepStaysOnQueue, NormHeld, NoDuplicates, Range
    <2>10. HeldTimers'
      BY <1>1, <2>3, <2>4, <2>6 DEF Consistent, HeldTimers
    <2>11. CancelledTimers'
      BY <1>2, <2>3, <2>4 DEF Consistent, CancelledTimers
    <2>12. SweepLocks' /\ SweepAdvances'
      BY <1>3, <2>3 DEF SweepLocks, SweepAdvances
    <2> QED BY <2>5, <2>7, <2>8, <2>9, <2>10, <2>11, <2>12 DEF Consistent
  <1>6. CASE ~Collectable(heap[a])
    <2>1. UNCHANGED <<timers_queue, heap>> BY <1>6 DEF Sweep
    <2> HIDE DEF a
    <2>2. TypeOK' BY <1>1, <1>2, <1>3, <2>1 DEF TypeOK
    <2>3. TimerLockExclusive'
      BY <1>1, <1>3, <2>1 DEF Consistent, TimerLockExclusive, InTimer, a
    <2>4. PointersAreLive' BY <1>1, <2>1 DEF Consistent, PointersAreLive
    <2>5. SweepStaysOnQueue'
      BY <1>1, <1>3, <2>1 DEF Consistent, SweepStaysOnQueue, NormHeld, Range
    <2>6. HeldTimers' /\ CancelledTimers'
      BY <1>1, <2>1 DEF Consistent, HeldTimers, CancelledTimers
    <2>7. SweepLocks' /\ SweepAdvances'
      BY <1>1, <1>3, <2>1 DEF Consistent, SweepLocks, SweepAdvances, a
    <2> QED BY <2>2, <2>3, <2>4, <2>5, <2>6, <2>7 DEF Consistent
  <1> QED BY <1>5, <1>6

LEMMA LeaveTimerConsistent == Consistent /\ LeaveTimer => Consistent'
  <1> SUFFICES ASSUME Consistent, LeaveTimer PROVE Consistent'
    OBVIOUS
  <1> DEFINE pos == sweep.nxt
  <1>1. /\ sweep.pc = "leaving"
        /\ locked' = [locked EXCEPT ![sweep.pos] = FALSE]
        /\ sweep' = [pc |-> "visit", pos |-> pos,
                     nxt |-> IF pos = HEAD THEN HEAD
                             ELSE Succ(timers_queue, pos)]
        /\ started' = NULL /\ UNCHANGED <<heap, timers_queue, client>>
    BY DEF LeaveTimer, Following
  <1>2. pos \in Range(timers_queue) \cup {HEAD}
    BY <1>1 DEF Consistent, SweepStaysOnQueue, NormHeld
  <1> HIDE DEF pos
  <1>3. /\ locked \in [Addr -> BOOLEAN] /\ locked' \in [Addr -> BOOLEAN]
        /\ \A b \in Addr \ {sweep.pos} : locked'[b] = locked[b]
    BY <1>1 DEF Consistent, TypeOK
  <1>4. \A c \in Clients : InTimer(c) =>
          client[c].ptr \in Addr \ {sweep.pos}
    BY <1>1 DEF Consistent, TimerLockExclusive, InTimer, HeldTimers, TypeOK,
                ClientType
  <1> QED BY <1>1, <1>2, <1>3, <1>4, WalkConsistent

LEMMA EndSweepConsistent == Consistent /\ EndSweep => Consistent'
  <1> SUFFICES ASSUME Consistent, EndSweep PROVE Consistent'
    OBVIOUS
  <1>1. /\ sweep' = [sweep EXCEPT !.pc = "sleep"]
        /\ started' = NULL /\ UNCHANGED <<heap, locked, timers_queue, client>>
    BY DEF EndSweep
  <1>2. TypeOK BY DEF Consistent
  <1>3. sweep'.pc = "sleep" /\ sweep' \in SweepType
    BY <1>1, <1>2 DEF TypeOK, SweepType
  <1>4. TypeOK' BY <1>1, <1>2, <1>3 DEF TypeOK
  <1>5. TimerLockExclusive' /\ PointersAreLive'
    BY <1>1, <1>3
       DEF Consistent, TimerLockExclusive, InTimer, PointersAreLive
  <1>6. SweepStaysOnQueue'
    BY <1>1, <1>3 DEF Consistent, SweepStaysOnQueue, NormHeld
  <1>7. HeldTimers' /\ CancelledTimers'
    BY <1>1 DEF Consistent, HeldTimers, CancelledTimers
  <1>8. SweepLocks' /\ SweepAdvances' BY <1>3 DEF SweepLocks, SweepAdvances
  <1> QED BY <1>4, <1>5, <1>6, <1>7, <1>8 DEF Consistent

LEMMA ConsistentNext == Consistent /\ [Next]_vars => Consistent'
  <1> SUFFICES ASSUME Consistent, [Next]_vars PROVE Consistent'
    OBVIOUS
  <1>1. CASE timers_start
    BY <1>1, AdvanceTickConsistent, BeginSweepConsistent, VisitConsistent,
       SweepConsistent, LeaveTimerConsistent, EndSweepConsistent
       DEF timers_start
  <1>2. ASSUME NEW c \in Clients, Client(c) PROVE Consistent'
    BY <1>2, ClientConsistent
  <1>3. CASE UNCHANGED vars
    BY <1>3 DEF vars, Consistent, TypeOK, TimerLockExclusive, InTimer,
                PointersAreLive, SweepStaysOnQueue, NormHeld, HeldTimers,
                CancelledTimers, SweepLocks, SweepAdvances
  <1> QED BY <1>1, <1>2, <1>3 DEF Next

\* The invariant that the theorems below are read off from.
THEOREM TimersConsistent == Spec => []Consistent
  BY ConsistentInit, ConsistentNext, PTL DEF Spec

-----------------------------------------------------------------------------
(* Theorems *)

\* The fields keep their types: refcnt never leaves 0 .. 1, and the walk of
\* list_for_each_safe never follows the null pointer of an unlinked node.
THEOREM TypeCorrect == Spec => []TypeOK
  <1>1. Consistent => TypeOK BY DEF Consistent
  <1> QED BY <1>1, TimersConsistent, PTL

\* The lock of a timer excludes, although the sweep unlocks mutexes in memory
\* that it has deleted and that another timer may use by then.
THEOREM LocksExclude == Spec => []TimerLockExclusive
  <1>1. Consistent => TimerLockExclusive BY DEF Consistent
  <1> QED BY <1>1, TimersConsistent, PTL

\* No client ever cancels or releases a timer that the sweep has deleted.
THEOREM NoPointerDangles == Spec => []PointersAreLive
  <1>1. Consistent => PointersAreLive BY DEF Consistent
  <1> QED BY <1>1, TimersConsistent, PTL

\* The sweep visits timers only, for any length of the queue.
THEOREM QueueStaysIntact == Spec => []SweepStaysOnQueue
  <1>1. Consistent => SweepStaysOnQueue BY DEF Consistent
  <1> QED BY <1>1, TimersConsistent, PTL

-----------------------------------------------------------------------------
(* Timers implements TimerService *)

\* A step that changes the status of no timer is a quiet one.
LEMMA QuietStep ==
  ASSUME \A a \in Addr : Status(a)' = Status(a), started' = NULL
  PROVE  Service!Quiet
  BY DEF Service!Quiet

\* A step that changes the status of one timer.
LEMMA StatusBecomes ==
  ASSUME NEW a \in Addr, NEW from, NEW to,
         Status(a) = from, Status(a)' = to,
         \A b \in Addr \ {a} : Status(b)' = Status(b)
  PROVE  Service!Becomes(a, from, to)
  BY DEF Service!Becomes

LEMMA InitImplements == Init => Service!SInit
  BY DEF Init, Service!SInit, Status, Range

LEMMA ConstructImplements ==
  ASSUME Consistent, NEW c \in Clients, NEW refcnt \in {0, 1},
         Construct(c, refcnt)
  PROVE  Service!Quiet
  <1>1. PICK a \in Addr :
          /\ heap[a] = NULL
          /\ heap' = [heap EXCEPT ![a] = [refcnt |-> refcnt,
                                          cancelled |-> FALSE, due |-> FALSE]]
    BY DEF Construct
  <1>2. started' = NULL /\ timers_queue' = timers_queue BY DEF Construct
  <1>3. TypeOK /\ a \notin Range(timers_queue)
    BY <1>1, QueueOfTimers DEF Consistent
  <1>4. \A b \in Addr \ {a} : heap'[b] = heap[b] BY <1>1, <1>3 DEF TypeOK
  <1>5. \A b \in Addr : Status(b)' = Status(b)
    BY <1>2, <1>3, <1>4 DEF Status
  <1> QED BY <1>2, <1>5, QuietStep

LEMMA PublishImplements ==
  ASSUME Consistent, NEW c \in Clients, Publish(c)
  PROVE  \E a \in Addr : Service!Arm(a) \/ Service!ArmOneshot(a)
  <1>0. client[c].pc = "new" /\ client[c].ptr \in Addr
    BY DEF Publish, Consistent, TypeOK, ClientType, HeldTimers
  <1> PICK a \in Addr : a = client[c].ptr BY <1>0
  <1>1. /\ client[c].pc = "new" /\ timers_queue' = Append(timers_queue, a)
        /\ started' = NULL /\ UNCHANGED heap
    BY DEF Publish
  <1>2. /\ a \in Addr /\ a \notin Range(timers_queue)
        /\ heap[a] \in Timer /\ ~heap[a].cancelled
    BY <1>1 DEF Consistent, TypeOK, ClientType, HeldTimers, PointersAreLive
  <1>3. Range(timers_queue') = Range(timers_queue) \cup {a}
    BY <1>1, <1>2, QueueOfTimers, AppendedNodes DEF Consistent, TypeOK
  <1>4. \A b \in Addr \ {a} : Status(b)' = Status(b)
    BY <1>1, <1>3 DEF Status
  <1>5. Status(a) = "none" BY <1>2 DEF Status
  <1>6. Status(a)' = IF heap[a].refcnt = 0 THEN "released" ELSE "armed"
    BY <1>1, <1>2, <1>3 DEF Status
  <1>7. CASE heap[a].refcnt = 0
    <2>1. Service!Becomes(a, "none", "released")
      BY <1>2, <1>4, <1>5, <1>6, <1>7, StatusBecomes
    <2> QED BY <1>1, <1>2, <2>1 DEF Service!ArmOneshot
  <1>8. CASE heap[a].refcnt # 0
    <2>1. Service!Becomes(a, "none", "armed")
      BY <1>2, <1>4, <1>5, <1>6, <1>8, StatusBecomes
    <2> QED BY <1>1, <1>2, <2>1 DEF Service!Arm
  <1> QED BY <1>7, <1>8

\* A client inside cancel or release changes an armed timer.
LEMMA FinishStatus ==
  ASSUME Consistent, NEW c \in Clients, NEW op \in {"cancel", "release"},
         NEW t \in Timer, t.refcnt = 0, Finish(c, op, t)
  PROVE  /\ client[c].ptr \in Addr /\ started' = NULL
         /\ Service!Becomes(client[c].ptr, "armed",
                            IF t.cancelled THEN "cancelled" ELSE "released")
  <1>0. client[c].pc = op /\ client[c].ptr \in Addr
    BY DEF Finish, Consistent, TypeOK, ClientType, HeldTimers
  <1> PICK a \in Addr : a = client[c].ptr BY <1>0
  <1> DEFINE to == IF t.cancelled THEN "cancelled" ELSE "released"
  <1>1. /\ client[c].pc = op /\ heap' = [heap EXCEPT ![a] = t]
        /\ started' = NULL /\ timers_queue' = timers_queue
    BY DEF Finish
  <1>2. /\ TypeOK /\ a \in Addr /\ a \in Range(timers_queue)
        /\ heap[a].refcnt = 1 /\ ~heap[a].cancelled
    BY <1>1 DEF Consistent, TypeOK, ClientType, HeldTimers
  <1>3. heap'[a] = t /\ \A b \in Addr \ {a} : heap'[b] = heap[b]
    BY <1>1, <1>2 DEF TypeOK
  <1>4. Status(a) = "armed" BY <1>2 DEF Status
  <1>5. Status(a)' = to BY <1>1, <1>2, <1>3 DEF Status
  <1>6. \A b \in Addr \ {a} : Status(b)' = Status(b)
    BY <1>1, <1>3 DEF Status
  <1> HIDE DEF to
  <1>7. Service!Becomes(a, "armed", to)
    BY <1>2, <1>4, <1>5, <1>6, StatusBecomes
  <1> QED BY <1>1, <1>2, <1>7 DEF to

LEMMA ClientImplements ==
  ASSUME Consistent, NEW c \in Clients, Client(c)
  PROVE  Service!SNext
  <1>1. ASSUME NEW refcnt \in {0, 1}, Construct(c, refcnt)
        PROVE  Service!SNext
    BY <1>1, ConstructImplements DEF Service!SNext
  <1>2. CASE Publish(c) BY <1>2, PublishImplements DEF Service!SNext
  <1>3. ASSUME NEW op \in {"cancel", "release"}, LockTimer(c, op)
        PROVE  Service!SNext
    <2>1. /\ heap' = heap /\ timers_queue' = timers_queue /\ started' = NULL
      BY <1>3 DEF LockTimer
    <2>2. \A a \in Addr : Status(a)' = Status(a) BY <2>1 DEF Status
    <2> QED BY <2>1, <2>2, QuietStep DEF Service!SNext
  <1> DEFINE a == client[c].ptr
             t == heap[a]
  <1>4. client[c].pc \in {"cancel", "release"} => t \in Timer /\ ~t.cancelled
    BY DEF Consistent, TypeOK, ClientType, HeldTimers, PointersAreLive
  <1>5. CASE Cancel(c)
    <2>1. t \in Timer BY <1>4, <1>5 DEF Cancel, Finish
    <2>2. Finish(c, "cancel", Cancelled(t)) BY <1>5 DEF Cancel
    <2> HIDE DEF t
    <2>3. a \in Addr /\ started' = NULL
          /\ Service!Becomes(a, "armed", "cancelled")
      BY <2>1, <2>2, UnrefType, FinishStatus
    <2> QED BY <2>3 DEF Service!SNext, Service!Cancel
  <1>6. CASE Release(c)
    <2>1. t \in Timer /\ ~t.cancelled BY <1>4, <1>6 DEF Release, Finish
    <2>2. Finish(c, "release", Unref(t)) BY <1>6 DEF Release
    <2> HIDE DEF t
    <2>3. a \in Addr /\ started' = NULL
          /\ Service!Becomes(a, "armed", "released")
      BY <2>1, <2>2, UnrefType, FinishStatus
    <2> QED BY <2>3 DEF Service!SNext, Service!Release
  <1> QED BY <1>1, <1>2, <1>3, <1>5, <1>6 DEF Client

LEMMA AdvanceTickImplements == Consistent /\ AdvanceTick => Service!Quiet
  <1> SUFFICES ASSUME Consistent, AdvanceTick PROVE Service!Quiet
    OBVIOUS
  <1>1. PICK d \in SUBSET {a \in Addr : heap[a] # NULL} :
          heap' = [a \in Addr |-> IF a \in d THEN [heap[a] EXCEPT !.due = TRUE]
                                  ELSE heap[a]]
    BY DEF AdvanceTick
  <1>2. started' = NULL /\ timers_queue' = timers_queue BY DEF AdvanceTick
  <1>3. \A a \in Addr : heap[a] # NULL =>
          /\ heap'[a].refcnt = heap[a].refcnt
          /\ heap'[a].cancelled = heap[a].cancelled
    <2> SUFFICES ASSUME NEW a \in Addr, heap[a] # NULL
                 PROVE  /\ heap'[a].refcnt = heap[a].refcnt
                        /\ heap'[a].cancelled = heap[a].cancelled
      OBVIOUS
    <2>1. heap[a] \in Timer BY DEF Consistent, TypeOK
    <2> QED BY <1>1, <2>1 DEF Timer
  <1>4. \A a \in Range(timers_queue) : heap[a] # NULL
    BY QueueOfTimers DEF Consistent
  <1>5. \A a \in Addr : Status(a)' = Status(a)
    BY <1>2, <1>3, <1>4 DEF Status
  <1> QED BY <1>2, <1>5, QuietStep

\* What a sweep takes away was cancelled, and what it leaves it does not start.
LEMMA SweepImplements == Consistent /\ Sweep => Service!SNext
  <1> SUFFICES ASSUME Consistent, Sweep PROVE Service!SNext
    OBVIOUS
  <1>0. sweep.pc = "inside" /\ sweep.pos \in Addr
    BY QueueRange DEF Sweep, Consistent, TypeOK, SweepLocks
  <1> PICK a \in Addr : a = sweep.pos BY <1>0
  <1>1. /\ sweep.pc = "inside"
        /\ started' = IF Fires(heap[a]) THEN a ELSE NULL
    BY DEF Sweep
  <1>2. /\ TypeOK /\ a \in Range(timers_queue) /\ a \in Addr
        /\ timers_queue \in Seq(Addr) /\ NoDuplicates(timers_queue)
    BY <1>1, QueueRange, QueueOfTimers DEF Consistent, TypeOK, SweepLocks
  <1>3. CASE Collectable(heap[a])
    <2>1. /\ timers_queue' = Unlinked(timers_queue, a)
          /\ heap' = [heap EXCEPT ![a] = NULL]
      BY <1>3 DEF Sweep
    <2>2. heap[a].cancelled BY <1>3 DEF Collectable
    <2>3. Range(timers_queue') = Range(timers_queue) \ {a}
      BY <1>2, <2>1, UnlinkedNodes
    <2>4. \A b \in Addr \ {a} : heap'[b] = heap[b]
      BY <1>2, <2>1 DEF TypeOK
    <2>5. Status(a) = "cancelled" BY <1>2, <2>2 DEF Status
    <2>6. Status(a)' = "none" BY <2>3 DEF Status
    <2>7. \A b \in Addr \ {a} : Status(b)' = Status(b)
      BY <2>3, <2>4 DEF Status
    <2>8. Service!Becomes(a, "cancelled", "none")
      BY <1>2, <2>5, <2>6, <2>7, StatusBecomes
    <2> QED BY <1>1, <1>2, <2>8 DEF Service!Collect, Service!SNext
  <1>4. CASE ~Collectable(heap[a])
    <2>1. timers_queue' = timers_queue /\ heap' = heap BY <1>4 DEF Sweep
    <2>2. ~heap[a].cancelled
      BY <1>2, <1>4 DEF Consistent, CancelledTimers, Collectable
    <2>3. started' = NULL BY <1>1, <2>2 DEF Fires
    <2>4. \A b \in Addr : Status(b)' = Status(b) BY <2>1 DEF Status
    <2> QED BY <2>3, <2>4, QuietStep DEF Service!SNext
  <1> QED BY <1>3, <1>4

LEMMA NextImplements ==
  Consistent /\ [Next]_vars => [Service!SNext]_Service!svars
  <1> SUFFICES ASSUME Consistent, [Next]_vars
               PROVE  [Service!SNext]_Service!svars
    OBVIOUS
  <1>1. ASSUME NEW c \in Clients, Client(c) PROVE Service!SNext
    BY <1>1, ClientImplements
  <1>2. CASE AdvanceTick BY <1>2, AdvanceTickImplements DEF Service!SNext
  <1>3. CASE Sweep BY <1>3, SweepImplements
  <1>4. CASE BeginSweep \/ Visit \/ LeaveTimer \/ EndSweep
    <2>1. heap' = heap /\ timers_queue' = timers_queue /\ started' = NULL
      BY <1>4 DEF BeginSweep, Visit, LeaveTimer, EndSweep
    <2>2. \A a \in Addr : Status(a)' = Status(a) BY <2>1 DEF Status
    <2> QED BY <2>1, <2>2, QuietStep DEF Service!SNext
  <1>5. CASE UNCHANGED vars
    <2>1. heap' = heap /\ timers_queue' = timers_queue /\ started' = started
      BY <1>5 DEF vars
    <2>2. \A a \in Addr : Status(a)' = Status(a) BY <2>1 DEF Status
    <2> QED BY <2>1, <2>2 DEF Service!svars
  <1> QED BY <1>1, <1>2, <1>3, <1>4, <1>5 DEF Next, timers_start

\* Seen from their users, the threads, locks and reused blocks are the timers
\* of TimerService: a handler starts only for a cancelled timer, in the step
\* that takes the timer away, and a released timer stays for ever.
THEOREM TimersImplementService == Spec => ImplementsService
  BY InitImplements, NextImplements, TimersConsistent, PTL
     DEF Spec, ImplementsService, Service!SSpec

=============================================================================
