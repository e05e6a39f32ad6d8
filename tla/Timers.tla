-------------------------------- MODULE Timers --------------------------------
(***************************************************************************)
(* The timer queue of src/timer.cpp, lock by lock: the thread of           *)
(* timers_start sweeps timers_queue under norm_mutex and locks each timer  *)
(* in turn; client threads create timers, and cancel or release them under *)
(* the lock of the timer.  The lock lies inside the timer, and the memory  *)
(* of a timer that was deleted may be used for the next one.               *)
(*                                                                         *)
(* A client is the thread that holds sock->lock of one socket.  It stands  *)
(* for one of the timer pointers of a Tcp_Sock, and for the Oneshot timer  *)
(* of socket_delete, whose pointer nobody keeps.                           *)
(***************************************************************************)
EXTENDS Naturals, SequencesExt

CONSTANTS
  Clients,
  Addr,      \* memory blocks the size of a Timer
  NULL,
  HEAD       \* the list_head inside timers_queue

VARIABLES
  heap,          \* the Timer in each block, or NULL for a block that is free
  locked,        \* the word of the mutex in each block, free or not
  timers_queue,  \* the blocks linked into the queue, from head to tail
  sweep,         \* the thread of timers_start: its pc, and pos and p of the
                 \* walk over the queue
  client,        \* each client: its pc and its pointer
  started        \* the timer whose handler the last step started, or NULL

vars == <<heap, locked, timers_queue, sweep, client, started>>

Timer == [refcnt : 0 .. 1, cancelled : BOOLEAN, due : BOOLEAN]

\* NULL is neither a block nor a timer, and no block is the head of the queue.
ASSUME AddrAssumption == NULL \notin Addr \cup Timer /\ HEAD \notin Addr

\* Between the lines of timers_tick that lock and unlock norm_mutex.
NormHeld == sweep.pc \in {"visit", "inside", "leaving"}

\* The index of block a in the queue q, which holds it once.
Index(q, a) == CHOOSE i \in DOMAIN q : q[i] = a

\* pos->next, or what a node that queue_del has unlinked holds there.
Succ(q, a) ==
  IF a \notin Range(q) THEN NULL
  ELSE LET i == Index(q, a) IN IF i < Len(q) THEN q[i + 1] ELSE HEAD

Init == /\ heap = [a \in Addr |-> NULL]
        /\ locked = [a \in Addr |-> FALSE]
        /\ timers_queue = <<>>
        /\ sweep = [pc |-> "sleep", pos |-> HEAD, nxt |-> HEAD]
        /\ client = [c \in Clients |-> [pc |-> "idle", ptr |-> NULL]]
        /\ started = NULL

-----------------------------------------------------------------------------
(* The clients *)

\* Timer::create up to its lock: new Timer, in any free block.
Construct(c, refcnt) ==
  /\ client[c].pc = "idle" /\ client[c].ptr = NULL
  /\ \E a \in Addr :
       /\ heap[a] = NULL
       /\ heap' = [heap EXCEPT ![a] = [refcnt |-> refcnt, cancelled |-> FALSE,
                                       due |-> FALSE]]
       /\ locked' = [locked EXCEPT ![a] = FALSE]
       /\ client' = [client EXCEPT ![c] = [pc |-> "new", ptr |-> a]]
  /\ started' = NULL
  /\ UNCHANGED <<timers_queue, sweep>>

\* Mutant of MayPublish: create does not take norm_mutex.
MayPublishUnlocked == TRUE

\* Timer::create waits for norm_mutex.
MayPublish == ~NormHeld

\* The rest of Timer::create; the pointer of a Oneshot timer is not kept.
Publish(c) ==
  /\ client[c].pc = "new" /\ MayPublish
  /\ timers_queue' = Append(timers_queue, client[c].ptr)
  /\ client' = [client EXCEPT ![c] =
       [pc |-> "idle",
        ptr |-> IF heap[@.ptr].refcnt = 0 THEN NULL ELSE @.ptr]]
  /\ started' = NULL
  /\ UNCHANGED <<heap, locked, sweep>>

\* Timer::cancel and Timer::release take the lock of the timer.
LockTimer(c, op) ==
  /\ client[c].pc = "idle" /\ client[c].ptr # NULL
  /\ ~locked[client[c].ptr]
  /\ locked' = [locked EXCEPT ![client[c].ptr] = TRUE]
  /\ client' = [client EXCEPT ![c].pc = op]
  /\ started' = NULL
  /\ UNCHANGED <<heap, timers_queue, sweep>>

Unref(t) == IF t.refcnt > 0 THEN [t EXCEPT !.refcnt = @ - 1] ELSE t

\* Mutant of Cancelled: the reference is kept.
CancelledButHeld(t) == [t EXCEPT !.cancelled = TRUE]

Cancelled(t) == [Unref(t) EXCEPT !.cancelled = TRUE]

\* Mutant of Forgotten: the pointer stays where it was.
Remembered(p) == p

\* The users of a timer null their pointer after cancel or release, or put a
\* new timer there.
Forgotten(p) == NULL

\* Both functions unlock the timer at their end.
Finish(c, op, t) ==
  LET a == client[c].ptr
  IN  /\ client[c].pc = op
      /\ heap' = [heap EXCEPT ![a] = t]
      /\ locked' = [locked EXCEPT ![a] = FALSE]
      /\ client' = [client EXCEPT ![c] = [pc |-> "idle", ptr |-> Forgotten(a)]]
      /\ started' = NULL
      /\ UNCHANGED <<timers_queue, sweep>>

Cancel(c) == Finish(c, "cancel", Cancelled(heap[client[c].ptr]))

Release(c) == Finish(c, "release", Unref(heap[client[c].ptr]))

Client(c) == \/ \E refcnt \in {0, 1} : Construct(c, refcnt)
             \/ Publish(c)
             \/ \E op \in {"cancel", "release"} : LockTimer(c, op)
             \/ Cancel(c)
             \/ Release(c)

-----------------------------------------------------------------------------
(* The thread of timers_start *)

\* tick += 10: some of the timers are due from now on.
AdvanceTick ==
  /\ sweep.pc = "sleep"
  /\ \E d \in SUBSET {a \in Addr : heap[a] # NULL} :
       heap' = [a \in Addr |-> IF a \in d THEN [heap[a] EXCEPT !.due = TRUE]
                               ELSE heap[a]]
  /\ sweep' = [sweep EXCEPT !.pc = "ready"]
  /\ started' = NULL
  /\ UNCHANGED <<locked, timers_queue, client>>

\* timers_tick takes norm_mutex and goes to the first node.
BeginSweep ==
  LET first == IF timers_queue = <<>> THEN HEAD ELSE Head(timers_queue)
  IN  /\ sweep.pc = "ready"
      /\ sweep' = [pc |-> "visit", pos |-> first,
                   nxt |-> IF first = HEAD THEN HEAD
                           ELSE Succ(timers_queue, first)]
      /\ started' = NULL
      /\ UNCHANGED <<heap, locked, timers_queue, client>>

Visit ==
  /\ sweep.pc = "visit" /\ sweep.pos # HEAD
  /\ ~locked[sweep.pos]
  /\ locked' = [locked EXCEPT ![sweep.pos] = TRUE]
  /\ sweep' = [sweep EXCEPT !.pc = "inside"]
  /\ started' = NULL
  /\ UNCHANGED <<heap, timers_queue, client>>

\* Mutant of Fires: the handler of a timer that nobody cancelled is started.
FiresDue(t) == t.due

Fires(t) == t.cancelled /\ t.due

Collectable(t) == t.cancelled /\ t.refcnt = 0

\* Mutant of Unlinked: the timer is deleted but stays in the queue.
StillLinked(q, a) == q

\* queue_del
Unlinked(q, a) == RemoveAt(q, Index(q, a))

\* Starts the handler, then unlinks and deletes the timer.
Sweep ==
  LET a == sweep.pos
  IN  /\ sweep.pc = "inside"
      /\ started' = IF Fires(heap[a]) THEN a ELSE NULL
      /\ IF Collectable(heap[a])
         THEN /\ timers_queue' = Unlinked(timers_queue, a)
              /\ heap' = [heap EXCEPT ![a] = NULL]
         ELSE UNCHANGED <<timers_queue, heap>>
      /\ sweep' = [sweep EXCEPT !.pc = "leaving"]
      /\ UNCHANGED <<locked, client>>

\* Mutant of Following: the walk reads pos->next after the callback.
FollowingAfter(s) == Succ(timers_queue, s.pos)

\* list_for_each_safe saved the successor before the callback.
Following(s) == s.nxt

\* The unique_lock unlocks its mutex at the end of the block: in a timer that
\* was deleted, this writes to whatever the memory is used for by now.
LeaveTimer ==
  LET pos == Following(sweep)
  IN  /\ sweep.pc = "leaving"
      /\ locked' = [locked EXCEPT ![sweep.pos] = FALSE]
      /\ sweep' = [pc |-> "visit", pos |-> pos,
                   nxt |-> IF pos = HEAD THEN HEAD ELSE Succ(timers_queue, pos)]
      /\ started' = NULL
      /\ UNCHANGED <<heap, timers_queue, client>>

EndSweep ==
  /\ sweep.pc = "visit" /\ sweep.pos = HEAD
  /\ sweep' = [sweep EXCEPT !.pc = "sleep"]
  /\ started' = NULL
  /\ UNCHANGED <<heap, locked, timers_queue, client>>

timers_start == \/ AdvanceTick \/ BeginSweep \/ Visit \/ Sweep \/ LeaveTimer
                \/ EndSweep

Next == timers_start \/ \E c \in Clients : Client(c)

Spec == Init /\ [][Next]_vars

\* The thread of timers_start never ends, and a client that is inside a timer
\* leaves it: both are a few instructions away from their next step.
Fairness == /\ WF_vars(timers_start)
            /\ \A c \in Clients : WF_vars(Cancel(c) \/ Release(c))

FairSpec == Spec /\ Fairness

-----------------------------------------------------------------------------
(* Properties *)

SweepType == [pc : {"sleep", "ready", "visit", "inside", "leaving"},
              pos : Addr \cup {HEAD}, nxt : Addr \cup {HEAD}]

ClientType == [pc : {"idle", "new", "cancel", "release"}, ptr : Addr \cup {NULL}]

\* The walk never goes to the null pointer that queue_del leaves in a node:
\* pos and p are nodes or the head of the queue.
TypeOK == /\ heap \in [Addr -> Timer \cup {NULL}]
          /\ locked \in [Addr -> BOOLEAN]
          /\ timers_queue \in Seq(Addr)
          /\ sweep \in SweepType
          /\ client \in [Clients -> ClientType]
          /\ started \in Addr \cup {NULL}

InTimer(c) == client[c].pc \in {"cancel", "release"}

\* A thread inside cancel or release has the lock of its timer to itself.  The
\* sweep unlocks the mutex of a timer it has deleted, whose memory may be a new
\* timer by then; that it takes the lock from nobody is due to norm_mutex,
\* which keeps the pointer to the new timer from its client until the sweep is
\* over.
TimerLockExclusive ==
  \A c \in Clients : InTimer(c) =>
    /\ locked[client[c].ptr]
    /\ ~(sweep.pc \in {"inside", "leaving"} /\ sweep.pos = client[c].ptr)
    /\ \A d \in Clients \ {c} : InTimer(d) => client[d].ptr # client[c].ptr

\* Whatever a sweep deletes between two steps of a client, the pointer that a
\* client holds is that of a timer, and of no timer that another one holds.
PointersAreLive ==
  \A c \in Clients : client[c].ptr # NULL =>
    /\ heap[client[c].ptr] # NULL
    /\ \A d \in Clients \ {c} : client[d].ptr # client[c].ptr

\* The queue links no deleted timer and none twice, so every node the walk
\* goes to, and the one it has saved, is a timer.
SweepStaysOnQueue ==
  /\ \A i \in DOMAIN timers_queue : heap[timers_queue[i]] # NULL
  /\ \A i, j \in DOMAIN timers_queue :
       timers_queue[i] = timers_queue[j] => i = j
  /\ sweep.pc \in {"visit", "inside"} =>
       sweep.pos \in Range(timers_queue) \cup {HEAD}
  /\ NormHeld => sweep.nxt \in Range(timers_queue) \cup {HEAD}

\* What a timer is to its users.
Status(a) ==
  IF a \notin Range(timers_queue) THEN "none"
  ELSE IF heap[a].cancelled THEN "cancelled"
  ELSE IF heap[a].refcnt = 0 THEN "released"
  ELSE "armed"

Service == INSTANCE TimerService
             WITH Timer <- Addr, NoTimer <- NULL,
                  timer <- [a \in Addr |-> Status(a)], started <- started

\* The threads, locks and reused blocks implement TimerService: a handler
\* starts only for a timer that was cancelled, in the step that takes the
\* timer away, and a timer that was released or is Oneshot never leaves.
ImplementsService == Service!SSpec

\* A timer that was cancelled leaves the queue, whatever the clients do and
\* however long the queue is.
CancelledTimersLeave ==
  \A a \in Addr : Status(a) = "cancelled" ~> Status(a) # "cancelled"

=============================================================================
