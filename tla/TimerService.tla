----------------------------- MODULE TimerService -----------------------------
(***************************************************************************)
(* What the timer queue of src/timer.cpp amounts to for its users, with no *)
(* threads, locks or memory in it.                                         *)
(*                                                                         *)
(* A timer that is cancelled leaves at a later sweep, and only then may    *)
(* its handler be started, once.  A timer that is released, and a Oneshot  *)
(* timer, which nobody holds from the start, stays for ever and its        *)
(* handler never runs.                                                     *)
(***************************************************************************)
CONSTANTS Timer,    \* the names of timers; a name is used again after Collect
          NoTimer   \* not the name of a timer

VARIABLES
  timer,    \* what has become of each timer
  started   \* the timer whose handler the last step started, or NoTimer

svars == <<timer, started>>

SInit == /\ timer = [t \in Timer |-> "none"]
         /\ started = NoTimer

Becomes(t, from, to) == timer[t] = from /\ timer' = [timer EXCEPT ![t] = to]

Arm(t) == Becomes(t, "none", "armed") /\ started' = NoTimer

ArmOneshot(t) == Becomes(t, "none", "released") /\ started' = NoTimer

Release(t) == Becomes(t, "armed", "released") /\ started' = NoTimer

Cancel(t) == Becomes(t, "armed", "cancelled") /\ started' = NoTimer

Collect(t) == Becomes(t, "cancelled", "none") /\ started' \in {NoTimer, t}

\* A step of a user or of the sweep that no one can tell from the outside.
Quiet == UNCHANGED timer /\ started' = NoTimer

SNext == \/ \E t \in Timer : \/ Arm(t) \/ ArmOneshot(t) \/ Release(t)
                             \/ Cancel(t) \/ Collect(t)
         \/ Quiet

SSpec == SInit /\ [][SNext]_svars
=============================================================================
