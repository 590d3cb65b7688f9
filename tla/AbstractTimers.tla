--------------------------- MODULE AbstractTimers ---------------------------
(***************************************************************************)
(* What the hard timers promise: a timer that is set to n ticks runs its   *)
(* function at the n-th tick, neither earlier nor later, the more overdue  *)
(* timers first; one that was cleared does not run.  Time is counted in    *)
(* ticks left and does not wrap.                                           *)
(***************************************************************************)
EXTENDS Integers

CONSTANTS
  Timers,   \* the timers
  Longest,  \* the most ticks a timer may be set to
  Latest,   \* the most ticks a timer may be overdue when it is set
  None

VARIABLES
  left,     \* ticks left of each timer, None if it is not set
  phase,    \* "fire" while the tick interrupt looks for due timers
  running   \* the timer whose function runs

vars == <<left, phase, running>>

Set == {t \in Timers : left[t] # None}

Init ==
  /\ left = [t \in Timers |-> None]
  /\ phase = "wait"
  /\ running = None

Tick ==
  /\ phase = "wait"
  /\ left' = [t \in Timers |-> IF t \in Set THEN left[t] - 1 ELSE None]
  /\ phase' = "fire"
  /\ UNCHANGED running

Fire(t) ==
  /\ phase = "fire" /\ running = None
  /\ t \in Set /\ left[t] <= 0
  /\ \A u \in Set : left[t] <= left[u]
  /\ left' = [left EXCEPT ![t] = None]
  /\ running' = t
  /\ UNCHANGED phase

Settle ==
  /\ phase = "fire" /\ running = None
  /\ \A t \in Set : left[t] > 0
  /\ phase' = "wait"
  /\ UNCHANGED <<left, running>>

\* Threads and timer functions set and clear timers; a function ends. A thread may be held
\* up while it sets a timer; what a timer function sets is not due at the same tick.
Adjust ==
  /\ DOMAIN left' = Timers
  /\ \A t \in Timers :
       \/ left'[t] \in {left[t], None}
       \/ left'[t] \in (IF phase = "fire" THEN 1 ELSE 0 - Latest)..Longest
  /\ running' \in {running, None}
  /\ UNCHANGED phase

Next ==
  \/ Tick
  \/ \E t \in Timers : Fire(t)
  \/ Settle
  \/ Adjust

Spec == Init /\ [][Next]_vars
=============================================================================
