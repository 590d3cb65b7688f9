------------------------------- MODULE TimerMC -------------------------------
(***************************************************************************)
(* Instances of Timer for TLC: two hard timers beside the timer thread's   *)
(* own, and two soft timers.                                               *)
(***************************************************************************)
EXTENDS Timer

CONSTANTS g, h, delay, s1, s2, app, thread, null

MCHard == {g, h, delay}
MCSoft == {s1, s2}
MCCreated == [t \in MCHard \cup MCSoft |-> [init |-> IF t = g THEN 2 ELSE 1, periodic |-> FALSE]]

Use(timers, command, callback) ==
  [ctrl |-> [c \in {app} |-> timers],
   command |-> [t \in MCHard \cup MCSoft |-> IF t \in DOMAIN command THEN command[t] ELSE {}],
   callback |-> [t \in MCHard \cup MCSoft |-> IF t \in DOMAIN callback THEN callback[t] ELSE {}]]

Period == {[init |-> 1, periodic |-> TRUE], [init |-> 2, periodic |-> FALSE]}

\* The function of h stops h, or starts and stops g
HardUse == Use({h}, h :> Period, h :> {<<"stop", h>>, <<"start", g>>, <<"stop", g>>})
\* The function of s1 stops s1 or starts s2
SoftUse == Use({s1}, s1 :> Period, s1 :> {<<"stop", s1>>, <<"start", s2>>})
\* A hard and a soft timer
BothUse == Use({h, s1}, <<>>, <<>>)

MCUses == {HardUse, SoftUse, BothUse}

\* What the theorems of Timer_proofs ask of a use
ASSUME MCUsesExclusive == \A u \in MCUses : Exclusive(u)

\* The function of s1 stops s2
StopUses == {Use({s1, s2}, <<>>, s1 :> {<<"stop", s2>>})}
=============================================================================
