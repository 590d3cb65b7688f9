-------------------------- MODULE AbstractSemaphore --------------------------
(***************************************************************************)
(* What a counting semaphore promises its users: a release hands its       *)
(* permit to the waiter whose turn it is, or keeps it when nobody waits;   *)
(* a permit handed to a waiter cannot be taken by anybody else.            *)
(***************************************************************************)
EXTENDS Integers, SequencesExt

CONSTANTS
  Thread,   \* the users
  Urgency   \* their priorities, 0 is the most urgent

VARIABLES
  flag,     \* "FIFO" or "PRIO": whose turn it is
  avail,    \* permits nobody holds
  waiting,  \* the waiting threads in the order they came
  granted,  \* threads that were handed a permit and have not returned with it
  failed    \* threads that stopped waiting without a permit

vars == <<flag, avail, waiting, granted, failed>>

Init ==
  /\ flag \in {"FIFO", "PRIO"}
  /\ avail \in Nat
  /\ waiting = <<>>
  /\ granted = {}
  /\ failed = {}

\* The position of the thread whose turn it is
Turn ==
  LET better(i, j) == Urgency[waiting[i]] < Urgency[waiting[j]]
  IN  IF flag = "FIFO" THEN 1
      ELSE Min({i \in DOMAIN waiting : \A j \in DOMAIN waiting : ~better(j, i)})

Acquire ==
  /\ avail > 0
  /\ avail' = avail - 1
  /\ UNCHANGED <<waiting, granted, failed>>

Block(t) ==
  /\ avail = 0
  /\ ~Contains(waiting, t)
  /\ waiting' = Append(waiting, t)
  /\ UNCHANGED <<avail, granted, failed>>

Post ==
  \/ /\ waiting = <<>>
     /\ avail' = avail + 1
     /\ UNCHANGED <<waiting, granted, failed>>
  \/ /\ waiting # <<>>
     /\ granted' = granted \cup {waiting[Turn]}
     /\ waiting' = RemoveAt(waiting, Turn)
     /\ UNCHANGED <<avail, failed>>

GiveUp(t) ==
  /\ Contains(waiting, t)
  /\ waiting' = RemoveFirst(waiting, t)
  /\ failed' = failed \cup {t}
  /\ UNCHANGED <<avail, granted>>

Return(t) ==
  /\ t \in granted \cup failed
  /\ granted' = granted \ {t}
  /\ failed' = failed \ {t}
  /\ UNCHANGED <<avail, waiting>>

Reset ==
  /\ avail' \in Nat
  /\ failed' = failed \cup ToSet(waiting)
  /\ waiting' = <<>>
  /\ UNCHANGED granted

Next ==
  /\ \/ Acquire \/ Post \/ Reset
     \/ \E t \in Thread : Block(t) \/ GiveUp(t) \/ Return(t)
  /\ UNCHANGED flag

Spec == Init /\ [][Next]_vars
=============================================================================
