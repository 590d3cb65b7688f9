------------------------------ MODULE Completion ------------------------------
(***************************************************************************)
(* The completions of the drivers (completion.c): a flag that one thread   *)
(* waits for and that a handler or another thread sets.                    *)
(***************************************************************************)
EXTENDS Caller

ASSUME CompletionAssumption == "cp" \in WaitList

VARIABLE cp  \* flag is RT_COMPLETED; history: the rt_completion_done that counted and
             \* that no wait has answered yet

CpInit == cp = [flag |-> FALSE, owed |-> 0]

WaitDone == Calls({"cp_wait"}, {None})

\* rt_completion_wait
CpWaitDone(t, c) ==
  /\ Enters(t, c, "cp")
  /\ cp.flag
  /\ cp' = [flag |-> FALSE, owed |-> cp.owed - 1]
  /\ UNCHANGED k
  /\ Finish(t, FALSE, None)

\* ... "only one thread can suspend on complete"
CpWait(t, c) ==
  /\ Enters(t, c, "cp")
  /\ ~cp.flag /\ c.time # "none" /\ k.wait["cp"] = <<>>
  /\ Block(t, c, ListSuspend([k EXCEPT !.err[t] = "EOK"], "cp", t, "FIFO"))
  /\ UNCHANGED cp

CpWaitRefused(t, c) ==
  /\ Enters(t, c, "cp")
  /\ ~cp.flag /\ c.time = "none"
  /\ Refuse(t)
  /\ UNCHANGED cp

BadCpReturn(t) ==
  /\ At(t, "again") /\ call[t].op = "cp_wait"
  /\ cp' = [cp EXCEPT !.owed = IF k.err[t] = "EOK" THEN @ - 1 ELSE 0]
  /\ UNCHANGED k
  /\ Finish(t, FALSE, None)

\* ... running again the flag is cleaned, after a timeout too: a done that came between
\* the timeout and here is forgotten
CpReturn(t) ==
  /\ At(t, "again") /\ call[t].op = "cp_wait"
  /\ cp' = [flag |-> FALSE, owed |-> IF k.err[t] = "EOK" THEN cp.owed - 1 ELSE 0]
  /\ UNCHANGED k
  /\ Finish(t, FALSE, None)

\* rt_completion_done finds the flag set and returns, or goes on
CpDoneTest(t) ==
  /\ Starts(t, "cp_done", "cp")
  /\ ~cp.flag
  /\ Goto(t, "done")
  /\ UNCHANGED <<k, call, got, alive, use, cp>>

Completed == [flag |-> TRUE, owed |-> IF cp.flag THEN cp.owed ELSE cp.owed + 1]

CpDone(t) ==
  /\ At(t, "done")
  /\ cp' = Completed
  /\ k' = WakeOne(k, "cp")
  /\ Finish(t, k.wait["cp"] # <<>>, None)

\* rt_completion_done in an interrupt handler
CpIsrDone ==
  /\ "cp_done" \in use.handler /\ ~cp.flag
  /\ cp' = Completed
  /\ k' = IF k.wait["cp"] # <<>> THEN Schedule(WakeOne(k, "cp")) ELSE k
  /\ UNCHANGED <<pc, call, got, alive, use>>

CpNext ==
  \/ \E t \in Running :
       \/ \E c \in WaitDone : CpWaitDone(t, c) \/ CpWait(t, c) \/ CpWaitRefused(t, c)
       \/ CpReturn(t) \/ CpDoneTest(t) \/ CpDone(t)
  \/ CpIsrDone

-----------------------------------------------------------------------------
CpType == cp.flag \in BOOLEAN /\ cp.owed \in Int

\* rt_completion_done sets the flag and wakes in one: nobody waits for a set flag
CpNobodyStranded == k.wait["cp"] # <<>> => ~cp.flag

\* The threads that wait, also in a write to a serial device
CpWaiters == {t \in Thread : use.calls[t] \cap {"cp_wait", "sr_write"} # {}}

\* With one waiter, as the drivers have: each rt_completion_done that finds the flag clear
\* lets rt_completion_wait pass once, then or later, except one that comes between a
\* timeout and the waiter's return
CpOnePerDone ==
  Cardinality(CpWaiters) = 1 => cp.owed = (IF cp.flag THEN 1 ELSE 0)
=============================================================================
