------------------------------ MODULE WorkQueue ------------------------------
(***************************************************************************)
(* A work queue of the drivers (workqueue.c): works that threads and       *)
(* handlers submit and one work thread runs in order.  The work thread     *)
(* tests the list and suspends itself in two steps with interrupts         *)
(* enabled, and a submitter links a work and resumes the work thread in    *)
(* two steps as well.  Delayed works, whose timer submits them, are left   *)
(* out, and so is rt_workqueue_cancel_work_sync on the running work, which *)
(* waits with interrupts disabled.                                         *)
(***************************************************************************)
EXTENDS Caller

CONSTANT Work

\* Works are submitted to a queue that rt_workqueue_create has made, with its one thread,
\* which runs works and does nothing else
ASSUME WorkQueueAssumption ==
  /\ None \notin Work
  /\ \A u \in Uses :
       /\ "wk_work" \notin u.handler
       /\ \A t \in Thread : "wk_work" \in u.calls[t] =>
            u.calls[t] = {"wk_work"} /\ \A x \in Thread \ {t} : "wk_work" \notin u.calls[x]
  /\ \A u \in Uses :
       (u.handler \cup UNION {u.calls[t] : t \in Thread}) \cap {"wk_submit", "wk_critical"} # {}
         => \E t \in Thread : "wk_work" \in u.calls[t]

VARIABLE wk  \* list is work_list, current work_current, pending the works whose
             \* RT_WORK_STATE_PENDING is set; history, missed: the work thread was resumed
             \* between its test and its suspension and has not picked a work since

WkInit == wk = [list |-> <<>>, current |-> None, pending |-> {}, missed |-> FALSE]

Worker == CHOOSE t \in Thread : "wk_work" \in use.calls[t]

-----------------------------------------------------------------------------
\* _workqueue_thread_entry: an empty list and the work thread is to suspend itself
WkTest(t) ==
  /\ Starts(t, "wk_work", "wk")
  /\ Goto(t, IF wk.list = <<>> THEN "wk_suspend" ELSE "wk_pick")
  /\ UNCHANGED <<k, call, got, alive, use, wk>>

WkSuspend(t) ==
  /\ At(t, "wk_suspend")
  /\ Block(t, [op |-> "wk_work", arg |-> None, time |-> "forever"], Suspend(k, t))
  /\ UNCHANGED wk

\* ... "we have work to do with": a list that is empty has no first work and the model
\* stops there
WkPicks(t) == At(t, "wk_pick") \/ (At(t, "again") /\ call[t].op = "wk_work")

WkPick(t) ==
  /\ WkPicks(t) /\ wk.list # <<>>
  /\ wk' = [list |-> Tail(wk.list), current |-> Head(wk.list),
            pending |-> wk.pending \ {Head(wk.list)}, missed |-> FALSE]
  /\ call' = [call EXCEPT ![t] = None]
  /\ Goto(t, "wk_do")
  /\ UNCHANGED <<k, got, alive, use>>

\* work_func is over; _workqueue_work_completion leaves the semaphore at 0 as it was
WkDone(t) ==
  /\ At(t, "wk_do")
  /\ wk' = [wk EXCEPT !.current = None]
  /\ Goto(t, "run")
  /\ UNCHANGED <<k, call, got, alive, use>>

-----------------------------------------------------------------------------
\* A work goes to the tail, from wherever it was linked
WkLinked(w) == [wk EXCEPT !.list = Append(RemoveFirst(@, w), w)]

Submitted(w) == [WkLinked(w) EXCEPT !.pending = @ \cup {w}]

WkBusy(w) == w \in wk.pending \/ wk.current = w

\* The work thread at the gap: rt_thread_resume finds it ready and does nothing
Gap == pc[Worker] = "wk_suspend"

\* _workqueue_submit_work, up to where it enables interrupts
WkSubmit(t, w) ==
  /\ Starts(t, "wk_submit", "wk") /\ ~WkBusy(w)
  /\ wk' = Submitted(w)
  /\ Goto(t, IF wk.current = None THEN "wk_resume" ELSE "run")
  /\ UNCHANGED <<k, call, got, alive, use>>

\* rt_workqueue_critical_work: at the tail too, and not pending
WkCritical(t, w) ==
  /\ Starts(t, "wk_critical", "wk") /\ wk.current # w
  /\ wk' = WkLinked(w)
  /\ Goto(t, IF wk.current = None THEN "wk_resume" ELSE "run")
  /\ UNCHANGED <<k, call, got, alive, use>>

BadWkResume(t) ==
  /\ At(t, "wk_resume")
  /\ UNCHANGED <<k, wk>>
  /\ Goto(t, "post")
  /\ UNCHANGED <<call, got, alive, use>>

\* ... resumes the work thread; its rt_schedule is PostSchedule.  The test of
\* rt_thread_resume, made with interrupts enabled, and its effect are one step: a handler
\* that resumes the thread between the two is the race that Scheduler shows
\* (ResumesSuspended)
WkResume(t) ==
  /\ At(t, "wk_resume")
  /\ k' = Resume(k, Worker)
  /\ wk' = [wk EXCEPT !.missed = @ \/ Gap]
  /\ Goto(t, "post")
  /\ UNCHANGED <<call, got, alive, use>>

\* The same from a handler
WkIsrSubmit(w) ==
  /\ "wk_submit" \in use.handler /\ ~WkBusy(w)
  /\ IF wk.current = None
       THEN /\ wk' = [Submitted(w) EXCEPT !.missed = @ \/ Gap]
            /\ k' = Schedule(Resume(k, Worker))
       ELSE wk' = Submitted(w) /\ UNCHANGED k
  /\ UNCHANGED <<pc, call, got, alive, use>>

\* rt_workqueue_cancel_work, and rt_workqueue_cancel_work_sync of a work that does not run
WkCancel(t, w) ==
  /\ Starts(t, "wk_cancel", "wk") /\ wk.current # w
  /\ wk' = [wk EXCEPT !.list = RemoveFirst(@, w), !.pending = @ \ {w}]
  /\ UNCHANGED caller

\* rt_workqueue_cancel_all_work: the works are unlinked and stay pending.  The loop runs with
\* the scheduler locked, so that it is one step among threads; interrupts stay enabled, and a
\* handler that submits in the middle of it is left out
WkCancelAll(t) ==
  /\ Starts(t, "wk_cancel_all", "wk")
  /\ wk' = [wk EXCEPT !.list = <<>>]
  /\ UNCHANGED caller

WkNext ==
  \/ \E t \in Running :
       \/ WkTest(t) \/ WkSuspend(t) \/ WkPick(t) \/ WkDone(t)
       \/ WkResume(t) \/ WkCancelAll(t)
       \/ \E w \in Work : WkSubmit(t, w) \/ WkCritical(t, w) \/ WkCancel(t, w)
  \/ \E w \in Work : WkIsrSubmit(w)

-----------------------------------------------------------------------------
WkType ==
  /\ wk \in [list : Seq(Work), current : Work \cup {None}, pending : SUBSET Work, missed : BOOLEAN]
  /\ Distinct(wk.list)

InUse(op) == op \in use.handler \/ \E t \in Thread : op \in use.calls[t]

\* A work is not queued while it runs, and RT_WORK_STATE_PENDING, which decides whether
\* _workqueue_submit_work takes it, says whether it is queued; but for the two calls that
\* do not keep the flag, rt_workqueue_critical_work and rt_workqueue_cancel_all_work
WkFlagsAgree ==
  /\ ~Contains(wk.list, wk.current)
  /\ ToSet(wk.list) \subseteq wk.pending \/ InUse("wk_critical")
  /\ wk.pending \subseteq ToSet(wk.list) \/ InUse("wk_cancel_all")

\* The work thread is suspended with a work queued only until a submitter that has linked
\* it resumes the thread, unless that resume came in the gap between the test and the
\* suspension of _workqueue_thread_entry
WkStallsOnlyInGap ==
  InUse("wk_work") /\ wk.list # <<>> /\ k.stat[Worker] = "suspend"
    => wk.missed \/ \E t \in Thread : pc[t] = "wk_resume"

\* What is submitted is done: it is queued exactly if the flag says so (rt_workqueue_submit_work
\* refuses it otherwise), and a queue with works in it does not sleep but for that gap
WkSound == WkFlagsAgree /\ WkStallsOnlyInGap

\* _workqueue_thread_entry, when it takes the first work: "we have work to do with"
WkHasWork == \A t \in Thread : WkPicks(t) => wk.list # <<>>
=============================================================================
