------------------------------- MODULE Caller -------------------------------
(***************************************************************************)
(* Threads inside the blocking calls of the kernel's objects: what a call  *)
(* that waits for a mailbox, a message queue, an event, a memory block or  *)
(* a driver's queue shares with the others.  Each of these functions is a  *)
(* loop: with interrupts disabled it tests the object; if it must wait it  *)
(* suspends its thread, starts the thread timer when a time is given,      *)
(* enables interrupts and calls rt_schedule; when the thread runs again it *)
(* returns thread->error or tests the object again.  A module of an object *)
(* EXTENDS this one with the steps of its calls.                           *)
(*                                                                         *)
(* An interrupt handler that calls the kernel is one step that ends with   *)
(* its rt_schedule; it may come between any two steps of a thread.         *)
(* thread->error is followed from where a call suspends its thread to      *)
(* where that call reads it; nothing else reads it.                        *)
(***************************************************************************)
EXTENDS RtKernel

CONSTANTS
  Uses,  \* the ways in which the objects are used, of which a behaviour takes one
  None   \* no call, no value, RT_NULL

AllTimes == {"none", "timed", "forever"}

ASSUME CallerAssumption ==
  \A u \in Uses : /\ u.calls[Idle] = {}
                  /\ u.times \subseteq AllTimes
                  /\ u.flag \in {"FIFO", "PRIO"}

VARIABLES
  k,      \* the kernel state
  pc,     \* where each thread is
  call,   \* the call each thread is in: what it does, with which argument and time
  got,    \* the object and the value a call is about to return
  alive,  \* the objects that are not detached
  use     \* calls: what each thread calls; handler: what an interrupt handler calls;
          \* times: the waits in use; flag: RT_IPC_FLAG_FIFO or RT_IPC_FLAG_PRIO, given
          \* to the objects that have one; left: see module OneNet

caller == <<k, pc, call, got, alive, use>>

CallerInit(objects) ==
  /\ k = BootKernel
  /\ pc = [t \in Thread |-> "run"]
  /\ call = [t \in Thread |-> None]
  /\ got = [t \in Thread |-> None]
  /\ alive = objects
  /\ use \in Uses

-----------------------------------------------------------------------------
At(t, p) == k.cur = t /\ pc[t] = p

\* The code of an object is stepped by the thread that runs, or by a handler
Running == {k.cur}

Goto(t, p) == pc' = [pc EXCEPT ![t] = p]

\* What the running thread may be calling, of ops
Calls(ops, args) == [op : ops \cap use.calls[k.cur], arg : args, time : AllTimes]

\* Thread t calls op on object o, or c
Starts(t, op, o) == At(t, "run") /\ op \in use.calls[t] /\ o \in alive
Enters(t, c, o) == Starts(t, c.op, o) /\ c.time \in use.times

\* timeout -= tick_delta: what is left may be nothing
Remaining(c) ==
  {c} \cup {[c EXCEPT !.time = "none"] : x \in {y \in {c.time} : y = "timed"}}

\* ... is back in the loop after it was resumed without an error
Again(t, c) == At(t, "again") /\ k.err[t] = "EOK" /\ c \in Remaining(call[t])

\* At the loop's test, for the first time or again
Tests(t, c, o) == Enters(t, c, o) \/ Again(t, c)

\* The end of an iteration that waits; kk is the kernel with t on its list
Block(t, c, kk) ==
  /\ k' = IF c.time = "timed" THEN StartTimer(kk, t) ELSE kk
  /\ call' = [call EXCEPT ![t] = c]
  /\ Goto(t, "schedule")
  /\ UNCHANGED <<got, alive, use>>

\* rt_ipc_list_suspend on list w, thread->error reset before
WaitOn(t, c, w) == Block(t, c, ListSuspend([k EXCEPT !.err[t] = "EOK"], w, t, use.flag))

CallSchedule(t) ==
  /\ At(t, "schedule")
  /\ k' = Schedule(k)
  /\ Goto(t, "again")
  /\ UNCHANGED <<call, got, alive, use>>

\* Resumed by a timeout or a reset: the call returns thread->error
Fail(t) ==
  /\ call' = [call EXCEPT ![t] = None]
  /\ Goto(t, "run")
  /\ UNCHANGED <<k, got, alive, use>>

Failed(t) == At(t, "again") /\ k.err[t] # "EOK"

\* A call that must not wait (any more) returns an error
Refuse(t) ==
  /\ call' = [call EXCEPT ![t] = None]
  /\ Goto(t, "run")
  /\ UNCHANGED <<k, got, alive, use>>

(***************************************************************************)
(* The call has done its work: with rt_schedule before it returns if it    *)
(* woke a thread, with a value v if it has one to return.                  *)
(***************************************************************************)
Finish(t, woke, v) ==
  /\ call' = [call EXCEPT ![t] = None]
  /\ got' = [got EXCEPT ![t] = v]
  /\ Goto(t, IF woke THEN "post" ELSE IF v # None THEN "ret" ELSE "run")
  /\ UNCHANGED <<alive, use>>

PostSchedule(t) ==
  /\ At(t, "post")
  /\ k' = Schedule(k)
  /\ got' = [got EXCEPT ![t] = None]
  /\ Goto(t, "run")
  /\ UNCHANGED <<call, alive, use>>

Return(t) ==
  /\ At(t, "ret")
  /\ got' = [got EXCEPT ![t] = None]
  /\ Goto(t, "run")
  /\ UNCHANGED <<k, call, alive, use>>

\* Wake the first waiter of list w, if there is one
WakeOne(kk, w) == IF kk.wait[w] # <<>> THEN ResumeFirst(kk, w) ELSE kk

\* rt_ipc_list_resume_all with interrupts disabled throughout: the first waiter, the
\* next one and so on
WakeAllFailed(kk, w) ==
  FoldLeft(LAMBDA kw, t : Resume([kw EXCEPT !.err[t] = "ERROR"], t), kk, kk.wait[w])

(***************************************************************************)
(* Detaching an object o, by the call op: rt_ipc_list_resume_all on each of its lists, as  *)
(* rt_sem_detach does (module Semaphore): the list is tested with          *)
(* interrupts enabled and one waiter is woken with them disabled; a list   *)
(* that is empty by then has no first waiter and the model stops there.    *)
(***************************************************************************)
Detach(t, op, o, lists) ==
  /\ Starts(t, op, o)
  /\ call' = [call EXCEPT ![t] = [op |-> o, arg |-> lists, time |-> "none"]]
  /\ Goto(t, "detach")
  /\ UNCHANGED <<k, got, alive, use>>

\* The lists that are still to be emptied
Left(t) == call[t].arg

ListTest(t) ==
  /\ At(t, "detach") /\ Left(t) # <<>>
  /\ IF k.wait[Head(Left(t))] # <<>>
       THEN Goto(t, "wake") /\ UNCHANGED call
       ELSE call' = [call EXCEPT ![t].arg = Tail(@)] /\ UNCHANGED pc
  /\ UNCHANGED <<k, got, alive, use>>

ListWake(t) ==
  /\ At(t, "wake")
  /\ k.wait[Head(Left(t))] # <<>>
  /\ k' = ResumeFailed(k, Head(Left(t)))
  /\ Goto(t, "detach")
  /\ UNCHANGED <<call, got, alive, use>>

DetachObject(t) ==
  /\ At(t, "detach") /\ Left(t) = <<>> /\ call[t].op \in alive
  /\ alive' = alive \ {call[t].op}
  /\ call' = [call EXCEPT ![t] = None]
  /\ Goto(t, "run")
  /\ UNCHANGED <<k, got, use>>

-----------------------------------------------------------------------------
\* rt_thread_timeout, from rt_timer_check
Expire(t) ==
  /\ k.timer[t]
  /\ k' = Schedule(Timeout(k, t))
  /\ UNCHANGED <<pc, call, got, alive, use>>

\* rt_tick_increase at the end of the running thread's slice
Tick ==
  /\ Rotate(k) # k
  /\ k' = Schedule(Rotate(k))
  /\ UNCHANGED <<pc, call, got, alive, use>>

\* rt_thread_sleep up to its rt_schedule
Sleep(t) ==
  /\ At(t, "run") /\ "sleep" \in use.calls[t]
  /\ k' = StartTimer(Suspend(k, t), t)
  /\ Goto(t, "post")
  /\ UNCHANGED <<call, got, alive, use>>

\* The steps that no object has a part in
CallerStep ==
  \/ Tick
  \/ \E t \in Thread : Expire(t)
  \/ \E t \in Running :
       \/ CallSchedule(t) \/ PostSchedule(t) \/ Return(t)
       \/ ListTest(t) \/ DetachObject(t)
       \/ ListWake(t) /\ call[t].op # "mp"
       \/ Sleep(t)

-----------------------------------------------------------------------------
CallerType(labels) ==
  /\ KernelInv(k, {})
  /\ pc \in [Thread -> labels \cup
               {"run", "schedule", "again", "post", "ret", "detach", "wake"}]
  /\ DOMAIN call = Thread
  /\ \A t \in Thread : k.stat[t] = "suspend" => pc[t] \in {"schedule", "again", "post", "run"}

\* Threads in the calls ops that were resumed for what they wait for and have not
\* looked at the object again
Underway(ops) ==
  {t \in Thread : /\ pc[t] \in {"schedule", "again"} /\ call[t].op \in ops
                  /\ k.stat[t] = "ready" /\ k.err[t] = "EOK"}

\* What the calls on object o are returning
Taken(o) == [t \in Thread |-> IF got[t] # None /\ got[t].from = o THEN got[t].value ELSE None]
=============================================================================
