------------------------------ MODULE Semaphore ------------------------------
(***************************************************************************)
(* One semaphore of ipc.c, used by threads and by interrupt handlers.      *)
(* Each step is what a function does between disabling and enabling        *)
(* interrupts; the call of rt_schedule that follows, and the test of       *)
(* thread->error when the thread runs again, are steps of their own.       *)
(***************************************************************************)
EXTENDS RtKernel

CONSTANTS
  User,       \* threads that take and release
  Detacher,   \* threads that may detach or delete the semaphore
  Handlers,   \* TRUE if an interrupt handler releases the semaphore
  Times,      \* waits in use: a subset of {"forever", "timed"}
  Resets,     \* values given to RT_IPC_CMD_RESET
  Flags,      \* a subset of {"FIFO", "PRIO"}: the RT_IPC_FLAG_s given to rt_sem_init
  InitValue,  \* the value given to rt_sem_init
  ValueRange, \* number of values of sem->value, 2^16 for rt_uint16_t
  MaxValue    \* bound: sem->value is not increased from here

ASSUME SemaphoreAssumption ==
  /\ User \subseteq Thread \ {Idle}
  /\ Detacher \subseteq Thread
  /\ Handlers \in BOOLEAN
  /\ Times \subseteq {"forever", "timed"}
  /\ ValueRange \in Nat \ {0}
  /\ InitValue \in 0..(ValueRange - 1)
  /\ Resets \subseteq 0..(ValueRange - 1)
  /\ Flags \subseteq {"FIFO", "PRIO"}
  /\ MaxValue \in Nat
  /\ WaitList = {"sem"}

VARIABLES
  k,        \* the kernel state
  pc,       \* where each thread is
  isr,      \* "schedule" while a handler has yet to call rt_schedule, "masked" while
            \* a thread keeps interrupts disabled
  value,    \* sem->value
  flag,     \* sem->parent.parent.flag
  alive,    \* FALSE once rt_sem_detach or rt_sem_delete is through
  balance,  \* history: permits ever put in less permits ever taken out
  arrived   \* history: the waiting threads in the order they came

vars == <<k, pc, isr, value, flag, alive, balance, arrived>>

PC == {"run", "schedule", "return", "post", "reset", "detach", "wake", "gone"}

Init ==
  /\ k = BootKernel
  /\ pc = [t \in Thread |-> "run"]
  /\ isr = "none"
  /\ value = InitValue
  /\ flag \in Flags
  /\ alive = TRUE
  /\ balance = InitValue
  /\ arrived = <<>>

-----------------------------------------------------------------------------
At(t, p) == k.cur = t /\ isr = "none" /\ pc[t] = p

Goto(t, p) == pc' = [pc EXCEPT ![t] = p]

(***************************************************************************)
(* rt_sem_take.  With no permit and time = 0 it returns -RT_ETIMEOUT and   *)
(* changes nothing.                                                        *)
(***************************************************************************)
TakeNow(t) ==
  /\ At(t, "run") /\ t \in User /\ alive
  /\ value > 0
  /\ value' = value - 1
  /\ balance' = balance - 1
  /\ UNCHANGED <<k, pc, isr, alive, arrived, flag>>

TakeBlock(t, time) ==
  /\ At(t, "run") /\ t \in User /\ alive
  /\ value = 0
  /\ LET s == ListSuspend([k EXCEPT !.err[t] = "EOK"], "sem", t, flag)
     IN  k' = IF time = "timed" THEN StartTimer(s, t) ELSE s
  /\ arrived' = Append(arrived, t)
  /\ Goto(t, "schedule")
  /\ UNCHANGED <<isr, value, alive, balance, flag>>

TakeSchedule(t) ==
  /\ At(t, "schedule")
  /\ k' = Schedule(k)
  /\ Goto(t, "return")
  /\ UNCHANGED <<isr, value, alive, balance, arrived, flag>>

\* Running again: thread->error tells a permit from a timeout or a reset
TakeReturn(t) ==
  /\ At(t, "return")
  /\ balance' = IF k.err[t] = "EOK" THEN balance - 1 ELSE balance
  /\ Goto(t, "run")
  /\ UNCHANGED <<k, isr, value, alive, arrived, flag>>

BadPost(woken) ==
  /\ alive /\ ~woken
  /\ value < MaxValue
  /\ value' = (value + 1) % ValueRange
  /\ balance' = balance + 1
  /\ UNCHANGED <<k, arrived>>

(***************************************************************************)
(* rt_sem_release, up to its rt_schedule: wake the first waiter, or count  *)
(* the permit.  woken tells whether rt_schedule is to be called.           *)
(***************************************************************************)
Post(woken) ==
  /\ alive
  /\ balance' = balance + 1
  /\ IF woken
       THEN /\ k.wait["sem"] # <<>>
            /\ k' = ResumeFirst(k, "sem")
            /\ arrived' = RemoveFirst(arrived, Head(k.wait["sem"]))
            /\ UNCHANGED value
       ELSE /\ k.wait["sem"] = <<>>
            /\ value < MaxValue
            /\ value' = (value + 1) % ValueRange
            /\ UNCHANGED <<k, arrived>>

Release(t, woken) ==
  /\ At(t, "run")
  /\ t \in User
  /\ Post(woken)
  /\ Goto(t, IF woken THEN "post" ELSE "run")
  /\ UNCHANGED <<isr, alive, flag>>

IsrRelease(woken) ==
  /\ Handlers
  /\ isr = "none"
  /\ Post(woken)
  /\ isr' = IF woken THEN "schedule" ELSE "none"
  /\ UNCHANGED <<pc, alive, flag>>

IsrSchedule ==
  /\ isr = "schedule"
  /\ isr' = "none"
  /\ k' = Schedule(k)
  /\ UNCHANGED <<pc, value, alive, balance, arrived, flag>>

\* The rt_schedule that ends rt_sem_release, rt_sem_control and rt_thread_sleep
PostSchedule(t) ==
  /\ At(t, "post")
  /\ k' = Schedule(k)
  /\ Goto(t, "run")
  /\ UNCHANGED <<isr, value, alive, balance, arrived, flag>>

\* Threads that hold a permit handed to them while they waited, and threads that
\* stopped waiting without one
Back == {t \in Thread : pc[t] \in {"schedule", "return"} /\ k.stat[t] = "ready"}
Granted == {t \in Back : k.err[t] = "EOK"}
Failed  == Back \ Granted

(***************************************************************************)
(* rt_sem_control(RT_IPC_CMD_RESET): interrupts stay disabled from the     *)
(* first waiter it wakes with an error to the new value.                   *)
(***************************************************************************)
Reset(t) ==
  /\ At(t, "run") /\ t \in User /\ alive
  /\ Resets # {}
  /\ isr' = "masked"
  /\ Goto(t, "reset")
  /\ UNCHANGED <<k, value, alive, balance, arrived, flag>>

Resetting(t) == k.cur = t /\ isr = "masked" /\ pc[t] = "reset"

ResetWake(t) ==
  /\ Resetting(t)
  /\ k.wait["sem"] # <<>>
  /\ k' = ResumeFailed(k, "sem")
  /\ arrived' = RemoveFirst(arrived, Head(k.wait["sem"]))
  /\ UNCHANGED <<pc, isr, value, alive, balance, flag>>

ResetValue(t, v) ==
  /\ Resetting(t)
  /\ k.wait["sem"] = <<>>
  /\ value' = v
  /\ balance' = v + Cardinality(Granted)
  /\ isr' = "none"
  /\ Goto(t, "post")
  /\ UNCHANGED <<k, alive, arrived, flag>>

(***************************************************************************)
(* rt_sem_detach and rt_sem_delete: rt_ipc_list_resume_all tests the list  *)
(* with interrupts enabled and wakes one waiter with them disabled.  A     *)
(* list that is empty by then has no first waiter; the model stops there.  *)
(* Nothing calls rt_schedule.                                              *)
(***************************************************************************)
Detach(t) ==
  /\ At(t, "run") /\ t \in Detacher /\ alive
  /\ Goto(t, "detach")
  /\ UNCHANGED <<k, isr, value, alive, balance, arrived, flag>>

DetachTest(t) ==
  /\ At(t, "detach")
  /\ Goto(t, IF k.wait["sem"] # <<>> THEN "wake" ELSE "gone")
  /\ UNCHANGED <<k, isr, value, alive, balance, arrived, flag>>

DetachWake(t) ==
  /\ At(t, "wake")
  /\ k.wait["sem"] # <<>>
  /\ k' = ResumeFailed(k, "sem")
  /\ arrived' = RemoveFirst(arrived, Head(k.wait["sem"]))
  /\ Goto(t, "detach")
  /\ UNCHANGED <<isr, value, alive, balance, flag>>

DetachObject(t) ==
  /\ At(t, "gone")
  /\ alive' = FALSE
  /\ Goto(t, "run")
  /\ UNCHANGED <<k, isr, value, balance, arrived, flag>>

-----------------------------------------------------------------------------
\* rt_timer_check finds a thread timer due: rt_thread_timeout
Expire(t) ==
  /\ isr = "none"
  /\ k.timer[t]
  /\ k' = Schedule(Timeout(k, t))
  /\ arrived' = RemoveFirst(arrived, t)
  /\ UNCHANGED <<pc, isr, value, alive, balance, flag>>

\* rt_tick_increase at the end of the running thread's slice; alone at its priority
\* the thread does not even schedule
Tick ==
  /\ isr = "none"
  /\ Rotate(k) # k
  /\ k' = Schedule(Rotate(k))
  /\ UNCHANGED <<pc, isr, value, alive, balance, arrived, flag>>

\* Between its calls a thread sleeps: rt_thread_sleep up to its rt_schedule
Sleep(t) ==
  /\ At(t, "run") /\ t \in User
  /\ k' = StartTimer(Suspend(k, t), t)
  /\ Goto(t, "post")
  /\ UNCHANGED <<isr, value, alive, balance, arrived, flag>>

Continue(t) ==
  \/ TakeSchedule(t) \/ TakeReturn(t) \/ PostSchedule(t)
  \/ ResetWake(t) \/ \E v \in Resets : ResetValue(t, v)
  \/ DetachTest(t) \/ DetachWake(t) \/ DetachObject(t)

Next ==
  \/ \E t \in Thread :
       \/ TakeNow(t)
       \/ \E time \in Times : TakeBlock(t, time)
       \/ \E woken \in BOOLEAN : Release(t, woken)
       \/ Reset(t)
       \/ Detach(t)
       \/ Sleep(t)
       \/ Continue(t)
       \/ Expire(t)
  \/ \E woken \in BOOLEAN : IsrRelease(woken)
  \/ IsrSchedule
  \/ Tick

Spec == Init /\ [][Next]_vars

(***************************************************************************)
(* Fairness: a thread dispatched again and again goes on with the call it  *)
(* is in, however often interrupts come in between; handlers end, the tick *)
(* keeps coming and an armed timer is due one day.                         *)
(***************************************************************************)
Fairness ==
  /\ \A t \in Thread : SF_vars(Continue(t)) /\ WF_vars(Expire(t))
  /\ WF_vars(IsrSchedule)
  /\ WF_vars(Tick)

FairSpec == Spec /\ Fairness

-----------------------------------------------------------------------------
\* Types of the variables; the kernel lists stay well formed throughout
TypeOK ==
  /\ KernelInv(k, {})
  /\ pc \in [Thread -> PC]
  /\ isr \in {"none", "schedule", "masked"}
  /\ value \in 0..(ValueRange - 1)
  /\ flag \in {"FIFO", "PRIO"}
  /\ alive \in BOOLEAN
  /\ balance \in Int
  /\ arrived \in Seq(Thread)

\* rt_sem_release and rt_sem_take neither lose nor invent a permit: what was put
\* in and not taken out is either counted or in the hands of a woken waiter
PermitsConserved == balance = value + Cardinality(Granted)

\* Nobody waits for a semaphore that has a permit (rt_sem_take decides and queues
\* in one critical section, rt_sem_release counts only when nobody waits)
NoWaiterWhileAvailable == value > 0 => k.wait["sem"] = <<>>

\* rt_ipc_list_suspend queues by arrival, and under RT_IPC_FLAG_PRIO by priority
\* first, so that rt_sem_release serves the waiter whose turn it is
WakeOrder ==
  LET s == k.wait["sem"]
      came(t) == CHOOSE i \in DOMAIN arrived : arrived[i] = t
  IN  /\ ToSet(s) = ToSet(arrived)
      /\ \A i, j \in DOMAIN s : i < j =>
           \/ flag = "PRIO" /\ k.prio[s[i]] < k.prio[s[j]]
           \/ /\ flag = "PRIO" => k.prio[s[i]] = k.prio[s[j]]
              /\ came(s[i]) < came(s[j])

\* A take that gives a time returns: of the most urgent thread, whatever the others
\* and the handlers do
TimedTakeReturns ==
  \A t \in User : InitPrio[t] = Min(Prio) =>
    (k.timer[t] /\ pc[t] \in {"schedule", "return"}) ~> pc[t] = "run"

\* First in, first out: while handlers keep releasing to waiters, each one is woken
FifoWaiterServed ==
  flag = "FIFO" /\ []<><<IsrRelease(TRUE)>>_vars =>
    \A t \in User : Contains(k.wait["sem"], t) ~> ~Contains(k.wait["sem"], t)

\* The counting semaphore of AbstractSemaphore
Abstract == INSTANCE AbstractSemaphore
  WITH Urgency <- InitPrio, avail <- value, waiting <- arrived,
       granted <- Granted, failed <- Failed

ImplementsSemaphore == Abstract!Spec

\* rt_ipc_list_resume_all wakes "all suspend threads" one by one: when it has seen
\* a waiter there is one to wake (violated when that waiter times out in between)
ResumeAllFindsWaiter ==
  \A t \in Thread : At(t, "wake") => k.wait["sem"] # <<>>
=============================================================================
