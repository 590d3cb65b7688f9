------------------------------ MODULE Scheduler ------------------------------
(***************************************************************************)
(* Thread management and scheduling: scheduler.c, thread.c, the defunct    *)
(* list of idle.c and the time slice of clock.c.  A step is what runs with *)
(* interrupts disabled.  A function that enables interrupts on its way is  *)
(* several steps, and pc[t] says where thread t, running or preempted, is  *)
(* in the function it called.  Interrupts (the tick, a thread timer, a     *)
(* device) are steps of their own.                                         *)
(*                                                                         *)
(* Calls says which thread the application lets make which call on which   *)
(* thread: the kernel does not protect a thread from every pair of         *)
(* concurrent calls, and WellBehaved names the pairs it relies on not to   *)
(* happen.                                                                 *)
(***************************************************************************)
EXTENDS RtKernel

CONSTANTS
  InitTick,  \* thread->init_tick, the length of a time slice
  MaxLock,   \* bound: nesting of rt_enter_critical
  Static,    \* static thread objects that have no cleanup function
  Calls      \* who may call what, see CallsAssumption

ASSUME CallsAssumption ==
  /\ InitTick \in Nat \ {0}
  /\ MaxLock \in Nat
  /\ Static \subseteq Thread
  /\ WaitList = {"defunct"}
  /\ Calls \in [starts : SUBSET (Thread \X Thread), resumes : SUBSET (Thread \X Thread),
                deletes : SUBSET (Thread \X Thread), reprios : SUBSET (Thread \X Thread),
                isrResumes : SUBSET Thread, sleeps : SUBSET Thread,
                suspends : SUBSET Thread, exits : SUBSET Thread, locks : SUBSET Thread]
  \* The idle thread never blocks, ends or is deleted and keeps its priority (nothing
  \* calls rt_thread_idle_gethandler), and nobody deletes itself
  /\ Idle \notin Calls.sleeps \cup Calls.suspends \cup Calls.exits \cup Static
  /\ \A t \in Thread : <<t, t>> \notin Calls.deletes
  /\ \A t \in Thread : <<t, Idle>> \notin Calls.deletes \cup Calls.reprios

VARIABLES
  k,          \* the kernel state
  pc,         \* where each thread is in the call it makes
  arg,        \* the thread that call is about
  isr,        \* "schedule" while an interrupt handler has yet to call rt_schedule
  remaining,  \* thread->remaining_tick
  stale,      \* a priority changed since the last effective rt_schedule
  freed       \* the threads whose stack and object idle has released

vars == <<k, pc, arg, isr, remaining, stale, freed>>

PC == {"run", "unlink", "insert", "schedule", "sleep", "awake",
       "untimer", "close", "bury", "free"}

Init ==
  /\ k = BootKernel
  /\ pc = [t \in Thread |-> "run"]
  /\ arg = [t \in Thread |-> t]
  /\ isr = "none"
  /\ remaining = [t \in Thread |-> InitTick]
  /\ stale = FALSE
  /\ freed = {}

-----------------------------------------------------------------------------
\* Thread t executes, at point p of its call
At(t, p) == k.cur = t /\ isr = "none" /\ pc[t] = p

Goto(t, p) == pc' = [pc EXCEPT ![t] = p]

\* A step that ends with rt_schedule
Dispatch(kk) ==
  /\ k' = Schedule(kk)
  /\ stale' = (stale /\ kk.lock # 0)

Alive(t) == k.stat[t] # "close"

\* rt_thread_startup: the new thread is made to look suspended, then resumed
Startup(t, u) ==
  /\ At(t, "run") /\ <<t, u>> \in Calls.starts
  /\ k.stat[u] = "init"
  /\ k' = [k EXCEPT !.prio[u] = InitPrio[u], !.stat[u] = "suspend"]
  /\ Goto(t, "unlink")
  /\ arg' = [arg EXCEPT ![t] = u]
  /\ UNCHANGED <<isr, remaining, stale, freed>>

\* rt_thread_resume: the state is tested with interrupts enabled
ResumeCheck(t, u) ==
  /\ At(t, "run") /\ <<t, u>> \in Calls.resumes
  /\ k.stat[u] = "suspend"
  /\ Goto(t, "unlink")
  /\ arg' = [arg EXCEPT ![t] = u]
  /\ UNCHANGED <<k, isr, remaining, stale, freed>>

ResumeUnlink(t) ==
  /\ At(t, "unlink")
  /\ k' = StopTimer(ListRemove(k, arg[t]), arg[t])
  /\ Goto(t, "insert")
  /\ UNCHANGED <<arg, isr, remaining, stale, freed>>

\* rt_schedule_insert_thread; the caller of rt_thread_resume then schedules
ResumeInsert(t) ==
  /\ At(t, "insert")
  /\ k' = InsertReady(k, arg[t])
  /\ Goto(t, "schedule")
  /\ UNCHANGED <<arg, isr, remaining, stale, freed>>

\* rt_schedule called by a thread
CallSchedule(t) ==
  /\ \/ At(t, "schedule") /\ Goto(t, "run")
     \/ At(t, "sleep") /\ Goto(t, "awake")
  /\ Dispatch(k)
  /\ UNCHANGED <<arg, isr, remaining, freed>>

\* rt_thread_suspend(rt_thread_self()), which rt_schedule must follow
SuspendSelf(t) ==
  /\ At(t, "run") /\ t \in Calls.suspends
  /\ k.lock = 0
  /\ k' = Suspend(k, t)
  /\ Goto(t, "schedule")
  /\ UNCHANGED <<arg, isr, remaining, stale, freed>>

\* rt_thread_sleep
Sleep(t) ==
  /\ At(t, "run") /\ t \in Calls.sleeps
  /\ k.lock = 0
  /\ k' = StartTimer(Suspend(k, t), t)
  /\ Goto(t, "sleep")
  /\ UNCHANGED <<arg, isr, remaining, stale, freed>>

\* Back from rt_schedule, rt_thread_sleep forgets the timeout
SleepReturn(t) ==
  /\ At(t, "awake")
  /\ k' = [k EXCEPT !.err[t] = IF @ = "ETIMEOUT" THEN "EOK" ELSE @]
  /\ Goto(t, "run")
  /\ UNCHANGED <<arg, isr, remaining, stale, freed>>

\* rt_thread_yield; alone at its priority the thread does not even schedule
Yield(t) ==
  /\ At(t, "run")
  /\ Rotate(k) # k
  /\ k' = Rotate(k)
  /\ Goto(t, "schedule")
  /\ UNCHANGED <<arg, isr, remaining, stale, freed>>

\* rt_thread_control(CHANGE_PRIORITY) does not call rt_schedule
SetPriority(t, u, p) ==
  /\ At(t, "run") /\ <<t, u>> \in Calls.reprios
  /\ Alive(u)
  /\ k' = ChangePriority(k, u, p)
  /\ stale' = TRUE
  /\ UNCHANGED <<pc, arg, isr, remaining, freed>>

(***************************************************************************)
(* rt_thread_delete and rt_thread_detach take the thread off its list,     *)
(* then its timer off the timer list, then close it, then bury it, with    *)
(* interrupts enabled in between.                                          *)
(***************************************************************************)
DeleteUnlink(t, u) ==
  /\ At(t, "run") /\ <<t, u>> \in Calls.deletes
  /\ Alive(u)
  /\ k' = IF k.stat[u] # "init" THEN RemoveReady(k, u) ELSE k
  /\ Goto(t, "untimer")
  /\ arg' = [arg EXCEPT ![t] = u]
  /\ UNCHANGED <<isr, remaining, stale, freed>>

DeleteTimer(t) ==
  /\ At(t, "untimer")
  /\ k' = StopTimer(k, arg[t])
  /\ Goto(t, "close")
  /\ UNCHANGED <<arg, isr, remaining, stale, freed>>

DeleteClose(t) ==
  /\ At(t, "close")
  /\ k' = [k EXCEPT !.stat[arg[t]] = "close"]
  /\ Goto(t, IF arg[t] \in Static THEN "run" ELSE "bury")
  /\ UNCHANGED <<arg, isr, remaining, stale, freed>>

Bury(kk, u) == [kk EXCEPT !.wait["defunct"] = <<u>> \o @]

DeleteBury(t) ==
  /\ At(t, "bury")
  /\ k' = Bury(k, arg[t])
  /\ Goto(t, "run")
  /\ UNCHANGED <<arg, isr, remaining, stale, freed>>

\* rt_thread_exit, reached when the entry function returns
Exit(t) ==
  /\ At(t, "run") /\ t \in Calls.exits
  /\ k.lock = 0
  /\ LET closed == StopTimer([RemoveReady(k, t) EXCEPT !.stat[t] = "close"], t)
     IN  k' = IF t \in Static THEN closed ELSE Bury(closed, t)
  /\ Goto(t, "schedule")
  /\ UNCHANGED <<arg, isr, remaining, stale, freed>>

EnterCritical(t) ==
  /\ At(t, "run") /\ t \in Calls.locks
  /\ k.lock < MaxLock
  /\ k' = [k EXCEPT !.lock = @ + 1]
  /\ UNCHANGED <<pc, arg, isr, remaining, stale, freed>>

BadExitCriticalUnderflow(t) ==
  /\ At(t, "run") /\ t \in Calls.locks
  /\ k' = [k EXCEPT !.lock = @ - 1]
  /\ UNCHANGED <<pc, arg, isr, remaining, stale, freed>>
BadExitCriticalNoSchedule(t) ==
  /\ At(t, "run") /\ t \in Calls.locks
  /\ k.lock > 0
  /\ k' = [k EXCEPT !.lock = @ - 1]
  /\ UNCHANGED <<pc, arg, isr, remaining, stale, freed>>

ExitCritical(t) ==
  /\ At(t, "run") /\ t \in Calls.locks
  /\ k.lock > 0
  /\ k' = [k EXCEPT !.lock = @ - 1]
  /\ Goto(t, IF k.lock = 1 THEN "schedule" ELSE "run")
  /\ UNCHANGED <<arg, isr, remaining, stale, freed>>

\* One call too many of rt_exit_critical: the nesting stays 0, and it schedules
ExitUnlocked(t) ==
  /\ At(t, "run") /\ t \in Calls.locks
  /\ k.lock = 0
  /\ Goto(t, "schedule")
  /\ UNCHANGED <<k, arg, isr, remaining, stale, freed>>

(***************************************************************************)
(* rt_thread_idle_excute: take a defunct thread off the list and run its   *)
(* cleanup inside rt_enter_critical/rt_exit_critical, all with interrupts  *)
(* disabled, then release its memory.                                      *)
(***************************************************************************)
Reap ==
  /\ At(Idle, "run")
  /\ k.wait["defunct"] # <<>>
  /\ LET u == Head(k.wait["defunct"])
     IN  /\ Dispatch(ListRemove(k, u))
         /\ arg' = [arg EXCEPT ![Idle] = u]
  /\ Goto(Idle, "free")
  /\ UNCHANGED <<isr, remaining, freed>>

Free ==
  /\ At(Idle, "free")
  /\ freed' = freed \cup {arg[Idle]}
  /\ Goto(Idle, "run")
  /\ UNCHANGED <<k, arg, isr, remaining, stale>>

-----------------------------------------------------------------------------
\* rt_tick_increase: the running thread uses up its slice and yields
Tick ==
  /\ isr = "none"
  /\ IF remaining[k.cur] = 1
       THEN /\ remaining' = [remaining EXCEPT ![k.cur] = InitTick]
            /\ IF Rotate(k) # k THEN Dispatch(Rotate(k)) ELSE UNCHANGED <<k, stale>>
       ELSE /\ remaining' = [remaining EXCEPT ![k.cur] = @ - 1]
            /\ UNCHANGED <<k, stale>>
  /\ UNCHANGED <<pc, arg, isr, freed>>

\* rt_timer_check, with interrupts disabled, finds the timer of thread u due
Expire(u) ==
  /\ isr = "none"
  /\ k.timer[u]
  /\ Dispatch(Timeout(k, u))
  /\ UNCHANGED <<pc, arg, isr, remaining, freed>>

\* A device handler resumes the thread that waits for it and schedules
IsrResume(u) ==
  /\ isr = "none"
  /\ u \in Calls.isrResumes
  /\ k.stat[u] = "suspend"
  /\ k' = Resume(k, u)
  /\ isr' = "schedule"
  /\ UNCHANGED <<pc, arg, remaining, stale, freed>>

IsrSchedule ==
  /\ isr = "schedule"
  /\ isr' = "none"
  /\ Dispatch(k)
  /\ UNCHANGED <<pc, arg, remaining, freed>>

-----------------------------------------------------------------------------
\* What thread t does next of its own will, and what it has to finish
Call(t) ==
  \/ \E u \in Thread : \/ Startup(t, u)
                       \/ ResumeCheck(t, u)
                       \/ DeleteUnlink(t, u)
                       \/ \E p \in Prio : SetPriority(t, u, p)
  \/ SuspendSelf(t)
  \/ Sleep(t)
  \/ Yield(t)
  \/ Exit(t)
  \/ EnterCritical(t)
  \/ ExitUnlocked(t)

Continue(t) ==
  \/ ResumeUnlink(t) \/ ResumeInsert(t)
  \/ CallSchedule(t) \/ SleepReturn(t)
  \/ DeleteTimer(t) \/ DeleteClose(t) \/ DeleteBury(t)
  \/ ExitCritical(t)

IdleLoop == Reap \/ Free

Next ==
  \/ \E t \in Thread : Call(t) \/ Continue(t)
  \/ IdleLoop
  \/ Tick
  \/ \E u \in Thread : Expire(u) \/ IsrResume(u)
  \/ IsrSchedule

Spec == Init /\ [][Next]_vars

(***************************************************************************)
(* Fairness: a running thread executes and leaves its critical sections,   *)
(* the idle thread gets on whenever it is dispatched often enough, the     *)
(* tick interrupt keeps coming, an armed timer is due one day, a handler   *)
(* ends.                                                                   *)
(***************************************************************************)
Fairness ==
  /\ \A t \in Thread : WF_vars(Continue(t))
  /\ SF_vars(IdleLoop)
  /\ WF_vars(Tick)
  /\ \A u \in Thread : WF_vars(Expire(u))
  /\ WF_vars(IsrSchedule)

FairSpec == Spec /\ Fairness

-----------------------------------------------------------------------------
(***************************************************************************)
(* The pairs of concurrent calls the kernel does not protect against: a    *)
(* thread is started, resumed, deleted or given a priority by one other    *)
(* thread only; interrupts resume none of those; a thread with a running   *)
(* timer is neither deleted nor resumed by a thread; a thread that may be  *)
(* deleted is not in the middle of such a call itself.                     *)
(***************************************************************************)
Controls == Calls.starts \cup Calls.resumes \cup Calls.deletes
              \cup {c \in Calls.reprios : c[1] # c[2]}
Targets(calls) == {c[2] : c \in calls}

WellBehaved ==
  /\ \A c, d \in Controls : c[2] = d[2] => c[1] = d[1]
  /\ \A c \in Controls : c[1] # c[2] /\ c[1] \notin Targets(Calls.deletes)
  /\ Calls.isrResumes \cap Targets(Calls.starts \cup Calls.resumes \cup Calls.deletes) = {}
  /\ Calls.sleeps \cap Targets(Calls.resumes \cup Calls.deletes) = {}

\* The threads rt_thread_delete has taken off their list and not closed yet
Limbo == {arg[t] : t \in {x \in Thread : pc[x] \in {"untimer", "close"}}}

\* Types of the variables, for every step of every call
TypeOK ==
  /\ KernelType(k)
  /\ pc \in [Thread -> PC]
  /\ arg \in [Thread -> Thread]
  /\ isr \in {"none", "schedule"}
  /\ remaining \in [Thread -> 1..InitTick]
  /\ stale \in BOOLEAN
  /\ freed \subseteq Thread

\* thread->tlist is one node: a thread is queued once, on the list its state
\* calls for (rt_schedule_insert_thread, rt_schedule_remove_thread, rt_thread_exit)
ThreadsQueuedOnce == ReadyListsExact(k, Limbo) /\ WaitListsExact(k, Limbo)

\* rt_thread_ready_table and rt_thread_ready_priority_group agree with the lists,
\* so that rt_schedule never takes a thread from an empty list
BitmapAgrees == BitmapExact(k)

\* rt_thread_timeout asserts that the thread it wakes is suspended
TimerOnlyWhileSuspended == TimersExact(k)

\* With the scheduler unlocked and no rt_schedule owed by a call in progress, the
\* running thread is the first of the highest ready priority
HighestRuns ==
  (/\ isr = "none" /\ k.lock = 0 /\ ~stale
   /\ pc[k.cur] \notin {"schedule", "sleep"})
    => RunsHighest(k)

\* Idle frees the stack of a thread only once nothing can run or wake it
\* (rt_thread_idle_excute)
FreedIsGone ==
  \A u \in freed :
    /\ k.cur # u /\ ~k.timer[u] /\ k.stat[u] = "close"
    /\ \A p \in Prio : ~Contains(k.ready[p], u)
    /\ ~Contains(k.wait["defunct"], u)

\* Unless a priority changes or it is deleted, thread t stays at the head of its list
\* for as long as it is ready and does not give its turn away
KeepsTurn(t) ==
  /\ k.stat[t] = "ready" /\ k'.stat[t] = "ready" /\ k.prio[t] = k'.prio[t]
  /\ k.ready[k.prio[t]] # <<>> /\ Head(k.ready[k.prio[t]]) = t
  /\ ~stale' /\ t \notin Limbo'
  => \/ Head(k'.ready[k.prio[t]]) = t
     \/ k.cur = t /\ (remaining[t] = 1 \/ pc'[t] = "schedule")

\* A preempted thread keeps its place at the head of its list, and loses it only
\* by its own rt_thread_yield or at the end of its slice (rt_tick_increase)
TurnKept == [][\A t \in Thread : KeepsTurn(t)]_vars

\* Between rt_enter_critical and rt_exit_critical nobody else gets the processor
CriticalKeepsProcessor == [][k.lock > 0 => k'.cur = k.cur]_vars

\* Threads of the highest priority share the processor (round robin)
RoundRobin ==
  \A t \in Thread : InitPrio[t] = Min(Prio) =>
    (k.stat[t] = "ready") ~> (k.cur = t \/ k.stat[t] # "ready")

\* Every thread that ends is reaped, provided idle keeps getting the processor
DefunctReaped == []<>(k.cur = Idle) => []<>(k.wait["defunct"] = <<>>)

-----------------------------------------------------------------------------
\* rt_thread_resume returns -RT_ERROR unless the thread is suspended, so that what
\* it puts on the ready list is a suspended thread (violated: the test is made
\* with interrupts enabled)
ResumesSuspended ==
  \A t \in Thread : pc[t] = "insert" => k.stat[arg[t]] = "suspend"
=============================================================================
