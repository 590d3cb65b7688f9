------------------------------ MODULE RtKernel ------------------------------
(***************************************************************************)
(* The part of the RT-Thread kernel that every blocking object shares: the *)
(* ready lists and the two-level priority bitmap of scheduler.c, the       *)
(* thread states of thread.c, the suspend lists of ipc.c and the thread    *)
(* timers.  A kernel state is a record k with the fields                   *)
(*   cur    rt_current_thread                                              *)
(*   stat   thread->stat & RT_THREAD_STAT_MASK                             *)
(*   prio   thread->current_priority                                       *)
(*   ready  rt_thread_priority_table, one list per priority                *)
(*   table  the priorities whose bit is set in rt_thread_ready_table       *)
(*   group  the bits set in rt_thread_ready_priority_group                 *)
(*   wait   the other lists thread->tlist may be linked on: the suspend    *)
(*          lists of IPC objects and rt_thread_defunct                     *)
(*   timer  whether thread->thread_timer is on the system timer list       *)
(*   err    thread->error                                                  *)
(*   lock   rt_scheduler_lock_nest                                         *)
(* Every operator below is what one function does between disabling and    *)
(* enabling interrupts, so the modules that use it take it as one step.    *)
(* Time is abstract: an armed thread timer may expire in any later state   *)
(* in which interrupts are enabled.                                        *)
(*                                                                         *)
(* An operator whose name begins with Bad is not part of the model: it is  *)
(* the operator after it with a fault, for checking that the properties    *)
(* notice that fault.                                                      *)
(***************************************************************************)
EXTENDS Integers, FiniteSets, SequencesExt

CONSTANTS
  Thread,    \* the thread objects
  Idle,      \* the idle thread, which never blocks
  Prio,      \* the priorities in use, 0 is the most urgent
  InitPrio,  \* thread->init_priority
  WaitList,  \* names of the lists other than the ready lists
  Boot       \* the ready lists when rt_system_scheduler_start runs

Stat  == {"init", "ready", "suspend", "close"}
Error == {"EOK", "ETIMEOUT", "ERROR"}

Distinct(s) == \A i, j \in 1..Len(s) : s[i] = s[j] => i = j

Booted(t) == \E p \in Prio : Contains(Boot[p], t)

ASSUME KernelAssumption ==
  /\ IsFiniteSet(Thread)
  /\ Idle \in Thread
  /\ Prio \subseteq 0..255
  /\ InitPrio \in [Thread -> Prio]
  /\ Boot \in [Prio -> Seq(Thread)]
  /\ \A p \in Prio : Distinct(Boot[p])
  /\ \A p \in Prio, t \in Thread : Contains(Boot[p], t) => InitPrio[t] = p
  /\ Booted(Idle)

(***************************************************************************)
(* The bitmap: thread->number selects a row of eight priorities, the group *)
(* word has one bit per row (RT_THREAD_PRIORITY_MAX is 256).  __rt_ffs     *)
(* finds the lowest bit set.                                               *)
(***************************************************************************)
Row(p) == p \div 8
Ffs(bits) == Min(bits)

Highest(k) ==
  LET number == Ffs(k.group)
  IN  Ffs({p \in k.table : Row(p) = number})

(***************************************************************************)
(* rt_list_remove(&thread->tlist): off whichever list it is linked on; a   *)
(* node that is linked on none points to itself and nothing happens.       *)
(***************************************************************************)
BadListRemove(k, t) ==
  [k EXCEPT !.ready = [p \in Prio |-> RemoveFirst(k.ready[p], t)]]

ListRemove(k, t) ==
  [k EXCEPT !.ready = [p \in Prio |-> RemoveFirst(k.ready[p], t)],
            !.wait  = [w \in WaitList |-> RemoveFirst(k.wait[w], t)]]

BadInsertReady(k, t) ==
  LET p == k.prio[t]
  IN  [k EXCEPT !.stat[t]  = "ready",
                !.ready[p] = <<t>> \o @,
                !.table    = @ \cup {p},
                !.group    = @ \cup {Row(p)}]

\* rt_schedule_insert_thread
InsertReady(k, t) ==
  LET p == k.prio[t]
  IN  [k EXCEPT !.stat[t]  = "ready",
                !.ready[p] = Append(@, t),
                !.table    = @ \cup {p},
                !.group    = @ \cup {Row(p)}]

\* rt_schedule_remove_thread; it is also called on threads that are not ready
RemoveReady(k, t) ==
  LET l == ListRemove(k, t)
      p == k.prio[t]
      table == IF l.ready[p] = <<>> THEN k.table \ {p} ELSE k.table
      rowEmpty == l.ready[p] = <<>> /\ \A q \in table : Row(q) # Row(p)
  IN  [l EXCEPT !.table = table,
                !.group = IF rowEmpty THEN @ \ {Row(p)} ELSE @]

BadSchedule(k) == [k EXCEPT !.cur = Head(k.ready[Highest(k)])]

\* rt_schedule: choose the first thread of the highest ready priority
Schedule(k) ==
  IF k.lock = 0 THEN [k EXCEPT !.cur = Head(k.ready[Highest(k)])] ELSE k

\* rt_timer_control(SET_TIME) and rt_timer_start, rt_timer_stop, on a thread timer
StartTimer(k, t) == [k EXCEPT !.timer[t] = TRUE]
StopTimer(k, t)  == [k EXCEPT !.timer[t] = FALSE]

\* rt_thread_suspend: -RT_ERROR and no effect unless the thread is ready
Suspend(k, t) ==
  IF k.stat[t] = "ready"
    THEN StopTimer(RemoveReady([k EXCEPT !.stat[t] = "suspend"], t), t)
    ELSE k

\* rt_thread_resume, called with interrupts disabled
Resume(k, t) ==
  IF k.stat[t] = "suspend"
    THEN InsertReady(StopTimer(ListRemove(k, t), t), t)
    ELSE k

BadTimeoutTimer(k, t) ==
  InsertReady(ListRemove([k EXCEPT !.err[t] = "ETIMEOUT"], t), t)
BadTimeoutError(k, t) == InsertReady(ListRemove(StopTimer(k, t), t), t)
BadTimeoutLost(k, t) == ListRemove([StopTimer(k, t) EXCEPT !.err[t] = "ETIMEOUT"], t)

\* rt_thread_timeout, run by rt_timer_check when the thread timer is due, up to
\* the rt_schedule it ends with
Timeout(k, t) ==
  LET late == [StopTimer(k, t) EXCEPT !.err[t] = "ETIMEOUT"]
  IN  InsertReady(ListRemove(late, t), t)

BadRotateTwice(k) == [k EXCEPT !.ready[k.prio[k.cur]] = Append(@, k.cur)]
BadRotateNot(k) == k

\* The list part of rt_thread_yield: the running thread goes behind its equals
Rotate(k) ==
  LET t == k.cur
      p == k.prio[t]
  IN  IF k.stat[t] = "ready" /\ Len(k.ready[p]) > 1
        THEN [k EXCEPT !.ready[p] = Append(RemoveFirst(@, t), t)]
        ELSE k

BadChangePriority(k, t, p) ==
  LET c == [k EXCEPT !.prio[t] = p]
  IN  IF k.stat[t] = "ready" THEN InsertReady(RemoveReady(c, t), t) ELSE c

\* rt_thread_control(RT_THREAD_CTRL_CHANGE_PRIORITY)
ChangePriority(k, t, p) ==
  IF k.stat[t] = "ready"
    THEN InsertReady([RemoveReady(k, t) EXCEPT !.prio[t] = p], t)
    ELSE [k EXCEPT !.prio[t] = p]

(***************************************************************************)
(* rt_ipc_list_suspend: at the tail of a FIFO list; on a PRIO list before  *)
(* the first thread that is less urgent.  flag is "FIFO" or "PRIO".        *)
(***************************************************************************)
BadInsertPosEqual(k, s, t, flag) ==
  LET later == {i \in 1..Len(s) : k.prio[t] <= k.prio[s[i]]}
  IN  IF flag = "PRIO" /\ later # {} THEN Min(later) ELSE Len(s) + 1
BadInsertPosFirst(k, s, t, flag) == 1

InsertPos(k, s, t, flag) ==
  LET later == {i \in 1..Len(s) : k.prio[t] < k.prio[s[i]]}
  IN  IF flag = "PRIO" /\ later # {} THEN Min(later) ELSE Len(s) + 1

BadListSuspend(k, w, t, flag) ==
  [k EXCEPT !.wait[w] = InsertAt(@, InsertPos(k, @, t, flag), t)]

ListSuspend(k, w, t, flag) ==
  LET s == Suspend(k, t)
  IN  [s EXCEPT !.wait[w] = InsertAt(@, InsertPos(k, @, t, flag), t)]

BadResumeFirst(k, w) == Resume(k, Last(k.wait[w]))

\* rt_ipc_list_resume: wake the first waiter
ResumeFirst(k, w) == Resume(k, Head(k.wait[w]))

\* The body of the loop of rt_ipc_list_resume_all
ResumeFailed(k, w) ==
  LET t == Head(k.wait[w])
  IN  Resume([k EXCEPT !.err[t] = "ERROR"], t)

(***************************************************************************)
(* What rt_system_scheduler_start begins with.                             *)
(***************************************************************************)
BootTable == {p \in Prio : Boot[p] # <<>>}

BootKernel ==
  Schedule([cur   |-> Idle,
            stat  |-> [t \in Thread |-> IF Booted(t) THEN "ready" ELSE "init"],
            prio  |-> InitPrio,
            ready |-> Boot,
            table |-> BootTable,
            group |-> {Row(p) : p \in BootTable},
            wait  |-> [w \in WaitList |-> <<>>],
            timer |-> [t \in Thread |-> FALSE],
            err   |-> [t \in Thread |-> "EOK"],
            lock  |-> 0])

(***************************************************************************)
(* What must hold of a kernel state.  limbo is the set of threads that a   *)
(* function has taken off their list and not put back yet.                 *)
(***************************************************************************)
KernelType(k) ==
  /\ k \in [cur : Thread, stat : [Thread -> Stat], prio : [Thread -> Prio],
            ready : [Prio -> Seq(Thread)], table : SUBSET Prio,
            group : SUBSET (0..31), wait : [WaitList -> Seq(Thread)],
            timer : [Thread -> BOOLEAN], err : [Thread -> Error], lock : Nat]

\* Every ready thread is queued once, at its own priority, and nothing else is
ReadyListsExact(k, limbo) ==
  \A p \in Prio :
    /\ Distinct(k.ready[p])
    /\ \A t \in Thread \ limbo :
         Contains(k.ready[p], t) <=> k.stat[t] = "ready" /\ k.prio[t] = p
    /\ \A t \in limbo : ~Contains(k.ready[p], t)

\* A thread waits on one list at most, and only while it is off the ready lists
WaitListsExact(k, limbo) ==
  \A w \in WaitList :
    /\ Distinct(k.wait[w])
    /\ \A t \in Thread : Contains(k.wait[w], t) =>
         /\ k.stat[t] \in {"suspend", "close"}
         /\ t \notin limbo
         /\ \A v \in WaitList \ {w} : ~Contains(k.wait[v], t)

\* The two bitmap words say which ready lists are not empty
BitmapExact(k) ==
  /\ k.table = {p \in Prio : k.ready[p] # <<>>}
  /\ k.group = {Row(p) : p \in k.table}

\* rt_thread_timeout's assertion: the timer of a thread runs only while it waits
TimersExact(k) == \A t \in Thread : k.timer[t] => k.stat[t] = "suspend"

KernelInv(k, limbo) ==
  /\ KernelType(k)
  /\ ReadyListsExact(k, limbo)
  /\ WaitListsExact(k, limbo)
  /\ BitmapExact(k)
  /\ TimersExact(k)
  /\ k.stat[Idle] = "ready"
  /\ Idle \notin limbo

\* No ready thread is more urgent than the running one, or before it in its list
RunsHighest(k) ==
  /\ \A p \in Prio : p < k.prio[k.cur] => k.ready[p] = <<>>
  /\ k.ready[k.prio[k.cur]] # <<>>
  /\ k.cur = Head(k.ready[k.prio[k.cur]])
=============================================================================
