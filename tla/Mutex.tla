-------------------------------- MODULE Mutex --------------------------------
(***************************************************************************)
(* The mutexes of ipc.c: recursive, owned, handed directly to the first    *)
(* waiter, with priority inheritance through rt_thread_control.  Steps are *)
(* cut where interrupts are enabled, as in Semaphore.                      *)
(***************************************************************************)
EXTENDS RtKernel

CONSTANTS
  Mutexes,   \* the mutex objects
  NoThread,  \* RT_NULL
  User,      \* threads that use the mutexes; the others only run and sleep
  Sleepers,  \* threads that may sleep between their calls
  Detacher,  \* threads that may detach or delete a mutex
  Times,     \* waits in use: a subset of {"none", "forever", "timed"}
  Flag,      \* [Mutexes -> {"FIFO", "PRIO"}]
  MaxHold,   \* bound: depth of recursive takes
  MaxOwned   \* bound: mutexes one thread owns at a time

ASSUME MutexAssumption ==
  /\ IsFiniteSet(Mutexes) /\ Mutexes # {}
  /\ NoThread \notin Thread
  /\ User \subseteq Thread \ {Idle}
  /\ Sleepers \subseteq Thread \ {Idle}
  /\ Detacher \subseteq User
  /\ Times \subseteq {"none", "forever", "timed"}
  /\ Flag \in [Mutexes -> {"FIFO", "PRIO"}]
  /\ MaxHold \in Nat \ {0}
  /\ MaxOwned \in Nat
  /\ WaitList = Mutexes

VARIABLES
  k,      \* the kernel state
  pc,     \* where each thread is
  want,   \* the mutex its call is about
  value,  \* mutex->value
  owner,  \* mutex->owner
  orig,   \* mutex->original_priority
  hold,   \* mutex->hold
  alive,  \* the mutexes that are not detached
  held    \* history: held[m][t], successful takes less releases of m by t

vars == <<k, pc, want, value, owner, orig, hold, alive, held>>
objects == <<value, owner, orig, hold, alive, held>>

PC == {"run", "schedule", "return", "post", "detach", "wake", "gone"}

Init ==
  /\ k = BootKernel
  /\ pc = [t \in Thread |-> "run"]
  /\ want = [t \in Thread |-> CHOOSE m \in Mutexes : TRUE]
  /\ value = [m \in Mutexes |-> 1]
  /\ owner = [m \in Mutexes |-> NoThread]
  /\ orig = [m \in Mutexes |-> 255]
  /\ hold = [m \in Mutexes |-> 0]
  /\ alive = Mutexes
  /\ held = [m \in Mutexes |-> [t \in Thread |-> 0]]

-----------------------------------------------------------------------------
At(t, p) == k.cur = t /\ pc[t] = p

Goto(t, p) == pc' = [pc EXCEPT ![t] = p]

Owned(t) == {m \in Mutexes : owner[m] = t}

\* t calls rt_mutex_take or rt_mutex_release on m
Calls(t, m) == At(t, "run") /\ t \in User /\ m \in alive

\* rt_mutex_take by the owner
TakeAgain(t, m) ==
  /\ Calls(t, m)
  /\ owner[m] = t
  /\ hold[m] < MaxHold
  /\ k' = [k EXCEPT !.err[t] = "EOK"]
  /\ hold' = [hold EXCEPT ![m] = @ + 1]
  /\ held' = [held EXCEPT ![m][t] = @ + 1]
  /\ UNCHANGED <<pc, want, value, owner, orig, alive>>

\* rt_mutex_take of a mutex nobody owns
TakeFree(t, m) ==
  /\ Calls(t, m)
  /\ owner[m] # t /\ value[m] > 0
  /\ Cardinality(Owned(t)) < MaxOwned
  /\ k' = [k EXCEPT !.err[t] = "EOK"]
  /\ value' = [value EXCEPT ![m] = @ - 1]
  /\ owner' = [owner EXCEPT ![m] = t]
  /\ orig' = [orig EXCEPT ![m] = k.prio[t]]
  /\ hold' = [hold EXCEPT ![m] = @ + 1]
  /\ held' = [held EXCEPT ![m][t] = @ + 1]
  /\ UNCHANGED <<pc, want, alive>>

\* rt_mutex_take of a mutex another thread owns, without waiting
TakeRefused(t, m) ==
  /\ Calls(t, m) /\ "none" \in Times
  /\ owner[m] # t /\ value[m] = 0
  /\ k' = [k EXCEPT !.err[t] = "ETIMEOUT"]
  /\ UNCHANGED <<pc, want, objects>>

BadInherit(kk, t, u) == kk

\* The owner inherits the priority of a more urgent thread t
Inherit(kk, t, u) ==
  IF kk.prio[t] < kk.prio[u] THEN ChangePriority(kk, u, kk.prio[t]) ELSE kk

\* rt_mutex_take that waits
TakeBlock(t, m, time) ==
  /\ Calls(t, m)
  /\ owner[m] # t /\ value[m] = 0
  /\ Cardinality(Owned(t)) < MaxOwned
  /\ time # "none"
  /\ LET boosted == Inherit([k EXCEPT !.err[t] = "EOK"], t, owner[m])
         s == ListSuspend(boosted, m, t, Flag[m])
     IN  k' = IF time = "timed" THEN StartTimer(s, t) ELSE s
  /\ want' = [want EXCEPT ![t] = m]
  /\ Goto(t, "schedule")
  /\ UNCHANGED objects

TakeSchedule(t) ==
  /\ At(t, "schedule")
  /\ k' = Schedule(k)
  /\ Goto(t, "return")
  /\ UNCHANGED <<want, objects>>

\* Running again: with no error the caller takes the mutex for its own
TakeReturn(t) ==
  /\ At(t, "return")
  /\ held' = IF k.err[t] = "EOK" THEN [held EXCEPT ![want[t]][t] = @ + 1] ELSE held
  /\ Goto(t, "run")
  /\ UNCHANGED <<k, want, value, owner, orig, hold, alive>>

\* rt_mutex_release by a thread that is not the owner
ReleaseRefused(t, m) ==
  /\ Calls(t, m)
  /\ owner[m] # t
  /\ k' = [k EXCEPT !.err[t] = "ERROR"]
  /\ UNCHANGED <<pc, want, objects>>

\* rt_mutex_release that leaves recursive takes
ReleaseNested(t, m) ==
  /\ Calls(t, m)
  /\ owner[m] = t /\ hold[m] > 1
  /\ hold' = [hold EXCEPT ![m] = @ - 1]
  /\ held' = [held EXCEPT ![m][t] = @ - 1]
  /\ UNCHANGED <<k, pc, want, value, owner, orig, alive>>

BadRestore(kk, t, m) == kk

\* The last release gives the owner its original priority back
Restore(kk, t, m) ==
  IF orig[m] # kk.prio[t] THEN ChangePriority(kk, t, orig[m]) ELSE kk

Free(m) ==
  /\ value' = [value EXCEPT ![m] = @ + 1]
  /\ owner' = [owner EXCEPT ![m] = NoThread]
  /\ orig' = [orig EXCEPT ![m] = 255]
  /\ hold' = [hold EXCEPT ![m] = 0]

BadReleaseFree(t, m) ==
  /\ Calls(t, m)
  /\ owner[m] = t /\ hold[m] = 1
  /\ k' = Restore(k, t, m)
  /\ Free(m)
  /\ held' = [held EXCEPT ![m][t] = @ - 1]
  /\ UNCHANGED <<pc, want, alive>>

ReleaseFree(t, m) ==
  /\ Calls(t, m)
  /\ owner[m] = t /\ hold[m] = 1
  /\ k.wait[m] = <<>>
  /\ k' = Restore(k, t, m)
  /\ Free(m)
  /\ held' = [held EXCEPT ![m][t] = @ - 1]
  /\ UNCHANGED <<pc, want, alive>>

\* ... or hands the mutex to the first waiter
ReleaseHandOver(t, m) ==
  /\ Calls(t, m)
  /\ owner[m] = t /\ hold[m] = 1
  /\ k.wait[m] # <<>>
  /\ LET u == Head(k.wait[m])
     IN  /\ owner' = [owner EXCEPT ![m] = u]
         /\ orig' = [orig EXCEPT ![m] = Restore(k, t, m).prio[u]]
  /\ k' = ResumeFirst(Restore(k, t, m), m)
  /\ held' = [held EXCEPT ![m][t] = @ - 1]
  /\ Goto(t, "post")
  /\ UNCHANGED <<want, value, hold, alive>>

\* The rt_schedule that ends rt_mutex_release and rt_thread_sleep
PostSchedule(t) ==
  /\ At(t, "post")
  /\ k' = Schedule(k)
  /\ Goto(t, "run")
  /\ UNCHANGED <<want, objects>>

\* rt_mutex_detach and rt_mutex_delete, as rt_sem_detach in Semaphore
Detach(t, m) ==
  /\ Calls(t, m) /\ t \in Detacher
  /\ want' = [want EXCEPT ![t] = m]
  /\ Goto(t, "detach")
  /\ UNCHANGED <<k, objects>>

DetachTest(t) ==
  /\ At(t, "detach")
  /\ Goto(t, IF k.wait[want[t]] # <<>> THEN "wake" ELSE "gone")
  /\ UNCHANGED <<k, want, objects>>

DetachWake(t) ==
  /\ At(t, "wake")
  /\ k.wait[want[t]] # <<>>
  /\ k' = ResumeFailed(k, want[t])
  /\ Goto(t, "detach")
  /\ UNCHANGED <<want, objects>>

DetachObject(t) ==
  /\ At(t, "gone")
  /\ alive' = alive \ {want[t]}
  /\ Goto(t, "run")
  /\ UNCHANGED <<k, want, value, owner, orig, hold, held>>

-----------------------------------------------------------------------------
\* rt_thread_timeout, from rt_timer_check
Expire(t) ==
  /\ k.timer[t]
  /\ k' = Schedule(Timeout(k, t))
  /\ UNCHANGED <<pc, want, objects>>

\* rt_tick_increase at the end of the running thread's slice; alone at its priority
\* the thread does not even schedule
Tick ==
  /\ Rotate(k) # k
  /\ k' = Schedule(Rotate(k))
  /\ UNCHANGED <<pc, want, objects>>

\* rt_thread_sleep up to its rt_schedule
Sleep(t) ==
  /\ At(t, "run") /\ t \in Sleepers
  /\ k' = StartTimer(Suspend(k, t), t)
  /\ Goto(t, "post")
  /\ UNCHANGED <<want, objects>>

LastRelease(t) == \E m \in Mutexes : ReleaseFree(t, m) \/ ReleaseHandOver(t, m)
Release(t) == LastRelease(t) \/ \E m \in Mutexes : ReleaseNested(t, m)

Continue(t) ==
  \/ TakeSchedule(t) \/ TakeReturn(t) \/ PostSchedule(t)
  \/ DetachTest(t) \/ DetachWake(t) \/ DetachObject(t)

Next ==
  \/ \E t \in Thread :
       \/ \E m \in Mutexes :
            \/ TakeAgain(t, m) \/ TakeFree(t, m) \/ TakeRefused(t, m)
            \/ \E time \in Times : TakeBlock(t, m, time)
            \/ ReleaseRefused(t, m)
            \/ Detach(t, m)
       \/ Release(t)
       \/ Continue(t)
       \/ Expire(t)
       \/ Sleep(t)
  \/ Tick

Spec == Init /\ [][Next]_vars

(***************************************************************************)
(* Fairness: while some thread is inside a call, the running one goes on   *)
(* with it; a timed wait ends one day and the tick keeps coming; and an    *)
(* application that may release what it owns again and again does so, the  *)
(* nested and the last time, without which no mutex is ever free.          *)
(***************************************************************************)
FairSpec ==
  /\ Spec
  /\ WF_vars(\E t \in Thread : Continue(t))
  /\ \A t \in Thread : WF_vars(Expire(t))
  /\ SF_vars(\E t \in User : Release(t))
  /\ SF_vars(\E t \in User : LastRelease(t))
  /\ WF_vars(Tick)

-----------------------------------------------------------------------------
\* Types of the variables; the kernel lists stay well formed throughout
TypeOK ==
  /\ KernelInv(k, {})
  /\ pc \in [Thread -> PC]
  /\ want \in [Thread -> Mutexes]
  /\ value \in [Mutexes -> {0, 1}]
  /\ owner \in [Mutexes -> Thread \cup {NoThread}]
  /\ orig \in [Mutexes -> Prio \cup {255}]
  /\ hold \in [Mutexes -> 0..MaxHold]
  /\ alive \subseteq Mutexes
  /\ held \in [Mutexes -> [Thread -> 0..MaxHold]]

\* Threads that were handed m while they waited and do not know yet
Handed(m) ==
  {t \in Thread : /\ pc[t] \in {"schedule", "return"} /\ want[t] = m
                  /\ k.stat[t] = "ready" /\ k.err[t] = "EOK"}

\* Only the owner believes it holds the mutex, as often as mutex->hold says
\* (rt_mutex_take, the hand-over in rt_mutex_release, the error test after waking)
MutualExclusion ==
  \A m \in Mutexes, t \in Thread :
    held[m][t] + (IF t \in Handed(m) THEN 1 ELSE 0)
      = (IF owner[m] = t THEN hold[m] ELSE 0)

\* A mutex is waited for only while another thread owns it, and is free exactly
\* when value says so
OwnedWhileWaitedFor ==
  \A m \in Mutexes :
    /\ value[m] = 1 <=> owner[m] = NoThread
    /\ owner[m] = NoThread <=> hold[m] = 0
    /\ k.wait[m] # <<>> => owner[m] # NoThread /\ ~Contains(k.wait[m], owner[m])

\* Priority inheritance: the owner is as urgent as any thread that waits for it
OwnerInherits ==
  \A m \in Mutexes, t \in Thread :
    Contains(k.wait[m], t) => k.prio[owner[m]] <= k.prio[t]

\* A thread that owns no mutex has its own priority ("change the owner thread to
\* original priority", rt_mutex_release)
PriorityRestored ==
  \A t \in Thread : Owned(t) = {} => k.prio[t] = InitPrio[t]

\* rt_mutex_detach of m has begun
Detached(m) ==
  m \notin alive \/ \E t \in Thread : pc[t] \in {"detach", "wake", "gone"} /\ want[t] = m

\* The most urgent thread gets the mutex although a thread that never blocks is more
\* urgent than its owner, unless somebody detaches it: no unbounded priority inversion
NoUnboundedInversion ==
  \A t \in User, m \in Mutexes :
    InitPrio[t] = Min(Prio) =>
      (Contains(k.wait[m], t) ~> ~Contains(k.wait[m], t) \/ Detached(m))
=============================================================================
