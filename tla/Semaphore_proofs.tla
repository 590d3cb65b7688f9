--------------------------- MODULE Semaphore_proofs ---------------------------
(***************************************************************************)
(* Proofs about Semaphore, for every number of threads, every priority     *)
(* assignment, both flags and any initial value.                           *)
(***************************************************************************)
EXTENDS Semaphore, RtKernel_proofs, FiniteSetTheorems

-----------------------------------------------------------------------------
(***************************************************************************)
(* The inductive invariant.                                                *)
(***************************************************************************)

\* The kernel lists are consistent, nothing locks the scheduler or ends a thread
KernelPart ==
  /\ KernelInv(k, {})
  /\ k.lock = 0
  /\ \A t \in Thread : k.stat[t] # "close"

TypePart ==
  /\ pc \in [Thread -> PC]
  /\ isr \in {"none", "schedule", "masked"}
  /\ value \in 0..(ValueRange - 1)
  /\ flag \in {"FIFO", "PRIO"}
  /\ alive \in BOOLEAN
  /\ arrived \in Seq(Thread)

\* The running thread is ready unless it is about to call rt_schedule
RunningPart == k.stat[k.cur] = "ready" \/ pc[k.cur] \in {"schedule", "post"}

\* A thread in the suspend list is inside rt_sem_take, with no error so far
WaitingPart ==
  \A t \in Thread : Contains(k.wait["sem"], t) =>
    pc[t] \in {"schedule", "return"} /\ k.err[t] = "EOK"

IInv ==
  /\ KernelPart
  /\ TypePart
  /\ RunningPart
  /\ WaitingPart
  /\ NoWaiterWhileAvailable

\* What a step makes of the threads, their errors and the suspend list
Effect(stat, err, sem) ==
  /\ k'.stat = stat /\ k'.err = err /\ k'.wait["sem"] = sem
  /\ k'.prio = k.prio

-----------------------------------------------------------------------------
\* "sem" is the one list of this module
LEMMA SemList == "sem" \in WaitList
  BY SemaphoreAssumption

\* The fields of k have their types
LEMMA KernelFields ==
  ASSUME KernelPart
  PROVE  /\ KernelType(k)
         /\ k.cur \in Thread /\ k.stat \in [Thread -> Stat] /\ k.err \in [Thread -> Error]
         /\ k.timer \in [Thread -> BOOLEAN]
         /\ k.wait["sem"] \in Seq(Thread)
         /\ k.stat[Idle] = "ready"
  BY SemList DEF KernelPart, KernelInv, KernelType

\* The initial state
LEMMA InitInv == Init => IInv
<1> SUFFICES ASSUME Init PROVE IInv
  OBVIOUS
<1>1. k.wait["sem"] = <<>>
  BY BootKeeps, SemList DEF Init
<1>2. KernelPart
  BY BootKeeps DEF Init, KernelPart
<1>3. TypePart
  BY SemaphoreAssumption DEF Init, TypePart, PC
<1>4. RunningPart
  BY BootKeeps DEF Init, RunningPart
<1>5. WaitingPart
  BY <1>1, EmptyList DEF WaitingPart
<1>. QED BY <1>1, <1>2, <1>3, <1>4, <1>5 DEF IInv, NoWaiterWhileAvailable

\* rt_schedule from any good kernel state e changes only which thread runs, and
\* runs a ready one
LEMMA ScheduleStep ==
  ASSUME NEW e, KernelInv(e, {}), e.lock = 0, \A x \in Thread : e.stat[x] # "close",
         k' = Schedule(e)
  PROVE  /\ KernelPart' /\ RunningPart'
         /\ k'.stat = e.stat /\ k'.err = e.err /\ k'.wait = e.wait /\ k'.prio = e.prio
<1>1. /\ KernelInv(k', {}) /\ k' = [e EXCEPT !.cur = k'.cur]
      /\ e.stat[k'.cur] = "ready"
  BY ScheduleKeeps
<1>2. /\ k'.stat = e.stat /\ k'.lock = e.lock /\ k'.err = e.err /\ k'.wait = e.wait
      /\ k'.prio = e.prio
  BY <1>1 DEF KernelInv, KernelType
<1>. QED BY <1>1, <1>2 DEF KernelPart, RunningPart

\* What rt_ipc_list_resume leaves of the suspend list and its first thread
LEMMA WakeStep ==
  ASSUME IInv, k.wait["sem"] # <<>>, NEW u, u = Head(k.wait["sem"]),
         NEW failed \in BOOLEAN,
         k' = IF failed THEN ResumeFailed(k, "sem") ELSE ResumeFirst(k, "sem")
  PROVE  /\ u \in Thread /\ k.stat[u] = "suspend" /\ Contains(k.wait["sem"], u)
         /\ KernelPart'
         /\ k'.stat = [k.stat EXCEPT ![u] = "ready"]
         /\ k'.cur = k.cur
         /\ \A x : Contains(k'.wait["sem"], x) <=> Contains(k.wait["sem"], x) /\ x # u
         /\ k'.err = IF failed THEN [k.err EXCEPT ![u] = "ERROR"] ELSE k.err
         /\ k'.wait["sem"] = RemoveFirst(k.wait["sem"], u) /\ k'.prio = k.prio
<1>1. u \in Thread /\ Contains(k.wait["sem"], u)
  BY KernelFields, HeadList DEF IInv
<1>2. k.stat[u] = "suspend"
  BY <1>1, SemList DEF IInv, KernelPart, KernelInv, WaitListsExact
<1>3. KernelPart /\ KernelType(k)
  BY KernelFields DEF IInv
<1>4. ASSUME NEW e, KernelInv(e, {}), e.stat = k.stat, e.lock = k.lock, e.wait = k.wait,
             e.cur = k.cur, e.prio = k.prio, k' = Resume(e, u)
      PROVE  /\ KernelPart'
             /\ k'.stat = [k.stat EXCEPT ![u] = "ready"]
             /\ k'.cur = k.cur /\ k'.err = e.err
             /\ \A x : Contains(k'.wait["sem"], x) <=> Contains(k.wait["sem"], x) /\ x # u
             /\ k'.wait["sem"] = RemoveFirst(k.wait["sem"], u) /\ k'.prio = k.prio
  <2>1. KernelInv(k', {}) /\ Woken(e, k', u)
    BY <1>1, <1>2, <1>4, ResumeKeeps
  <2>2. /\ k'.stat = [k.stat EXCEPT ![u] = "ready"]
        /\ k'.cur = k.cur /\ k'.err = e.err /\ k'.lock = k.lock
        /\ k'.wait["sem"] = RemoveFirst(k.wait["sem"], u) /\ k'.prio = k.prio
        /\ \A x : Contains(k'.wait["sem"], x) <=> Contains(k.wait["sem"], x) /\ x # u
    BY <2>1, <1>4, SemList DEF Woken
  <2>. QED BY <2>1, <2>2, <1>3 DEF KernelPart, KernelType
<1>5. CASE ~failed
  <2>1. k' = Resume(k, u)
    BY <1>5 DEF ResumeFirst
  <2>2. /\ KernelPart' /\ k'.stat = [k.stat EXCEPT ![u] = "ready"]
        /\ k'.cur = k.cur /\ k'.err = k.err
        /\ \A x : Contains(k'.wait["sem"], x) <=> Contains(k.wait["sem"], x) /\ x # u
        /\ k'.wait["sem"] = RemoveFirst(k.wait["sem"], u) /\ k'.prio = k.prio
    BY <2>1, <1>3, <1>4 DEF KernelPart
  <2>. QED BY <2>2, <1>1, <1>2, <1>5
<1>6. CASE failed
  <2> DEFINE e == [k EXCEPT !.err[u] = "ERROR"]
  <2>1. k' = Resume(e, u)
    BY <1>6 DEF ResumeFailed
  <2>2. KernelInv(e, {}) /\ e = [k EXCEPT !.err = [k.err EXCEPT ![u] = "ERROR"]]
    BY <1>1, <1>3, ErrorKeeps DEF KernelPart, Error
  <2> HIDE DEF e
  <2>3. /\ e.stat = k.stat /\ e.lock = k.lock /\ e.wait = k.wait /\ e.cur = k.cur
        /\ e.prio = k.prio
        /\ e.err = [k.err EXCEPT ![u] = "ERROR"]
    BY <2>2, <1>3 DEF KernelType
  <2>4. /\ KernelPart' /\ k'.stat = [k.stat EXCEPT ![u] = "ready"]
        /\ k'.cur = k.cur /\ k'.err = [k.err EXCEPT ![u] = "ERROR"]
        /\ \A x : Contains(k'.wait["sem"], x) <=> Contains(k.wait["sem"], x) /\ x # u
        /\ k'.wait["sem"] = RemoveFirst(k.wait["sem"], u) /\ k'.prio = k.prio
    BY <2>1, <2>2, <2>3, <1>4
  <2>. QED BY <2>4, <1>1, <1>2, <1>6
<1>. QED BY <1>5, <1>6
-----------------------------------------------------------------------------
(***************************************************************************)
(* One lemma per action: it keeps the invariant, and what it does to the   *)
(* threads that hold a permit handed to them.                              *)
(***************************************************************************)

\* Taking a permit that is there
LEMMA TakeNowKeeps ==
  ASSUME IInv, NEW t \in Thread, TakeNow(t)
  PROVE  IInv' /\ Granted' = Granted
<1>1. value' \in 0..(ValueRange - 1)
  BY SemaphoreAssumption DEF IInv, TypePart, TakeNow
<1>. QED BY <1>1 DEF IInv, KernelPart, TypePart, RunningPart, WaitingPart,
       NoWaiterWhileAvailable, TakeNow, Granted, Back

\* Steps of the running thread that only move it to another place of its code
LEMMA MoveKeeps ==
  ASSUME IInv, UNCHANGED k, NEW t \in Thread, t = k.cur, NEW p \in PC,
         pc[t] \notin {"schedule", "return", "post"}, p \notin {"schedule", "return"},
         Goto(t, p), TypePart', NoWaiterWhileAvailable'
  PROVE  IInv' /\ Granted' = Granted
<1>1. KernelPart' /\ k.stat[t] = "ready"
  BY DEF IInv, KernelPart, RunningPart
<1>2. RunningPart'
  BY <1>1 DEF RunningPart
<1>3. \A x \in Thread : x # t => pc'[x] = pc[x]
  BY DEF IInv, TypePart, Goto
<1>4. pc'[t] = p
  BY DEF IInv, TypePart, Goto
<1>5. WaitingPart'
  BY <1>3 DEF IInv, WaitingPart
<1>6. Granted' = Granted
  BY <1>3, <1>4 DEF Granted, Back
<1>. QED BY <1>1, <1>2, <1>5, <1>6 DEF IInv

\* Queueing behind a semaphore without permits
LEMMA TakeBlockKeeps ==
  ASSUME IInv, NEW t \in Thread, NEW time \in Times, TakeBlock(t, time)
  PROVE  /\ IInv' /\ Granted' = Granted
         /\ k.stat[t] = "ready" /\ ~Contains(k.wait["sem"], t)
         /\ Effect([k.stat EXCEPT ![t] = "suspend"], [k.err EXCEPT ![t] = "EOK"],
                   InsertAt(k.wait["sem"], InsertPos(k, k.wait["sem"], t, flag), t))
<1>1. t = k.cur /\ pc[t] = "run" /\ k.stat[t] = "ready" /\ t # Idle /\ value = 0
  BY SemaphoreAssumption DEF IInv, RunningPart, TakeBlock, At
<1>2. KernelPart /\ KernelType(k) /\ KernelInv(k, {})
  BY KernelFields DEF IInv, KernelPart
<1> DEFINE e == [k EXCEPT !.err[t] = "EOK"]
           s == ListSuspend(e, "sem", t, flag)
<1>3. KernelInv(e, {}) /\ e = [k EXCEPT !.err = [k.err EXCEPT ![t] = "EOK"]]
  BY <1>2, ErrorKeeps DEF Error
<1>4. k' = IF time = "timed" THEN StartTimer(s, t) ELSE s
  BY DEF TakeBlock
<1> HIDE DEF e
<1>5. /\ e.stat = k.stat /\ e.lock = k.lock /\ e.wait = k.wait /\ e.cur = k.cur
      /\ e.err = [k.err EXCEPT ![t] = "EOK"] /\ e.prio = k.prio
  BY <1>2, <1>3 DEF KernelType
<1>6. KernelInv(s, {}) /\ Waiting(e, s, "sem", t, flag)
  <2>1. e.stat[t] = "ready" /\ t \in Thread \ {} /\ t # Idle
    BY <1>1, <1>5
  <2>. QED BY <1>3, <2>1, SemList, ListSuspendKeeps
<1> HIDE DEF s
<1>7. /\ s.stat = [k.stat EXCEPT ![t] = "suspend"]
      /\ \A x : Contains(s.wait["sem"], x) <=> Contains(k.wait["sem"], x) \/ x = t
      /\ s.cur = k.cur /\ s.err = [k.err EXCEPT ![t] = "EOK"] /\ s.lock = k.lock
  BY <1>5, <1>6 DEF Waiting
<1>8. /\ KernelInv(k', {})
      /\ k'.stat = s.stat /\ k'.wait = s.wait /\ k'.cur = s.cur /\ k'.err = s.err
      /\ k'.lock = s.lock /\ k'.prio = s.prio
  <2>1. CASE time = "timed"
    <3>1. s.stat[t] = "suspend"
      BY <1>2, <1>7 DEF KernelType
    <3>2. KernelInv(k', {}) /\ k' = [s EXCEPT !.timer = [s.timer EXCEPT ![t] = TRUE]]
      BY <1>4, <1>6, <2>1, <3>1, StartTimerKeeps
    <3>. QED BY <1>6, <3>2 DEF KernelInv, KernelType
  <2>2. CASE time # "timed"
    BY <1>4, <1>6, <2>2
  <2>. QED BY <2>1, <2>2
<1>9. KernelPart'
  BY <1>2, <1>7, <1>8 DEF KernelPart, KernelType
<1>10. pc' = [pc EXCEPT ![t] = "schedule"]
  BY DEF TakeBlock, Goto
<1>11. TypePart'
  BY <1>10, AppendProperties DEF IInv, TypePart, TakeBlock, PC
<1>12. RunningPart'
  BY <1>1, <1>7, <1>8, <1>10 DEF RunningPart, IInv, TypePart
<1>13. WaitingPart'
  BY <1>2, <1>7, <1>8, <1>10 DEF IInv, WaitingPart, TypePart, KernelType
<1>14. NoWaiterWhileAvailable'
  BY <1>1 DEF NoWaiterWhileAvailable, TakeBlock
<1>15. Granted' = Granted
  BY <1>1, <1>2, <1>7, <1>8, <1>10 DEF Granted, Back, IInv, TypePart, KernelType
<1>16. ~Contains(k.wait["sem"], t)
  BY <1>1, <1>2, SemList DEF KernelInv, WaitListsExact
<1>17. /\ s.wait["sem"] = InsertAt(e.wait["sem"], InsertPos(e, e.wait["sem"], t, flag), t)
       /\ s.prio = e.prio
  <2>1. e.wait \in [WaitList -> Seq(Thread)]
    BY <1>3 DEF KernelInv, KernelType
  <2>. QED BY <1>6, <2>1, SemList DEF Waiting
<1>18. InsertPos(e, k.wait["sem"], t, flag) = InsertPos(k, k.wait["sem"], t, flag)
  BY <1>5 DEF InsertPos
<1>19. Effect([k.stat EXCEPT ![t] = "suspend"], [k.err EXCEPT ![t] = "EOK"],
              InsertAt(k.wait["sem"], InsertPos(k, k.wait["sem"], t, flag), t))
  BY <1>5, <1>7, <1>8, <1>17, <1>18 DEF Effect
<1>. QED BY <1>1, <1>9, <1>11, <1>12, <1>13, <1>14, <1>15, <1>16, <1>19 DEF IInv

\* rt_schedule at the end of rt_sem_take, of the other calls, and of a handler
LEMMA SchedulesKeep ==
  ASSUME IInv, NEW t \in Thread, TakeSchedule(t) \/ PostSchedule(t) \/ IsrSchedule
  PROVE  IInv' /\ Granted' = Granted /\ Effect(k.stat, k.err, k.wait["sem"])
<1>1. KernelPart /\ KernelInv(k, {}) /\ k' = Schedule(k)
  BY DEF IInv, KernelPart, TakeSchedule, PostSchedule, IsrSchedule
<1>2. /\ KernelPart' /\ RunningPart'
      /\ k'.stat = k.stat /\ k'.err = k.err /\ k'.wait = k.wait /\ k'.prio = k.prio
  BY <1>1, ScheduleStep DEF KernelPart
<1>3. \/ pc[t] = "schedule" /\ pc' = [pc EXCEPT ![t] = "return"]
      \/ pc[t] = "post" /\ pc' = [pc EXCEPT ![t] = "run"]
      \/ pc' = pc
  BY DEF TakeSchedule, PostSchedule, IsrSchedule, Goto, At
<1>4. TypePart'
  BY <1>3 DEF IInv, TypePart, PC, TakeSchedule, PostSchedule, IsrSchedule
<1>5. WaitingPart'
  BY <1>2, <1>3 DEF IInv, TypePart, WaitingPart
<1>6. NoWaiterWhileAvailable'
  BY <1>2 DEF IInv, NoWaiterWhileAvailable, TakeSchedule, PostSchedule, IsrSchedule
<1>7. Granted' = Granted
  BY <1>2, <1>3 DEF Granted, Back, IInv, TypePart
<1>. QED BY <1>2, <1>4, <1>5, <1>6, <1>7 DEF IInv, Effect

\* Running again with what rt_sem_take returns
LEMMA TakeReturnKeeps ==
  ASSUME IInv, NEW t \in Thread, TakeReturn(t)
  PROVE  /\ IInv'
         /\ k.err[t] = "EOK" => t \in Granted /\ Granted' = Granted \ {t}
         /\ k.err[t] # "EOK" => Granted' = Granted
<1>1. /\ t = k.cur /\ pc[t] = "return" /\ k.stat[t] = "ready"
      /\ pc' = [pc EXCEPT ![t] = "run"] /\ k' = k
  BY DEF IInv, RunningPart, TakeReturn, At, Goto
<1>2. ~Contains(k.wait["sem"], t)
  BY <1>1, SemList DEF IInv, KernelPart, KernelInv, WaitListsExact
<1>3. KernelPart' /\ RunningPart' /\ NoWaiterWhileAvailable'
  BY <1>1 DEF IInv, KernelPart, RunningPart, NoWaiterWhileAvailable, TakeReturn
<1>4. TypePart'
  BY <1>1 DEF IInv, TypePart, PC, TakeReturn
<1>5. WaitingPart'
  BY <1>1, <1>2 DEF IInv, TypePart, WaitingPart
<1>6. /\ k.err[t] = "EOK" => t \in Granted /\ Granted' = Granted \ {t}
      /\ k.err[t] # "EOK" => Granted' = Granted
  BY <1>1 DEF Granted, Back, IInv, TypePart
<1>. QED BY <1>3, <1>4, <1>5, <1>6 DEF IInv

\* What waking the first waiter, with a permit or with an error, does to the threads
LEMMA WakeKeeps ==
  ASSUME IInv, k.wait["sem"] # <<>>, NEW failed \in BOOLEAN,
         k' = IF failed THEN ResumeFailed(k, "sem") ELSE ResumeFirst(k, "sem"),
         arrived' = RemoveFirst(arrived, Head(k.wait["sem"])),
         NEW t \in Thread, NEW p \in PC \ {"schedule", "return"},
         \/ pc' = pc
         \/ t = k.cur /\ pc[t] \notin {"schedule", "return", "post"} /\ Goto(t, p),
         isr' \in {"none", "schedule", "masked"},
         UNCHANGED <<value, flag, alive>>
  PROVE  /\ IInv'
         /\ failed => Granted' = Granted
         /\ ~failed => \E u \in Thread \ Granted : Granted' = Granted \cup {u}
<1> DEFINE u == Head(k.wait["sem"])
<1>1. /\ u \in Thread /\ k.stat[u] = "suspend" /\ Contains(k.wait["sem"], u)
      /\ KernelPart'
      /\ k'.stat = [k.stat EXCEPT ![u] = "ready"]
      /\ k'.cur = k.cur
      /\ \A x : Contains(k'.wait["sem"], x) <=> Contains(k.wait["sem"], x) /\ x # u
      /\ k'.err = IF failed THEN [k.err EXCEPT ![u] = "ERROR"] ELSE k.err
  <2>1. PICK v : v = u
    OBVIOUS
  <2>. QED BY <2>1, WakeStep
<1>2. pc[u] \in {"schedule", "return"} /\ k.err[u] = "EOK"
  BY <1>1 DEF IInv, WaitingPart
<1> HIDE DEF u
<1>3. /\ k.stat \in [Thread -> Stat] /\ k.err \in [Thread -> Error]
      /\ pc \in [Thread -> PC] /\ k.cur \in Thread
  BY KernelFields DEF IInv, TypePart
<1>4. pc' \in [Thread -> PC] /\ \A x \in Thread :
        \/ pc'[x] = pc[x]
        \/ /\ x = k.cur /\ k.stat[x] = "ready"
           /\ {pc[x], pc'[x]} \cap {"schedule", "return"} = {}
  BY <1>3 DEF Goto, IInv, RunningPart
<1>5. TypePart'
  <2>1. arrived' \in Seq(Thread)
    BY <1>1, RemoveFirstList DEF IInv, TypePart, u
  <2>. QED BY <1>4, <2>1 DEF IInv, TypePart
<1>6. RunningPart'
  BY <1>1, <1>3, <1>4 DEF IInv, RunningPart
<1>7. WaitingPart'
  <2> SUFFICES ASSUME NEW x \in Thread, Contains(k'.wait["sem"], x)
               PROVE  pc'[x] \in {"schedule", "return"} /\ k'.err[x] = "EOK"
    BY DEF WaitingPart
  <2>1. x # u /\ pc[x] \in {"schedule", "return"} /\ k.err[x] = "EOK"
    BY <1>1 DEF IInv, WaitingPart
  <2>. QED BY <1>1, <1>3, <1>4, <2>1
<1>8. NoWaiterWhileAvailable'
  BY DEF IInv, NoWaiterWhileAvailable
<1>9. \A x \in Thread : x # u => (x \in Granted' <=> x \in Granted)
  BY <1>1, <1>3, <1>4, ZenonT(60) DEF Granted, Back
<1>10. u \notin Granted /\ (u \in Granted' <=> ~failed)
  BY <1>1, <1>2, <1>3, <1>4 DEF Granted, Back
<1>11. Granted \subseteq Thread /\ Granted' \subseteq Thread
  BY DEF Granted, Back
<1>12. IInv'
  BY <1>1, <1>5, <1>6, <1>7, <1>8 DEF IInv
<1>13. CASE failed
  <2>1. \A x : x \in Granted' <=> x \in Granted
    BY <1>9, <1>10, <1>11, <1>13
  <2>2. Granted' = Granted
    BY <2>1, Zenon
  <2>. QED BY <1>12, <1>13, <2>2
<1>14. CASE ~failed
  <2>1. u \in Thread \ Granted /\ Granted' = Granted \cup {u}
    BY <1>1, <1>9, <1>10, <1>11, <1>14
  <2>. QED BY <1>12, <1>14, <2>1
<1>. QED BY <1>13, <1>14

\* rt_sem_release by a thread and by a handler
LEMMA ReleaseKeeps ==
  ASSUME IInv, NEW t \in Thread, NEW woken \in BOOLEAN,
         Release(t, woken) \/ IsrRelease(woken)
  PROVE  /\ IInv'
         /\ ~woken => Granted' = Granted
         /\ woken => \E u \in Thread \ Granted : Granted' = Granted \cup {u}
<1>1. /\ Post(woken) /\ isr' \in {"none", "schedule", "masked"} /\ UNCHANGED <<flag, alive>>
      /\ \/ pc' = pc
         \/ t = k.cur /\ pc[t] = "run" /\ Goto(t, IF woken THEN "post" ELSE "run")
  BY DEF Release, IsrRelease, At, IInv, TypePart
<1>2. CASE woken
  <2>1. /\ k.wait["sem"] # <<>> /\ k' = ResumeFirst(k, "sem")
        /\ arrived' = RemoveFirst(arrived, Head(k.wait["sem"]))
        /\ UNCHANGED value
        /\ \/ pc' = pc
           \/ t = k.cur /\ pc[t] \notin {"schedule", "return", "post"} /\ Goto(t, "post")
    BY <1>1, <1>2 DEF Post
  <2>2. "post" \in PC \ {"schedule", "return"}
    BY DEF PC
  <2>3. PICK failed \in BOOLEAN : ~failed
    OBVIOUS
  <2>. QED BY <1>1, <1>2, <2>1, <2>2, <2>3, WakeKeeps
<1>3. CASE ~woken
  <2>1. /\ k.wait["sem"] = <<>> /\ k' = k /\ arrived' = arrived
        /\ value' = (value + 1) % ValueRange
        /\ pc' = pc
    BY <1>1, <1>3 DEF Post, Goto, IInv, TypePart
  <2>2. value' \in 0..(ValueRange - 1)
    BY <2>1, SemaphoreAssumption DEF IInv, TypePart
  <2>3. IInv'
    BY <1>1, <2>1, <2>2 DEF IInv, KernelPart, TypePart, RunningPart, WaitingPart,
         NoWaiterWhileAvailable
  <2>4. Granted' = Granted
    BY <2>1 DEF Granted, Back
  <2>. QED BY <1>3, <2>3, <2>4
<1>. QED BY <1>2, <1>3

\* One more waiter gets an error, in rt_sem_control and in rt_ipc_list_resume_all
LEMMA ErrorWakesKeep ==
  ASSUME IInv, NEW t \in Thread, ResetWake(t) \/ DetachWake(t)
  PROVE  IInv' /\ Granted' = Granted
<1>1. /\ k.wait["sem"] # <<>> /\ k' = ResumeFailed(k, "sem")
      /\ arrived' = RemoveFirst(arrived, Head(k.wait["sem"]))
      /\ \/ pc' = pc
         \/ t = k.cur /\ pc[t] \notin {"schedule", "return", "post"} /\ Goto(t, "detach")
      /\ isr' \in {"none", "schedule", "masked"} /\ UNCHANGED <<value, flag, alive>>
  BY DEF ResetWake, DetachWake, At, IInv, TypePart
<1>2. "detach" \in PC \ {"schedule", "return"}
  BY DEF PC
<1>3. PICK failed \in BOOLEAN : failed
  OBVIOUS
<1>. QED BY <1>1, <1>2, <1>3, WakeKeeps

\* The steps of rt_sem_control and rt_sem_detach that leave the threads alone
LEMMA MovesKeep ==
  ASSUME IInv, NEW t \in Thread,
         \/ Reset(t) \/ (\E v \in Resets : ResetValue(t, v))
         \/ Detach(t) \/ DetachTest(t) \/ DetachObject(t)
  PROVE  IInv' /\ Granted' = Granted
<1>1. UNCHANGED k /\ t = k.cur /\ pc[t] \notin {"schedule", "return", "post"}
  BY DEF Reset, ResetValue, Detach, DetachTest, DetachObject, At, Resetting
<1>2. PICK p \in PC \ {"schedule", "return"} : Goto(t, p)
  BY DEF PC, Reset, ResetValue, Detach, DetachTest, DetachObject
<1>3. pc' \in [Thread -> PC]
  BY <1>2 DEF IInv, TypePart, Goto
<1>4. TypePart' /\ NoWaiterWhileAvailable'
  <2>1. CASE \E v \in Resets : ResetValue(t, v)
    BY <1>1, <1>3, <2>1, SemaphoreAssumption
    DEF IInv, TypePart, NoWaiterWhileAvailable, ResetValue
  <2>2. CASE Reset(t) \/ Detach(t) \/ DetachTest(t) \/ DetachObject(t)
    BY <1>1, <1>3, <2>2
    DEF IInv, TypePart, NoWaiterWhileAvailable, Reset, Detach, DetachTest, DetachObject
  <2>. QED BY <2>1, <2>2
<1>. QED BY <1>1, <1>2, <1>4, MoveKeeps

\* A wait that runs out, and the rt_schedule in rt_thread_timeout
LEMMA ExpireKeeps ==
  ASSUME IInv, NEW t \in Thread, Expire(t)
  PROVE  /\ IInv' /\ Granted' = Granted
         /\ k.stat[t] = "suspend"
         /\ Effect([k.stat EXCEPT ![t] = "ready"], [k.err EXCEPT ![t] = "ETIMEOUT"],
                   RemoveFirst(k.wait["sem"], t))
<1>1. KernelPart /\ KernelType(k) /\ KernelInv(k, {}) /\ k.timer[t] /\ t \in Thread \ {}
  BY KernelFields DEF IInv, KernelPart, Expire
<1>2. k.stat[t] = "suspend"
  BY <1>1 DEF KernelInv, TimersExact
<1> DEFINE e == [k EXCEPT !.err[t] = "ETIMEOUT"]
<1>3. e = [k EXCEPT !.err = [k.err EXCEPT ![t] = "ETIMEOUT"]]
  OBVIOUS
<1>4. e.stat = k.stat /\ e.wait = k.wait /\ e.lock = k.lock /\ e.prio = k.prio
  BY <1>1, <1>3 DEF KernelType
<1> HIDE DEF e
<1>5. PICK r : r = Timeout(k, t)
  OBVIOUS
<1>6. /\ KernelInv(r, {}) /\ Woken(e, r, t)
      /\ r.err = [k.err EXCEPT ![t] = "ETIMEOUT"]
  BY <1>1, <1>5, TimeoutKeeps DEF e
<1>7. /\ r.stat = [k.stat EXCEPT ![t] = "ready"] /\ r.lock = 0
      /\ \A x : Contains(r.wait["sem"], x) <=> Contains(k.wait["sem"], x) /\ x # t
      /\ r.wait["sem"] = RemoveFirst(k.wait["sem"], t) /\ r.prio = k.prio
  BY <1>1, <1>4, <1>6, SemList DEF Woken, KernelPart
<1>8. \A x \in Thread : r.stat[x] # "close"
  BY <1>1, <1>7 DEF KernelPart, KernelType
<1>9. /\ KernelPart' /\ RunningPart'
      /\ k'.stat = r.stat /\ k'.err = r.err /\ k'.wait = r.wait /\ k'.prio = r.prio
  <2>1. k' = Schedule(r)
    BY <1>5 DEF Expire
  <2>. QED BY <1>6, <1>7, <1>8, <2>1, ScheduleStep
<1>10. TypePart'
  BY RemoveFirstList DEF IInv, TypePart, Expire
<1>11. WaitingPart'
  BY <1>1, <1>6, <1>7, <1>9 DEF IInv, WaitingPart, Expire, KernelType
<1>12. r.wait["sem"] # <<>> => k.wait["sem"] # <<>>
  <2> SUFFICES ASSUME r.wait["sem"] # <<>> PROVE k.wait["sem"] # <<>>
    OBVIOUS
  <2>1. r.wait["sem"] \in Seq(Thread)
    BY <1>6, SemList DEF KernelInv, KernelType
  <2>2. PICK x : Contains(r.wait["sem"], x)
    BY <2>1, HeadList
  <2>. QED BY <2>2, <1>7, EmptyList
<1>13. NoWaiterWhileAvailable'
  BY <1>9, <1>12 DEF IInv, NoWaiterWhileAvailable, Expire
<1>14. Granted' = Granted
  BY <1>1, <1>2, <1>6, <1>7, <1>9 DEF Granted, Back, Expire, KernelType
<1>15. Effect([k.stat EXCEPT ![t] = "ready"], [k.err EXCEPT ![t] = "ETIMEOUT"],
              RemoveFirst(k.wait["sem"], t))
  BY <1>6, <1>7, <1>9 DEF Effect
<1>. QED BY <1>2, <1>9, <1>10, <1>11, <1>13, <1>14, <1>15 DEF IInv

\* The end of a time slice
LEMMA TickKeeps ==
  ASSUME IInv, Tick
  PROVE  IInv' /\ Granted' = Granted /\ Effect(k.stat, k.err, k.wait["sem"])
<1>1. KernelPart /\ KernelType(k) /\ KernelInv(k, {})
  BY KernelFields DEF IInv, KernelPart
<1>2. PICK r : r = Rotate(k)
  OBVIOUS
<1>3. KernelInv(r, {}) /\ r = [k EXCEPT !.ready = r.ready]
  BY <1>1, <1>2, RotateKeeps
<1>4. /\ r.stat = k.stat /\ r.err = k.err /\ r.wait = k.wait /\ r.lock = k.lock
      /\ r.prio = k.prio
  BY <1>1, <1>3 DEF KernelType
<1>5. /\ KernelPart' /\ RunningPart'
      /\ k'.stat = k.stat /\ k'.err = k.err /\ k'.wait = k.wait /\ k'.prio = k.prio
  BY <1>1, <1>2, <1>3, <1>4, ScheduleStep DEF Tick, KernelPart
<1>6. TypePart' /\ WaitingPart' /\ NoWaiterWhileAvailable' /\ Granted' = Granted
  BY <1>5 DEF IInv, TypePart, WaitingPart, NoWaiterWhileAvailable, Granted, Back, Tick
<1>. QED BY <1>5, <1>6 DEF IInv, Effect

\* A thread sleeps between its calls
LEMMA SleepKeeps ==
  ASSUME IInv, NEW t \in Thread, Sleep(t)
  PROVE  /\ IInv' /\ Granted' = Granted
         /\ k.stat[t] = "ready"
         /\ Effect([k.stat EXCEPT ![t] = "suspend"], k.err, k.wait["sem"])
<1>1. t = k.cur /\ pc[t] = "run" /\ k.stat[t] = "ready" /\ t # Idle /\ t \in Thread \ {}
  BY SemaphoreAssumption DEF IInv, RunningPart, Sleep, At
<1>2. KernelPart /\ KernelType(k) /\ KernelInv(k, {})
  BY KernelFields DEF IInv, KernelPart
<1> DEFINE s == Suspend(k, t)
<1>3. KernelInv(s, {}) /\ Suspended(k, s, t)
  BY <1>1, <1>2, SuspendKeeps
<1>4. k' = StartTimer(s, t)
  BY DEF Sleep
<1> HIDE DEF s
<1>5. /\ s.stat = [k.stat EXCEPT ![t] = "suspend"] /\ s.cur = k.cur /\ s.err = k.err
      /\ s.lock = k.lock /\ s.stat[t] = "suspend" /\ s.wait = k.wait /\ s.prio = k.prio
      /\ \A x : Contains(s.wait["sem"], x) <=> Contains(k.wait["sem"], x)
  BY <1>2, <1>3, SemList DEF Suspended, KernelType
<1>6. KernelInv(k', {}) /\ k' = [s EXCEPT !.timer = [s.timer EXCEPT ![t] = TRUE]]
  BY <1>3, <1>4, <1>5, StartTimerKeeps
<1>7. /\ k'.stat = s.stat /\ k'.cur = s.cur /\ k'.err = s.err /\ k'.lock = s.lock
      /\ k'.wait = s.wait /\ k'.prio = s.prio
  BY <1>3, <1>6 DEF KernelInv, KernelType
<1>8. KernelPart'
  BY <1>2, <1>5, <1>6, <1>7 DEF KernelPart, KernelType
<1>9. pc' = [pc EXCEPT ![t] = "post"]
  BY DEF Sleep, Goto
<1>10. TypePart'
  BY <1>9 DEF IInv, TypePart, PC, Sleep
<1>11. RunningPart'
  BY <1>1, <1>5, <1>7, <1>9 DEF IInv, TypePart, RunningPart
<1>12. WaitingPart'
  BY <1>1, <1>5, <1>7, <1>9 DEF IInv, TypePart, WaitingPart
<1>13. k'.wait["sem"] # <<>> => k.wait["sem"] # <<>>
  <2> SUFFICES ASSUME k'.wait["sem"] # <<>> PROVE k.wait["sem"] # <<>>
    OBVIOUS
  <2>1. k'.wait["sem"] \in Seq(Thread)
    BY <1>6, SemList DEF KernelInv, KernelType
  <2>2. PICK x : Contains(k'.wait["sem"], x)
    BY <2>1, HeadList
  <2>. QED BY <2>2, <1>5, <1>7, EmptyList
<1>14. NoWaiterWhileAvailable'
  BY <1>13 DEF IInv, NoWaiterWhileAvailable, Sleep
<1>15. Granted' = Granted
  BY <1>1, <1>2, <1>5, <1>7, <1>9 DEF Granted, Back, IInv, TypePart, KernelType
<1>16. Effect([k.stat EXCEPT ![t] = "suspend"], k.err, k.wait["sem"])
  BY <1>5, <1>7 DEF Effect
<1>. QED BY <1>1, <1>8, <1>10, <1>11, <1>12, <1>14, <1>15, <1>16 DEF IInv

-----------------------------------------------------------------------------
(***************************************************************************)
(* The theorems.                                                           *)
(***************************************************************************)

\* Every step keeps the invariant
LEMMA StepKeeps == IInv /\ [Next]_vars => IInv'
<1> SUFFICES ASSUME IInv, [Next]_vars PROVE IInv'
  OBVIOUS
<1>1. ASSUME NEW t \in Thread, TakeNow(t) PROVE IInv'
  BY <1>1, TakeNowKeeps
<1>2. ASSUME NEW t \in Thread, NEW time \in Times, TakeBlock(t, time) PROVE IInv'
  BY <1>2, TakeBlockKeeps
<1>3. ASSUME NEW t \in Thread, NEW woken \in BOOLEAN, Release(t, woken) \/ IsrRelease(woken)
      PROVE  IInv'
  BY <1>3, ReleaseKeeps
<1>4. ASSUME NEW t \in Thread, Sleep(t) PROVE IInv'
  BY <1>4, SleepKeeps
<1>5. ASSUME NEW t \in Thread, TakeSchedule(t) \/ PostSchedule(t) \/ IsrSchedule PROVE IInv'
  BY <1>5, SchedulesKeep
<1>6. ASSUME NEW t \in Thread, TakeReturn(t) PROVE IInv'
  BY <1>6, TakeReturnKeeps
<1>7. ASSUME NEW t \in Thread, ResetWake(t) \/ DetachWake(t) PROVE IInv'
  BY <1>7, ErrorWakesKeep
<1>8. ASSUME NEW t \in Thread,
             \/ Reset(t) \/ (\E v \in Resets : ResetValue(t, v))
             \/ Detach(t) \/ DetachTest(t) \/ DetachObject(t)
      PROVE  IInv'
  BY <1>8, MovesKeep
<1>9. ASSUME NEW t \in Thread, Expire(t) PROVE IInv'
  BY <1>9, ExpireKeeps
<1>10. CASE Tick
  BY <1>10, TickKeeps
<1>11. CASE UNCHANGED vars
  BY <1>11 DEF vars, IInv, KernelPart, TypePart, RunningPart, WaitingPart,
       NoWaiterWhileAvailable
<1>12. \E t \in Thread : TRUE
  BY KernelAssumption
<1>. QED
  BY <1>1, <1>2, <1>3, <1>4, <1>5, <1>6, <1>7, <1>8, <1>9, <1>10, <1>11, <1>12
  DEF Next, Continue

\* rt_sem_take, rt_sem_release and the rest keep the kernel and the semaphore
\* consistent in every reachable state
THEOREM Consistent == Spec => []IInv
<1>. QED BY InitInv, StepKeeps, PTL DEF Spec

\* The type invariant of the semaphore, kernel lists and bitmap included
THEOREM TypeCorrect == Spec => []TypeOK
<1> DEFINE I == IInv /\ balance \in Int
<1>1. Init => I
  BY InitInv, SemaphoreAssumption DEF Init
<1>2. I /\ [Next]_vars => I'
  <2> SUFFICES ASSUME I, [Next]_vars PROVE balance' \in Int
    BY StepKeeps
  <2>1. Granted \subseteq Thread
    BY DEF Granted, Back
  <2>2. Cardinality(Granted) \in Nat
    BY <2>1, KernelAssumption, FS_Subset, FS_CardinalityType
  <2>3. CASE UNCHANGED vars
    BY <2>3 DEF vars
  <2>4. CASE \E t \in Thread, v \in Resets : ResetValue(t, v)
    BY <2>2, <2>4, SemaphoreAssumption DEF ResetValue
  <2>5. CASE \/ \E t \in Thread :
                  \/ \E time \in Times : TakeBlock(t, time)
                  \/ Reset(t) \/ Detach(t) \/ Sleep(t) \/ Expire(t)
                  \/ TakeSchedule(t) \/ PostSchedule(t) \/ ResetWake(t)
                  \/ DetachTest(t) \/ DetachWake(t) \/ DetachObject(t)
             \/ IsrSchedule \/ Tick
    <3>1. UNCHANGED balance
      BY <2>5 DEF TakeBlock, Reset, Detach, Sleep, Expire, TakeSchedule,
           PostSchedule, ResetWake, DetachTest, DetachWake, DetachObject, IsrSchedule, Tick
    <3>. QED BY <3>1
  <2>6. ASSUME NEW woken \in BOOLEAN, Post(woken) PROVE balance' \in Int
    BY <2>6 DEF Post
  <2>7. CASE \/ \E woken \in BOOLEAN : IsrRelease(woken)
             \/ \E t \in Thread : \E woken \in BOOLEAN : Release(t, woken)
    BY <2>6, <2>7 DEF IsrRelease, Release
  <2>8. ASSUME NEW t \in Thread, TakeNow(t) \/ TakeReturn(t) PROVE balance' \in Int
    BY <2>8 DEF TakeNow, TakeReturn
  <2>. QED BY <2>3, <2>4, <2>5, <2>7, <2>8 DEF Next, Continue
<1>3. I => TypeOK
  BY DEF IInv, KernelPart, TypePart, TypeOK
<1>. QED BY <1>1, <1>2, <1>3, PTL DEF Spec

\* No thread is left waiting for a semaphore that has a permit
THEOREM NobodyWaitsInVain == Spec => []NoWaiterWhileAvailable
<1>1. IInv => NoWaiterWhileAvailable
  BY DEF IInv
<1>. QED BY <1>1, Consistent, PTL

\* While sem->value does not wrap, releases, takes, timeouts, resets and deletions
\* of any number of threads neither lose a permit nor make one up
THEOREM NoPermitLost ==
  ASSUME MaxValue < ValueRange
  PROVE  Spec => []PermitsConserved
<1> DEFINE n == Cardinality(Granted)
<1>1. Init => PermitsConserved
  <2> SUFFICES ASSUME Init PROVE balance = value + Cardinality(Granted)
    BY DEF PermitsConserved
  <2>1. Granted = {}
    BY DEF Init, Granted, Back
  <2>. QED BY <2>1, FS_EmptySet, SemaphoreAssumption DEF Init
<1>2. IInv /\ PermitsConserved /\ [Next]_vars => PermitsConserved'
  <2> SUFFICES ASSUME IInv, balance = value + Cardinality(Granted), [Next]_vars
               PROVE  balance' = value' + Cardinality(Granted')
    BY DEF PermitsConserved
  <2>1. IsFiniteSet(Granted) /\ Cardinality(Granted) \in Nat /\ value \in Nat
    <3>1. Granted \subseteq Thread
      BY DEF Granted, Back
    <3>. QED BY <3>1, KernelAssumption, SemaphoreAssumption, FS_Subset, FS_CardinalityType
         DEF IInv, TypePart
  <2>2. ASSUME NEW t \in Thread, TakeNow(t) PROVE balance' = value' + Cardinality(Granted')
    BY <2>1, <2>2, TakeNowKeeps DEF TakeNow
  <2>3. ASSUME NEW t \in Thread, NEW woken \in BOOLEAN, Release(t, woken) \/ IsrRelease(woken)
        PROVE  balance' = value' + Cardinality(Granted')
    <3>1. CASE woken
      <4>1. PICK u \in Thread \ Granted : Granted' = Granted \cup {u}
        BY <2>3, <3>1, ReleaseKeeps
      <4>2. Cardinality(Granted') = Cardinality(Granted) + 1
        BY <2>1, <4>1, FS_AddElement
      <4>. QED BY <2>1, <2>3, <3>1, <4>2 DEF Release, IsrRelease, Post
    <3>2. CASE ~woken
      <4>1. Granted' = Granted
        BY <2>3, <3>2, ReleaseKeeps
      <4>2. balance' = balance + 1 /\ value' = (value + 1) % ValueRange /\ value < MaxValue
        BY <2>3, <3>2 DEF Release, IsrRelease, Post
      <4>3. value' = value + 1
        BY <2>1, <4>2, SemaphoreAssumption
      <4>. QED BY <2>1, <4>1, <4>2, <4>3
    <3>. QED BY <3>1, <3>2
  <2>4. ASSUME NEW t \in Thread, TakeReturn(t) PROVE balance' = value' + Cardinality(Granted')
    <3>1. CASE k.err[t] = "EOK"
      <4>1. t \in Granted /\ Granted' = Granted \ {t}
        BY <2>4, <3>1, TakeReturnKeeps
      <4>2. Cardinality(Granted') = Cardinality(Granted) - 1
        BY <2>1, <4>1, FS_RemoveElement
      <4>. QED BY <2>1, <2>4, <3>1, <4>2 DEF TakeReturn
    <3>2. CASE k.err[t] # "EOK"
      BY <2>4, <3>2, TakeReturnKeeps DEF TakeReturn
    <3>. QED BY <3>1, <3>2
  <2>5. ASSUME NEW t \in Thread, NEW v \in Resets, ResetValue(t, v)
        PROVE  balance' = value' + Cardinality(Granted')
    BY <2>5, MovesKeep DEF ResetValue
  <2>6. ASSUME Granted' = Granted, UNCHANGED <<balance, value>>
        PROVE  balance' = value' + Cardinality(Granted')
    BY <2>6
  <2>7. CASE \/ \E t \in Thread :
                  \/ \E time \in Times : TakeBlock(t, time)
                  \/ Reset(t) \/ Detach(t) \/ Sleep(t) \/ Expire(t)
                  \/ TakeSchedule(t) \/ PostSchedule(t) \/ ResetWake(t)
                  \/ DetachTest(t) \/ DetachWake(t) \/ DetachObject(t)
             \/ IsrSchedule \/ Tick
    <3>1. UNCHANGED <<balance, value>>
      BY <2>7 DEF TakeBlock, Reset, Detach, Sleep, Expire, TakeSchedule,
           PostSchedule, ResetWake, DetachTest, DetachWake, DetachObject, IsrSchedule, Tick
    <3>2. Granted' = Granted
      BY <2>7, KernelAssumption, TakeBlockKeeps, MovesKeep, SleepKeeps, ExpireKeeps,
         SchedulesKeep, ErrorWakesKeep, TickKeeps, ZenonT(60)
    <3>. QED BY <2>6, <3>1, <3>2
  <2>8. CASE UNCHANGED vars
    BY <2>6, <2>8 DEF vars, Granted, Back
  <2>9. \E t \in Thread : TRUE
    BY KernelAssumption
  <2>. QED BY <2>2, <2>3, <2>4, <2>5, <2>7, <2>8, <2>9 DEF Next, Continue
<1>. QED BY <1>1, <1>2, Consistent, PTL DEF Spec

-----------------------------------------------------------------------------
(***************************************************************************)
(* What comes before what in a list.                                       *)
(***************************************************************************)

Before(s, t, u) == \E i, j \in 1..Len(s) : i < j /\ s[i] = t /\ s[j] = u

\* Something put at the end comes after what was there
LEMMA AppendBefore ==
  ASSUME NEW S, NEW s \in Seq(S), NEW x \in S, NEW t, NEW u
  PROVE  /\ Before(s, t, u) => Before(Append(s, x), t, u)
         /\ Contains(s, t) => Before(Append(s, x), t, x)
<1>1. /\ Len(Append(s, x)) = Len(s) + 1 /\ Len(s) \in Nat
      /\ \A i \in 1..Len(s) : Append(s, x)[i] = s[i]
      /\ Append(s, x)[Len(s) + 1] = x
  BY AppendProperties, LenProperties
<1>2. ASSUME Before(s, t, u) PROVE Before(Append(s, x), t, u)
  <2>1. PICK i, j \in 1..Len(s) : i < j /\ s[i] = t /\ s[j] = u
    BY <1>2 DEF Before
  <2>2. /\ i \in 1..Len(Append(s, x)) /\ j \in 1..Len(Append(s, x))
        /\ Append(s, x)[i] = t /\ Append(s, x)[j] = u
    BY <1>1, <2>1
  <2>. QED BY <2>1, <2>2 DEF Before
<1>3. ASSUME Contains(s, t) PROVE Before(Append(s, x), t, x)
  <2>1. PICK i \in 1..Len(s) : s[i] = t
    BY <1>3 DEF Contains
  <2> DEFINE j == Len(s) + 1
  <2>2. /\ i \in 1..Len(Append(s, x)) /\ j \in 1..Len(Append(s, x)) /\ i < j
        /\ Append(s, x)[i] = t /\ Append(s, x)[j] = x
    BY <1>1, <2>1
  <2>. QED BY <2>2 DEF Before
<1>. QED BY <1>2, <1>3

\* Something put at place n comes after what was before n and before the rest
LEMMA InsertBefore ==
  ASSUME NEW S, NEW s \in Seq(S), NEW x \in S, NEW n \in 1..(Len(s) + 1),
         NEW t, NEW u, Before(InsertAt(s, n, x), t, u)
  PROVE  \/ Before(s, t, u)
         \/ t = x /\ \E i \in n..Len(s) : s[i] = u
         \/ u = x /\ \E i \in 1..(n - 1) : s[i] = t
<1> DEFINE r == InsertAt(s, n, x)
<1>1. /\ Len(r) = Len(s) + 1 /\ Len(s) \in Nat
      /\ \A i \in 1..(n - 1) : r[i] = s[i]
      /\ r[n] = x
      /\ \A i \in (n + 1)..(Len(s) + 1) : r[i] = s[i - 1]
  <2>1. Inserted(S, r, s, n, x)
    BY InsertAtItems
  <2> HIDE DEF r
  <2>. QED BY <2>1, LenProperties DEF Inserted
<1>2. PICK i, j \in 1..Len(r) : i < j /\ r[i] = t /\ r[j] = u
  BY DEF Before
<1> HIDE DEF r
<1>3. CASE i = n
  <2>1. j - 1 \in n..Len(s) /\ s[j - 1] = u
    BY <1>1, <1>2, <1>3
  <2>. QED BY <1>1, <1>2, <1>3, <2>1
<1>4. CASE j = n
  <2>1. i \in 1..(n - 1) /\ s[i] = t
    BY <1>1, <1>2, <1>4
  <2>. QED BY <1>1, <1>2, <1>4, <2>1
<1>5. CASE i # n /\ j # n
  <2> DEFINE at(l) == IF l < n THEN l ELSE l - 1
  <2>1. /\ at(i) \in 1..Len(s) /\ at(j) \in 1..Len(s) /\ at(i) < at(j)
        /\ s[at(i)] = t /\ s[at(j)] = u
    BY <1>1, <1>2, <1>5
  <2>. QED BY <2>1 DEF Before
<1>. QED BY <1>3, <1>4, <1>5

\* Taking something out leaves the others in their order
LEMMA RemoveBefore ==
  ASSUME NEW S, NEW s \in Seq(S), Distinct(s), NEW x, NEW t, NEW u
  PROVE  Before(RemoveFirst(s, x), t, u) <=> Before(s, t, u) /\ t # x /\ u # x
<1>1. CASE ~Contains(s, x)
  <2>1. RemoveFirst(s, x) = s
    BY <1>1, RemoveFirstList
  <2>2. Before(s, t, u) => t # x /\ u # x
    BY <1>1 DEF Before, Contains
  <2>. QED BY <2>1, <2>2
<1>2. CASE Contains(s, x)
  <2> DEFINE r == RemoveFirst(s, x)
  <2>1. PICK n \in 1..Len(s) :
           /\ s[n] = x
           /\ Len(r) = Len(s) - 1
           /\ \A i \in 1..(n - 1) : r[i] = s[i]
           /\ \A i \in n..(Len(s) - 1) : r[i] = s[i + 1]
    BY <1>2, RemoveFirstItems
  <2>2. Len(s) \in Nat
    BY LenProperties
  <2> HIDE DEF r
  <2>3. ASSUME Before(r, t, u) PROVE Before(s, t, u) /\ t # x /\ u # x
    <3>1. PICK i, j \in 1..Len(r) : i < j /\ r[i] = t /\ r[j] = u
      BY <2>3 DEF Before
    <3> DEFINE at(l) == IF l < n THEN l ELSE l + 1
    <3>2. /\ at(i) \in 1..Len(s) /\ at(j) \in 1..Len(s) /\ at(i) < at(j)
          /\ s[at(i)] = t /\ s[at(j)] = u /\ at(i) # n /\ at(j) # n
      BY <2>1, <2>2, <3>1
    <3> HIDE DEF at
    <3>. QED BY <2>1, <3>2 DEF Before, Distinct
  <2>4. ASSUME Before(s, t, u), t # x, u # x PROVE Before(r, t, u)
    <3>1. PICK i, j \in 1..Len(s) : i < j /\ s[i] = t /\ s[j] = u
      BY <2>4 DEF Before
    <3> DEFINE at(l) == IF l < n THEN l ELSE l - 1
    <3>2. i # n /\ j # n
      BY <2>1, <2>4, <3>1
    <3>3. /\ at(i) \in 1..Len(r) /\ at(j) \in 1..Len(r) /\ at(i) < at(j)
          /\ r[at(i)] = t /\ r[at(j)] = u
      BY <2>1, <2>2, <3>1, <3>2
    <3>. QED BY <3>3 DEF Before
  <2>. QED BY <2>3, <2>4 DEF r
<1>. QED BY <1>1, <1>2

\* In a list without repetition nothing comes before what comes before it
LEMMA BeforeStrict ==
  ASSUME NEW s, Distinct(s), NEW t, NEW u, Before(s, t, u)
  PROVE  /\ Contains(s, t) /\ Contains(s, u) /\ t # u
         /\ ~Before(s, u, t)
<1>1. PICK i, j \in 1..Len(s) : i < j /\ s[i] = t /\ s[j] = u
  BY DEF Before
<1>2. \A i1, j1 \in 1..Len(s) : s[i1] = u /\ s[j1] = t => i1 = j /\ j1 = i
  BY <1>1 DEF Distinct
<1>3. ~Before(s, u, t) /\ t # u
  BY <1>1, <1>2 DEF Before
<1>. QED BY <1>1, <1>3 DEF Contains

-----------------------------------------------------------------------------
(***************************************************************************)
(* The inductive invariant.                                                *)
(***************************************************************************)

\* arrived tells the history of the threads in the suspend list, which are there by
\* priority and arrival, or by arrival; nobody changes a priority
OrderPart ==
  LET s == k.wait["sem"]
  IN  /\ k.prio = InitPrio
      /\ Distinct(arrived)
      /\ \A t \in Thread : Contains(arrived, t) <=> Contains(s, t)
      /\ \A t, u \in Thread : Before(s, t, u) =>
           \/ flag = "PRIO" /\ InitPrio[t] < InitPrio[u]
           \/ /\ flag = "PRIO" => InitPrio[t] = InitPrio[u]
              /\ Before(arrived, t, u)

\* A thread suspended inside rt_sem_take is in the suspend list
InsidePart ==
  \A t \in Thread : k.stat[t] = "suspend" /\ pc[t] \in {"schedule", "return"} =>
    Contains(k.wait["sem"], t)

OInv == IInv /\ OrderPart /\ InsidePart

\* What the lists are made of
LEMMA ListFacts ==
  ASSUME OInv
  PROVE  /\ k.wait["sem"] \in Seq(Thread) /\ Distinct(k.wait["sem"])
         /\ arrived \in Seq(Thread) /\ Distinct(arrived)
         /\ k.stat \in [Thread -> Stat] /\ k.err \in [Thread -> Error]
         /\ pc \in [Thread -> PC]
         /\ \A t \in Thread : Contains(k.wait["sem"], t) => k.stat[t] = "suspend"
         /\ InitPrio \in [Thread -> Nat] /\ KernelType(k)
<1>1. KernelPart /\ KernelType(k)
  BY KernelFields DEF OInv, IInv
<1>2. Distinct(k.wait["sem"])
  BY <1>1, SemList DEF KernelPart, KernelInv, WaitListsExact
<1>3. \A t \in Thread : Contains(k.wait["sem"], t) => k.stat[t] = "suspend"
  BY <1>1, SemList DEF KernelPart, KernelInv, WaitListsExact
<1>. QED
  BY <1>1, <1>2, <1>3, KernelFields, PrioNat DEF OInv, IInv, TypePart, OrderPart

\* Both lists lose the same thread, or none
LEMMA LeaveOrder ==
  ASSUME OInv, NEW u, k'.prio = k.prio, flag' = flag,
         k'.wait["sem"] = RemoveFirst(k.wait["sem"], u),
         arrived' = RemoveFirst(arrived, u)
  PROVE  OrderPart'
<1>0. PICK s, a : s = k.wait["sem"] /\ a = arrived
  OBVIOUS
<1>1. /\ s \in Seq(Thread) /\ Distinct(s) /\ a \in Seq(Thread) /\ Distinct(a)
  BY <1>0, ListFacts
<1>2. \A t, v : /\ Before(RemoveFirst(s, u), t, v) <=> Before(s, t, v) /\ t # u /\ v # u
                /\ Before(RemoveFirst(a, u), t, v) <=> Before(a, t, v) /\ t # u /\ v # u
  BY <1>1, RemoveBefore
<1>3. /\ Distinct(RemoveFirst(a, u))
      /\ \A t : Contains(RemoveFirst(a, u), t) <=> Contains(a, t) /\ t # u
      /\ \A t : Contains(RemoveFirst(s, u), t) <=> Contains(s, t) /\ t # u
  BY <1>1, RemoveFirstList
<1>4. /\ k'.prio = InitPrio
      /\ k'.wait["sem"] = RemoveFirst(s, u) /\ arrived' = RemoveFirst(a, u)
      /\ \A t \in Thread : Contains(a, t) <=> Contains(s, t)
      /\ \A t, v \in Thread : Before(s, t, v) =>
           \/ flag = "PRIO" /\ InitPrio[t] < InitPrio[v]
           \/ /\ flag = "PRIO" => InitPrio[t] = InitPrio[v]
              /\ Before(a, t, v)
  BY <1>0 DEF OInv, OrderPart
<1>. QED BY <1>2, <1>3, <1>4 DEF OrderPart

\* A thread joins both lists
LEMMA JoinOrder ==
  ASSUME OInv, NEW t \in Thread, ~Contains(k.wait["sem"], t),
         k'.prio = k.prio, flag' = flag,
         k'.wait["sem"] = InsertAt(k.wait["sem"], InsertPos(k, k.wait["sem"], t, flag), t),
         arrived' = Append(arrived, t)
  PROVE  OrderPart'
<1>0. PICK s, a, n : s = k.wait["sem"] /\ a = arrived /\ n = InsertPos(k, s, t, flag)
  OBVIOUS
<1>1. /\ s \in Seq(Thread) /\ Distinct(s) /\ a \in Seq(Thread) /\ Distinct(a)
      /\ KernelType(k) /\ InitPrio \in [Thread -> Nat] /\ flag \in {"FIFO", "PRIO"}
  BY <1>0, ListFacts DEF OInv, IInv, TypePart
<1>2. /\ k.prio = InitPrio
      /\ \A x \in Thread : Contains(a, x) <=> Contains(s, x)
      /\ \A x, y \in Thread : Before(s, x, y) =>
           \/ flag = "PRIO" /\ InitPrio[x] < InitPrio[y]
           \/ /\ flag = "PRIO" => InitPrio[x] = InitPrio[y]
              /\ Before(a, x, y)
  BY <1>0 DEF OInv, OrderPart
<1>3. n \in 1..(Len(s) + 1)
  BY <1>0, <1>1, InsertPosRange
<1>4. ~Contains(a, t)
  BY <1>0, <1>2
<1>5. /\ Distinct(Append(a, t))
      /\ \A x : Contains(Append(a, t), x) <=> Contains(a, x) \/ x = t
  BY <1>1, <1>4, AppendList
<1>6. \A x : Contains(InsertAt(s, n, t), x) <=> Contains(s, x) \/ x = t
  BY <1>1, <1>3, InsertAtList
<1>7. \A i \in 1..Len(s) : s[i] \in Thread
  BY <1>1, ElementOfSeq
<1>8. CASE flag = "PRIO"
  <2>1. Ordered(k.prio, s)
    <3> SUFFICES ASSUME NEW i \in 1..Len(s), NEW j \in 1..Len(s), i < j
                 PROVE  k.prio[s[i]] <= k.prio[s[j]]
      BY DEF Ordered
    <3>1. Before(s, s[i], s[j])
      BY DEF Before
    <3>2. InitPrio[s[i]] \in Nat /\ InitPrio[s[j]] \in Nat
      BY <1>1, <1>7
    <3>. QED BY <1>2, <1>7, <1>8, <3>1, <3>2, SMTT(60)
  <2>2. /\ \A i \in 1..Len(s) : i < n => InitPrio[s[i]] <= InitPrio[t]
        /\ \A i \in 1..Len(s) : n <= i => InitPrio[t] < InitPrio[s[i]]
    BY <1>0, <1>1, <1>2, <1>8, <2>1, InsertPosPrio
  <2>3. ASSUME NEW x \in Thread, NEW y \in Thread, Before(InsertAt(s, n, t), x, y)
        PROVE  \/ InitPrio[x] < InitPrio[y]
               \/ InitPrio[x] = InitPrio[y] /\ Before(Append(a, t), x, y)
    <3>1. CASE Before(s, x, y)
      BY <1>1, <1>2, <1>8, <3>1, AppendBefore
    <3>2. CASE x = t /\ \E i \in n..Len(s) : s[i] = y
      <4>1. PICK i \in n..Len(s) : s[i] = y
        BY <3>2
      <4>2. i \in 1..Len(s) /\ n <= i
        BY <1>3, <4>1
      <4>. QED BY <2>2, <3>2, <4>1, <4>2
    <3>3. CASE y = t /\ \E i \in 1..(n - 1) : s[i] = x
      <4>1. PICK i \in 1..(n - 1) : s[i] = x
        BY <3>3
      <4>2. i \in 1..Len(s) /\ i < n
        BY <1>1, <1>3, <4>1, LenProperties
      <4>3. InitPrio[x] <= InitPrio[t]
        BY <2>2, <4>1, <4>2
      <4>4. Contains(a, x)
        BY <1>2, <4>1, <4>2 DEF Contains
      <4>5. Before(Append(a, t), x, t)
        BY <1>1, <4>4, AppendBefore
      <4>. QED BY <1>1, <3>3, <4>3, <4>5
    <3>. QED BY <1>1, <1>3, <2>3, <3>1, <3>2, <3>3, InsertBefore
  <2>. QED BY <1>0, <1>2, <1>5, <1>6, <1>8, <2>3 DEF OrderPart
<1>9. CASE flag = "FIFO"
  <2>1. n = Len(s) + 1
    BY <1>0, <1>9 DEF InsertPos
  <2>2. ASSUME NEW x \in Thread, NEW y \in Thread, Before(InsertAt(s, n, t), x, y)
        PROVE  Before(Append(a, t), x, y)
    <3>1. CASE Before(s, x, y)
      BY <1>1, <1>2, <1>9, <3>1, AppendBefore
    <3>2. CASE x = t /\ \E i \in n..Len(s) : s[i] = y
      BY <1>1, <2>1, <3>2, LenProperties
    <3>3. CASE y = t /\ \E i \in 1..(n - 1) : s[i] = x
      <4>1. PICK i \in 1..(n - 1) : s[i] = x
        BY <3>3
      <4>2. i \in 1..Len(s)
        BY <1>1, <2>1, <4>1, LenProperties
      <4>3. Contains(a, x)
        BY <1>2, <4>1, <4>2 DEF Contains
      <4>. QED BY <1>1, <3>3, <4>3, AppendBefore
    <3>. QED BY <1>1, <1>3, <2>2, <3>1, <3>2, <3>3, InsertBefore
  <2>. QED BY <1>0, <1>2, <1>5, <1>6, <1>9, <2>2 DEF OrderPart
<1>. QED BY <1>1, <1>8, <1>9

\* Neither list changes
LEMMA StayOrder ==
  ASSUME OInv, k'.prio = k.prio, flag' = flag, k'.wait["sem"] = k.wait["sem"],
         arrived' = arrived
  PROVE  OrderPart'
<1>0. PICK s, a : s = k.wait["sem"] /\ a = arrived
  OBVIOUS
<1>1. /\ k.prio = InitPrio /\ Distinct(a)
      /\ \A t \in Thread : Contains(a, t) <=> Contains(s, t)
      /\ \A t, u \in Thread : Before(s, t, u) =>
           \/ flag = "PRIO" /\ InitPrio[t] < InitPrio[u]
           \/ /\ flag = "PRIO" => InitPrio[t] = InitPrio[u]
              /\ Before(a, t, u)
  BY <1>0 DEF OInv, OrderPart
<1>2. k'.wait["sem"] = s /\ arrived' = a /\ k'.prio = InitPrio
  BY <1>0, <1>1
<1>. QED BY <1>1, <1>2 DEF OrderPart

-----------------------------------------------------------------------------
(***************************************************************************)
(* Every step keeps it.                                                    *)
(***************************************************************************)

Inside == {t \in Thread : pc[t] \in {"schedule", "return"}}

\* Only rt_sem_take enters the list, and threads leave it by becoming ready
LEMMA InsideStep ==
  ASSUME OInv, NEW u \in Thread, Inside' \subseteq Inside,
         \A x \in Thread \ {u} :
           /\ k'.stat[x] = k.stat[x]
           /\ Contains(k.wait["sem"], x) => Contains(k'.wait["sem"], x),
         u \in Inside' => k'.stat[u] # "suspend"
  PROVE  InsidePart'
BY DEF OInv, InsidePart, Inside

\* Steps that leave the lists and what threads wait for alone
LEMMA QuietOrder ==
  ASSUME OInv, Inside' \subseteq Inside, Effect(k.stat, k.err, k.wait["sem"]),
         arrived' = arrived, flag' = flag
  PROVE  OrderPart' /\ InsidePart'
<1>1. OrderPart'
  BY StayOrder DEF Effect
<1>2. InsidePart'
  BY DEF OInv, InsidePart, Inside, Effect
<1>. QED BY <1>1, <1>2

\* Queueing behind a semaphore without permits
LEMMA TakeBlockOrder ==
  ASSUME OInv, NEW t \in Thread, NEW time \in Times, TakeBlock(t, time)
  PROVE  OInv'
<1>1. /\ IInv' /\ ~Contains(k.wait["sem"], t)
      /\ Effect([k.stat EXCEPT ![t] = "suspend"], [k.err EXCEPT ![t] = "EOK"],
                InsertAt(k.wait["sem"], InsertPos(k, k.wait["sem"], t, flag), t))
  BY TakeBlockKeeps DEF OInv
<1>2. arrived' = Append(arrived, t) /\ flag' = flag /\ pc' = [pc EXCEPT ![t] = "schedule"]
  BY DEF TakeBlock, Goto
<1>3. OrderPart'
  BY <1>1, <1>2, JoinOrder DEF Effect
<1>4. PICK s, n : s = k.wait["sem"] /\ n = InsertPos(k, s, t, flag)
  OBVIOUS
<1>5. s \in Seq(Thread) /\ n \in 1..(Len(s) + 1)
  BY <1>4, ListFacts, InsertPosRange
<1>6. \A x : Contains(InsertAt(s, n, t), x) <=> Contains(s, x) \/ x = t
  BY <1>5, InsertAtList
<1>7. InsidePart'
  BY <1>1, <1>2, <1>4, <1>6, ListFacts DEF OInv, InsidePart, Effect
<1>. QED BY <1>1, <1>3, <1>7 DEF OInv

\* A wait that runs out, and a sleep
LEMMA ExpireOrder ==
  ASSUME OInv, NEW t \in Thread, Expire(t)
  PROVE  OInv'
<1>1. /\ IInv'
      /\ Effect([k.stat EXCEPT ![t] = "ready"], [k.err EXCEPT ![t] = "ETIMEOUT"],
                RemoveFirst(k.wait["sem"], t))
  BY ExpireKeeps DEF OInv
<1>2. arrived' = RemoveFirst(arrived, t) /\ flag' = flag /\ pc' = pc
  BY DEF Expire
<1>3. OrderPart'
  <2>1. k'.prio = k.prio /\ k'.wait["sem"] = RemoveFirst(k.wait["sem"], t)
    BY <1>1 DEF Effect
  <2>. QED BY <1>2, <2>1, LeaveOrder
<1>4. \A x : Contains(k'.wait["sem"], x) <=> Contains(k.wait["sem"], x) /\ x # t
  BY <1>1, ListFacts, RemoveFirstList DEF Effect
<1>5. InsidePart'
  BY <1>1, <1>2, <1>4, ListFacts, InsideStep DEF Effect, Inside
<1>. QED BY <1>1, <1>3, <1>5 DEF OInv

\* A thread sleeps between its calls
LEMMA SleepOrder ==
  ASSUME OInv, NEW t \in Thread, Sleep(t)
  PROVE  OInv'
<1>1. IInv' /\ Effect([k.stat EXCEPT ![t] = "suspend"], k.err, k.wait["sem"])
  BY SleepKeeps DEF OInv
<1>2. arrived' = arrived /\ flag' = flag /\ pc' = [pc EXCEPT ![t] = "post"]
  BY DEF Sleep, Goto
<1>3. OrderPart'
  BY <1>1, <1>2, StayOrder DEF Effect
<1>4. Inside' \subseteq Inside /\ t \notin Inside'
  BY <1>2, ListFacts DEF Inside
<1>5. InsidePart'
  BY <1>1, <1>4, ListFacts, InsideStep DEF Effect
<1>. QED BY <1>1, <1>3, <1>5 DEF OInv

\* Waking the first waiter, with a permit or with an error
LEMMA WakesOrder ==
  ASSUME OInv, IInv', k.wait["sem"] # <<>>, NEW failed \in BOOLEAN,
         k' = IF failed THEN ResumeFailed(k, "sem") ELSE ResumeFirst(k, "sem"),
         arrived' = RemoveFirst(arrived, Head(k.wait["sem"])),
         Inside' = Inside, flag' = flag
  PROVE  OInv'
<1>1. PICK u : u = Head(k.wait["sem"])
  OBVIOUS
<1>2. /\ u \in Thread /\ k'.stat = [k.stat EXCEPT ![u] = "ready"]
      /\ k'.wait["sem"] = RemoveFirst(k.wait["sem"], u) /\ k'.prio = k.prio
      /\ \A x : Contains(k'.wait["sem"], x) <=> Contains(k.wait["sem"], x) /\ x # u
  BY <1>1, WakeStep DEF OInv
<1>3. OrderPart'
  BY <1>1, <1>2, LeaveOrder
<1>4. InsidePart'
  BY <1>2, ListFacts, InsideStep
<1>. QED BY <1>3, <1>4 DEF OInv

\* The steps that wake a waiter leave everybody at a place of the same kind
LEMMA WakePlaces ==
  ASSUME OInv, NEW t \in Thread, NEW woken \in BOOLEAN,
         Release(t, woken) \/ IsrRelease(woken) \/ ResetWake(t) \/ DetachWake(t)
  PROVE  /\ Inside' = Inside /\ flag' = flag
         /\ \A x \in Thread : pc'[x] # pc[x] => x \notin Inside
BY ListFacts DEF Release, IsrRelease, ResetWake, DetachWake, Goto, At, Inside

\* rt_sem_release, and a waiter that gets an error
LEMMA ReleaseOrder ==
  ASSUME OInv, NEW t \in Thread, NEW woken \in BOOLEAN,
         Release(t, woken) \/ IsrRelease(woken)
  PROVE  OInv'
<1>1. IInv' /\ Inside' = Inside /\ flag' = flag
  BY ReleaseKeeps, WakePlaces DEF OInv
<1>2. Post(woken)
  BY DEF Release, IsrRelease
<1>3. CASE woken
  <2>1. PICK failed \in BOOLEAN : ~failed
    OBVIOUS
  <2>2. /\ k.wait["sem"] # <<>> /\ arrived' = RemoveFirst(arrived, Head(k.wait["sem"]))
        /\ k' = IF failed THEN ResumeFailed(k, "sem") ELSE ResumeFirst(k, "sem")
    BY <1>2, <1>3, <2>1 DEF Post
  <2>. QED BY <1>1, <2>2, WakesOrder
<1>4. CASE ~woken
  <2>1. k' = k /\ arrived' = arrived
    BY <1>2, <1>4 DEF Post
  <2>2. Effect(k.stat, k.err, k.wait["sem"])
    BY <2>1 DEF Effect
  <2>. QED BY <1>1, <2>1, <2>2, QuietOrder DEF OInv
<1>. QED BY <1>3, <1>4

LEMMA ErrorWakesOrder ==
  ASSUME OInv, NEW t \in Thread, ResetWake(t) \/ DetachWake(t)
  PROVE  OInv'
<1>1. PICK failed \in BOOLEAN : failed
  OBVIOUS
<1>2. IInv' /\ Inside' = Inside /\ flag' = flag
  BY <1>1, ErrorWakesKeep, WakePlaces DEF OInv
<1>3. /\ k.wait["sem"] # <<>> /\ arrived' = RemoveFirst(arrived, Head(k.wait["sem"]))
      /\ k' = IF failed THEN ResumeFailed(k, "sem") ELSE ResumeFirst(k, "sem")
  BY <1>1 DEF ResetWake, DetachWake
<1>. QED BY <1>2, <1>3, WakesOrder

\* The other steps of threads leave both lists alone
Quiet(t) ==
  \/ TakeNow(t) \/ TakeSchedule(t) \/ TakeReturn(t) \/ PostSchedule(t) \/ IsrSchedule
  \/ Reset(t) \/ (\E v \in Resets : ResetValue(t, v))
  \/ Detach(t) \/ DetachTest(t) \/ DetachObject(t) \/ Tick

LEMMA QuietEffect ==
  ASSUME OInv, NEW t \in Thread, Quiet(t)
  PROVE  /\ Inside' \subseteq Inside /\ arrived' = arrived /\ flag' = flag
         /\ Effect(k.stat, k.err, k.wait["sem"])
         /\ \A x \in Thread : x \in Inside /\ x \notin Inside' => TakeReturn(t) /\ x = t
<1>1. pc \in [Thread -> PC]
  BY ListFacts
<1>2. CASE TakeNow(t) \/ TakeReturn(t)
  <2>1. k' = k /\ arrived' = arrived /\ flag' = flag
    BY <1>2 DEF TakeNow, TakeReturn
  <2>2. TakeNow(t) => pc' = pc
    BY DEF TakeNow
  <2>3. TakeReturn(t) => pc' = [pc EXCEPT ![t] = "run"]
    BY DEF TakeReturn, Goto
  <2>. QED BY <1>1, <1>2, <2>1, <2>2, <2>3 DEF Effect, Inside
<1>3. CASE TakeSchedule(t) \/ PostSchedule(t) \/ IsrSchedule
  <2>1. Effect(k.stat, k.err, k.wait["sem"])
    BY <1>3, SchedulesKeep DEF OInv
  <2>2. arrived' = arrived /\ flag' = flag
    BY <1>3 DEF TakeSchedule, PostSchedule, IsrSchedule
  <2>3. Inside' = Inside
    BY <1>1, <1>3 DEF TakeSchedule, PostSchedule, IsrSchedule, Goto, At, Inside
  <2>. QED BY <2>1, <2>2, <2>3
<1>4. CASE \/ Reset(t) \/ (\E v \in Resets : ResetValue(t, v))
           \/ Detach(t) \/ DetachTest(t) \/ DetachObject(t)
  <2>1. k' = k /\ arrived' = arrived /\ flag' = flag
    BY <1>4 DEF Reset, ResetValue, Detach, DetachTest, DetachObject
  <2>2. Inside' = Inside
    BY <1>1, <1>4 DEF Reset, ResetValue, Detach, DetachTest, DetachObject, Goto, At,
                      Resetting, Inside
  <2>. QED BY <2>1, <2>2 DEF Effect
<1>5. CASE Tick
  <2>1. Effect(k.stat, k.err, k.wait["sem"])
    BY <1>5, TickKeeps DEF OInv
  <2>. QED BY <1>5, <2>1 DEF Tick, Inside
<1>. QED BY <1>2, <1>3, <1>4, <1>5 DEF Quiet

\* Every step is one of these
LEMMA StepKinds ==
  ASSUME [Next]_vars
  PROVE  \/ \E t \in Thread :
              \/ Quiet(t) \/ Expire(t) \/ Sleep(t) \/ ResetWake(t) \/ DetachWake(t)
              \/ \E time \in Times : TakeBlock(t, time)
              \/ \E woken \in BOOLEAN : Release(t, woken) \/ IsrRelease(woken)
         \/ UNCHANGED vars
<1>1. \E t \in Thread : TRUE
  BY KernelAssumption
<1>. QED BY <1>1 DEF Next, Continue, Quiet

\* Every step keeps the order
LEMMA OrderKeeps == OInv /\ [Next]_vars => OInv'
<1> SUFFICES ASSUME OInv, [Next]_vars PROVE OInv'
  OBVIOUS
<1>1. IInv'
  BY StepKeeps DEF OInv
<1>2. ASSUME NEW t \in Thread, Quiet(t) PROVE OInv'
  BY <1>1, <1>2, QuietEffect, QuietOrder DEF OInv
<1>3. ASSUME NEW t \in Thread, Expire(t) \/ Sleep(t) PROVE OInv'
  BY <1>3, ExpireOrder, SleepOrder
<1>4. ASSUME NEW t \in Thread, ResetWake(t) \/ DetachWake(t) PROVE OInv'
  BY <1>4, ErrorWakesOrder
<1>5. ASSUME NEW t \in Thread, NEW time \in Times, TakeBlock(t, time) PROVE OInv'
  BY <1>5, TakeBlockOrder
<1>6. ASSUME NEW t \in Thread, NEW woken \in BOOLEAN, Release(t, woken) \/ IsrRelease(woken)
      PROVE  OInv'
  BY <1>6, ReleaseOrder
<1>7. CASE UNCHANGED vars
  <2>1. UNCHANGED <<k, pc, arrived, flag>>
    BY <1>7 DEF vars
  <2>2. OrderPart'
    BY <2>1, StayOrder
  <2>3. InsidePart'
    BY <2>1 DEF OInv, InsidePart
  <2>. QED BY <1>1, <2>2, <2>3 DEF OInv
<1>. QED BY <1>2, <1>3, <1>4, <1>5, <1>6, <1>7, StepKinds

\* The order at the start
LEMMA OrderInit == Init => OInv
<1> SUFFICES ASSUME Init PROVE OInv
  OBVIOUS
<1>1. k.wait["sem"] = <<>> /\ k.prio = InitPrio
  BY BootKeeps, SemList DEF Init
<1>2. /\ \A t, u : ~Before(<<>>, t, u)
      /\ \A t : ~Contains(<<>>, t)
      /\ Distinct(<<>>)
  BY EmptyList DEF Before, Distinct
<1>3. OrderPart
  BY <1>1, <1>2 DEF Init, OrderPart
<1>4. InsidePart
  BY DEF Init, InsidePart
<1>. QED BY <1>3, <1>4, InitInv DEF OInv

\* rt_sem_release serves the waiter whose turn it is: under RT_IPC_FLAG_PRIO the most
\* urgent one, and of equals, or under RT_IPC_FLAG_FIFO, the one that came first
THEOREM TurnsKept == Spec => []WakeOrder
<1>1. OInv => WakeOrder
  <2> SUFFICES ASSUME OInv PROVE WakeOrder
    OBVIOUS
  <2> DEFINE came(t) == CHOOSE i \in DOMAIN arrived : arrived[i] = t
  <2>1. PICK s : s = k.wait["sem"]
    OBVIOUS
  <2>2. /\ s \in Seq(Thread) /\ arrived \in Seq(Thread) /\ Distinct(arrived)
        /\ DOMAIN s = 1..Len(s) /\ DOMAIN arrived = 1..Len(arrived)
    BY <2>1, ListFacts, LenProperties
  <2>3. ToSet(s) = ToSet(arrived)
    <3>1. \A x : (x \in ToSet(s) <=> Contains(s, x)) /\ (x \in ToSet(arrived) <=> Contains(arrived, x))
      BY <2>2 DEF ToSet, Contains
    <3>2. \A x : Contains(s, x) \/ Contains(arrived, x) => x \in Thread
      BY <2>2, ElementOfSeq DEF Contains
    <3>. QED BY <2>1, <3>1, <3>2 DEF OInv, OrderPart
  <2>4. ASSUME NEW t, NEW u, Before(arrived, t, u) PROVE came(t) < came(u)
    <3>1. PICK i, j \in 1..Len(arrived) : i < j /\ arrived[i] = t /\ arrived[j] = u
      BY <2>4 DEF Before
    <3>2. came(t) = i /\ came(u) = j
      BY <2>2, <3>1 DEF Distinct
    <3>. QED BY <3>1, <3>2
  <2>5. ASSUME NEW i \in DOMAIN s, NEW j \in DOMAIN s, i < j
        PROVE  \/ flag = "PRIO" /\ k.prio[s[i]] < k.prio[s[j]]
               \/ /\ flag = "PRIO" => k.prio[s[i]] = k.prio[s[j]]
                  /\ came(s[i]) < came(s[j])
    <3>1. Before(s, s[i], s[j]) /\ s[i] \in Thread /\ s[j] \in Thread
      BY <2>2, <2>5, ElementOfSeq DEF Before
    <3> HIDE DEF came
    <3>. QED BY <2>1, <2>4, <3>1 DEF OInv, OrderPart
  <2>. QED BY <2>1, <2>3, <2>5 DEF WakeOrder
<1>. QED BY <1>1, OrderInit, OrderKeeps, PTL DEF Spec

-----------------------------------------------------------------------------
(***************************************************************************)
(* Semaphore implements AbstractSemaphore.                                 *)
(***************************************************************************)

\* The list operators mean the same in the abstract module
LEMMA SameOperators ==
  /\ \A s, x : Abstract!Contains(s, x) <=> Contains(s, x)
  /\ \A s, x : Abstract!RemoveFirst(s, x) = RemoveFirst(s, x)
  /\ \A s, x : Abstract!RemoveAt(s, x) = RemoveAt(s, x)
  /\ \A s : Abstract!Min(s) = Min(s)
  /\ \A s : Abstract!ToSet(s) = ToSet(s)
<1>1. \A s, x : Abstract!Contains(s, x) <=> Contains(s, x)
  BY DEF Abstract!Contains, Contains
<1>2. \A s, x : Abstract!RemoveAt(s, x) = RemoveAt(s, x)
  BY DEF Abstract!RemoveAt, RemoveAt
<1>3. \A s : Abstract!Min(s) = Min(s)
  BY Zenon DEF Abstract!Min, Min
<1>4. \A s : Abstract!ToSet(s) = ToSet(s)
  BY Zenon DEF Abstract!ToSet, ToSet
<1>5. \A s, x : Abstract!RemoveFirst(s, x) = RemoveFirst(s, x)
  <2> SUFFICES ASSUME NEW s, NEW x PROVE Abstract!RemoveFirst(s, x) = RemoveFirst(s, x)
    OBVIOUS
  <2>1. Abstract!SelectInSeq(s, LAMBDA v : v = x) = SelectInSeq(s, LAMBDA v : v = x)
    BY <1>3 DEF Abstract!SelectInSeq, SelectInSeq
  <2>. QED BY <1>2, <2>1 DEF Abstract!RemoveFirst, RemoveFirst
<1>. QED BY <1>1, <1>2, <1>3, <1>4, <1>5

\* Taking out what is in one place only
LEMMA RemoveFirstPlace ==
  ASSUME NEW S, NEW s \in Seq(S), Distinct(s), NEW n \in 1..Len(s)
  PROVE  RemoveFirst(s, s[n]) = RemoveAt(s, n)
<1> DEFINE I == {i \in 1..Len(s) : s[i] = s[n]}
<1>1. I = {n}
  BY DEF Distinct
<1>2. Min(I) = n
  <2>1. I \in SUBSET Nat /\ I # {}
    BY <1>1
  <2>2. Min(I) \in I
    BY <2>1, MinNat
  <2>. QED BY <1>1, <2>2
<1>3. SelectInSeq(s, LAMBDA v : v = s[n]) = n
  BY <1>1, <1>2 DEF SelectInSeq
<1>. QED BY <1>3 DEF RemoveFirst

\* Nobody has arrived when nobody waits
LEMMA NobodyArrived ==
  ASSUME OInv
  PROVE  arrived = <<>> <=> k.wait["sem"] = <<>>
<1>1. /\ k.wait["sem"] \in Seq(Thread) /\ arrived \in Seq(Thread)
      /\ \A t \in Thread : Contains(arrived, t) <=> Contains(k.wait["sem"], t)
  BY ListFacts DEF OInv, OrderPart
<1>2. k.wait["sem"] # <<>> => \E t \in Thread : Contains(k.wait["sem"], t)
  BY <1>1, HeadList
<1>3. arrived # <<>> => \E t \in Thread : Contains(arrived, t)
  BY <1>1, HeadList
<1>. QED BY <1>1, <1>2, <1>3, EmptyList

\* The first thread of the suspend list is the one whose turn it is
LEMMA TurnIsHead ==
  ASSUME OInv, k.wait["sem"] # <<>>, NEW u, u = Head(k.wait["sem"])
  PROVE  /\ arrived # <<>> /\ u = arrived[Abstract!Turn]
         /\ RemoveFirst(arrived, u) = Abstract!RemoveAt(arrived, Abstract!Turn)
<1>1. PICK s : s = k.wait["sem"]
  OBVIOUS
<1>2. /\ s \in Seq(Thread) /\ arrived \in Seq(Thread) /\ Distinct(arrived) /\ Distinct(s)
      /\ InitPrio \in [Thread -> Nat] /\ flag \in {"FIFO", "PRIO"}
      /\ DOMAIN arrived = 1..Len(arrived)
  BY <1>1, ListFacts, LenProperties DEF OInv, IInv, TypePart
<1>3. u \in Thread /\ Contains(s, u) /\ u = s[1] /\ 1 \in 1..Len(s)
  BY <1>1, <1>2, HeadList, LenProperties
<1>4. \A x \in Thread : Contains(arrived, x) <=> Contains(s, x)
  BY <1>1 DEF OInv, OrderPart
<1>5. PICK n \in 1..Len(arrived) : arrived[n] = u
  BY <1>3, <1>4 DEF Contains
<1>6. ASSUME NEW i \in 1..Len(arrived), i # n
      PROVE  /\ arrived[i] \in Thread
             /\ \/ flag = "PRIO" /\ InitPrio[u] < InitPrio[arrived[i]]
                \/ (flag = "PRIO" => InitPrio[u] = InitPrio[arrived[i]]) /\ n < i
  <2>1. arrived[i] \in Thread /\ arrived[i] # u
    BY <1>2, <1>5, <1>6, ElementOfSeq DEF Distinct
  <2>2. Contains(s, arrived[i])
    BY <1>4, <2>1 DEF Contains
  <2>3. PICK j \in 1..Len(s) : s[j] = arrived[i]
    BY <2>2 DEF Contains
  <2>4. Before(s, u, arrived[i])
    BY <1>3, <2>1, <2>3 DEF Before
  <2>5. \/ flag = "PRIO" /\ InitPrio[u] < InitPrio[arrived[i]]
        \/ (flag = "PRIO" => InitPrio[u] = InitPrio[arrived[i]]) /\ Before(arrived, u, arrived[i])
    BY <1>1, <1>3, <2>1, <2>4 DEF OInv, OrderPart
  <2>6. Before(arrived, u, arrived[i]) => n < i
    BY <1>2, <1>5 DEF Before, Distinct
  <2>. QED BY <2>1, <2>5, <2>6
<1>7. Abstract!Turn = n
  <2>1. CASE flag = "FIFO"
    <3>1. n = 1
      BY <1>5, <1>6, <2>1, <1>2, LenProperties
    <3>. QED BY <2>1, <3>1 DEF Abstract!Turn
  <2>2. CASE flag = "PRIO"
    <3> DEFINE T == {i \in DOMAIN arrived :
                       \A j \in DOMAIN arrived : ~(InitPrio[arrived[j]] < InitPrio[arrived[i]])}
    <3>1. InitPrio[u] \in Nat /\ \A i \in 1..Len(arrived) : InitPrio[arrived[i]] \in Nat
      BY <1>2, <1>3, ElementOfSeq
    <3>2. n \in T
      <4>1. \A j \in 1..Len(arrived) : ~(InitPrio[arrived[j]] < InitPrio[arrived[n]])
        BY <1>5, <1>6, <2>2, <3>1
      <4>. QED BY <1>2, <4>1
    <3>3. \A i \in T : n <= i
      <4> SUFFICES ASSUME NEW i \in T, i # n PROVE n < i
        OBVIOUS
      <4>1. i \in 1..Len(arrived) /\ ~(InitPrio[arrived[n]] < InitPrio[arrived[i]])
        BY <1>2
      <4>. QED BY <1>5, <1>6, <2>2, <4>1
    <3>4. T \in SUBSET Nat
      BY <1>2
    <3>5. Min(T) \in T /\ \A x \in T : Min(T) <= x
      BY <3>2, <3>4, MinNat
    <3>6. Min(T) = n
      <4>1. Min(T) <= n /\ n <= Min(T) /\ Min(T) \in Nat /\ n \in Nat
        BY <3>2, <3>3, <3>4, <3>5
      <4>. QED BY <4>1
    <3>7. Abstract!Min(T) = n
      BY <3>6, SameOperators
    <3>. QED BY <2>2, <3>7 DEF Abstract!Turn
  <2>. QED BY <1>2, <2>1, <2>2
<1>8. RemoveFirst(arrived, u) = RemoveAt(arrived, n)
  BY <1>2, <1>5, RemoveFirstPlace
<1>. QED BY <1>2, <1>5, <1>7, <1>8, SameOperators

-----------------------------------------------------------------------------
(***************************************************************************)
(* The steps of the code, as steps of the abstract semaphore.              *)
(***************************************************************************)

\* Threads in the same places with the same errors hold the same
LEMMA SameStatus ==
  ASSUME \A x \in Thread : (x \in Back' <=> x \in Back) /\ (x \in Back => k'.err[x] = k.err[x])
  PROVE  Granted' = Granted /\ Failed' = Failed
<1>1. \A x : (x \in Granted' <=> x \in Granted) /\ (x \in Failed' <=> x \in Failed)
  BY DEF Granted, Failed, Back
<1>. QED BY <1>1, Zenon

\* rt_sem_take that finds a permit
LEMMA TakeNowImplements ==
  ASSUME OInv, NEW t \in Thread, TakeNow(t)
  PROVE  Abstract!Next
<1>1. UNCHANGED <<k, pc, arrived, flag>> /\ value > 0 /\ value' = value - 1
  BY DEF TakeNow
<1>2. Granted' = Granted /\ Failed' = Failed
  BY <1>1, SameStatus DEF Back
<1>. QED BY <1>1, <1>2 DEF Abstract!Next, Abstract!Acquire

\* ... and one that finds none
LEMMA TakeBlockImplements ==
  ASSUME OInv, NEW t \in Thread, NEW time \in Times, TakeBlock(t, time)
  PROVE  Abstract!Next
<1>1. /\ ~Contains(k.wait["sem"], t) /\ k.stat[t] = "ready"
      /\ Effect([k.stat EXCEPT ![t] = "suspend"], [k.err EXCEPT ![t] = "EOK"],
                InsertAt(k.wait["sem"], InsertPos(k, k.wait["sem"], t, flag), t))
  BY TakeBlockKeeps DEF OInv
<1>2. /\ value = 0 /\ pc[t] = "run" /\ arrived' = Append(arrived, t)
      /\ value' = value /\ flag' = flag /\ pc' = [pc EXCEPT ![t] = "schedule"]
  BY DEF TakeBlock, At, Goto
<1>3. Granted' = Granted /\ Failed' = Failed
  <2>1. t \notin Back /\ t \notin Back'
    BY <1>1, <1>2, ListFacts DEF Back, Effect
  <2>2. \A x \in Thread \ {t} : (x \in Back' <=> x \in Back) /\ k'.err[x] = k.err[x]
    BY <1>1, <1>2, ListFacts DEF Back, Effect
  <2>. QED BY <2>1, <2>2, SameStatus
<1>4. ~Abstract!Contains(arrived, t)
  BY <1>1, SameOperators DEF OInv, OrderPart
<1>. QED BY <1>2, <1>3, <1>4 DEF Abstract!Next, Abstract!Block

\* A thread that runs again with what rt_sem_take returns
LEMMA TakeReturnImplements ==
  ASSUME OInv, NEW t \in Thread, TakeReturn(t)
  PROVE  Abstract!Next
<1>1. /\ k' = k /\ value' = value /\ arrived' = arrived /\ flag' = flag
      /\ pc' = [pc EXCEPT ![t] = "run"] /\ pc[t] = "return" /\ k.cur = t
  BY DEF TakeReturn, Goto, At
<1>2. k.stat[t] = "ready"
  BY <1>1 DEF OInv, IInv, RunningPart
<1>3. t \in Back /\ \A x : x \in Back' <=> x \in Back /\ x # t
  BY <1>1, <1>2, ListFacts DEF Back
<1>4. /\ t \in Granted \cup Failed
      /\ \A x : /\ x \in Granted' <=> x \in Granted \ {t}
                /\ x \in Failed' <=> x \in Failed \ {t}
  BY <1>1, <1>3 DEF Granted, Failed
<1>5. Granted' = Granted \ {t} /\ Failed' = Failed \ {t}
  BY <1>4, Zenon
<1>. QED BY <1>1, <1>4, <1>5 DEF Abstract!Next, Abstract!Return

\* Waking the first waiter, with a permit or with an error
LEMMA WakeStatus ==
  ASSUME OInv, k.wait["sem"] # <<>>, NEW failed \in BOOLEAN,
         k' = IF failed THEN ResumeFailed(k, "sem") ELSE ResumeFirst(k, "sem"),
         NEW u, u = Head(k.wait["sem"]), Inside' = Inside
  PROVE  /\ u \in Thread /\ Contains(arrived, u)
         /\ failed => Granted' = Granted /\ Failed' = Failed \cup {u}
         /\ ~failed => Granted' = Granted \cup {u} /\ Failed' = Failed
<1>1. /\ u \in Thread /\ k.stat[u] = "suspend" /\ Contains(k.wait["sem"], u)
      /\ k'.stat = [k.stat EXCEPT ![u] = "ready"]
      /\ k'.err = IF failed THEN [k.err EXCEPT ![u] = "ERROR"] ELSE k.err
  BY WakeStep DEF OInv
<1>2. u \in Inside /\ k.err[u] = "EOK"
  BY <1>1 DEF OInv, IInv, WaitingPart, Inside
<1>3. Back = {x \in Inside : k.stat[x] = "ready"} /\ Back' = {x \in Inside : k'.stat[x] = "ready"}
  BY DEF Back, Inside
<1>4. \A x : x \in Back' <=> x \in Back \/ x = u
  BY <1>1, <1>2, <1>3, ListFacts DEF Inside
<1>5. u \notin Back /\ Back \subseteq Thread
  BY <1>1, <1>3 DEF Inside
<1>6. \A x \in Back : k'.err[x] = k.err[x]
  BY <1>1, <1>5, ListFacts
<1>7. k'.err[u] = IF failed THEN "ERROR" ELSE "EOK"
  BY <1>1, <1>2, ListFacts
<1>8. CASE failed
  <2>1. \A x : /\ x \in Granted' <=> x \in Granted
               /\ x \in Failed' <=> x \in Failed \cup {u}
    BY <1>4, <1>5, <1>6, <1>7, <1>8 DEF Granted, Failed
  <2>2. Granted' = Granted /\ Failed' = Failed \cup {u}
    BY <2>1, Zenon
  <2>. QED BY <1>1, <1>8, <2>2 DEF OInv, OrderPart
<1>9. CASE ~failed
  <2>1. \A x : /\ x \in Granted' <=> x \in Granted \cup {u}
               /\ x \in Failed' <=> x \in Failed
    BY <1>4, <1>5, <1>6, <1>7, <1>9 DEF Granted, Failed
  <2>2. Granted' = Granted \cup {u} /\ Failed' = Failed
    BY <2>1, Zenon
  <2>. QED BY <1>1, <1>9, <2>2 DEF OInv, OrderPart
<1>. QED BY <1>8, <1>9

\* rt_sem_release: the permit goes to the waiter whose turn it is, or is counted
LEMMA ReleaseImplements ==
  ASSUME MaxValue < ValueRange, OInv, NEW t \in Thread, NEW woken \in BOOLEAN,
         Release(t, woken) \/ IsrRelease(woken)
  PROVE  Abstract!Next
<1>1. Post(woken) /\ Inside' = Inside /\ flag' = flag
  BY WakePlaces DEF Release, IsrRelease
<1>2. CASE woken
  <2>0. PICK u : u = Head(k.wait["sem"])
    OBVIOUS
  <2>1. PICK failed \in BOOLEAN : ~failed
    OBVIOUS
  <2>2. /\ k.wait["sem"] # <<>> /\ arrived' = RemoveFirst(arrived, u) /\ value' = value
        /\ k' = IF failed THEN ResumeFailed(k, "sem") ELSE ResumeFirst(k, "sem")
    BY <1>1, <1>2, <2>0, <2>1 DEF Post
  <2>3. Granted' = Granted \cup {u} /\ Failed' = Failed
    BY <1>1, <2>0, <2>1, <2>2, WakeStatus
  <2>4. /\ arrived # <<>> /\ u = arrived[Abstract!Turn]
        /\ arrived' = Abstract!RemoveAt(arrived, Abstract!Turn)
    BY <2>0, <2>2, TurnIsHead
  <2>. QED BY <1>1, <2>2, <2>3, <2>4 DEF Abstract!Next, Abstract!Post
<1>3. CASE ~woken
  <2>1. /\ k' = k /\ arrived' = arrived /\ k.wait["sem"] = <<>>
        /\ value < MaxValue /\ value' = (value + 1) % ValueRange
    BY <1>1, <1>3 DEF Post
  <2>2. value' = value + 1
    BY <2>1, SemaphoreAssumption, SMTT(60) DEF OInv, IInv, TypePart
  <2>3. arrived = <<>>
    BY <2>1, NobodyArrived
  <2>4. Granted' = Granted /\ Failed' = Failed
    <3>1. Back = {x \in Inside : k.stat[x] = "ready"} /\ Back' = {x \in Inside : k.stat[x] = "ready"}
      BY <1>1, <2>1 DEF Back, Inside
    <3>. QED BY <2>1, <3>1, SameStatus
  <2>. QED BY <1>1, <2>1, <2>2, <2>3, <2>4 DEF Abstract!Next, Abstract!Post
<1>. QED BY <1>2, <1>3

\* RT_IPC_CMD_RESET and rt_sem_detach make one more waiter give up
LEMMA ErrorWakesImplement ==
  ASSUME OInv, NEW t \in Thread, ResetWake(t) \/ DetachWake(t)
  PROVE  Abstract!Next
<1>0. PICK u : u = Head(k.wait["sem"])
  OBVIOUS
<1>1. PICK failed \in BOOLEAN : failed
  OBVIOUS
<1>2. /\ Inside' = Inside /\ flag' = flag
      /\ k.wait["sem"] # <<>> /\ arrived' = RemoveFirst(arrived, u) /\ value' = value
      /\ k' = IF failed THEN ResumeFailed(k, "sem") ELSE ResumeFirst(k, "sem")
  <2>1. PICK woken \in BOOLEAN : TRUE
    OBVIOUS
  <2>2. Inside' = Inside /\ flag' = flag
    BY WakePlaces
  <2>. QED BY <1>0, <1>1, <2>2 DEF ResetWake, DetachWake
<1>3. u \in Thread /\ Contains(arrived, u) /\ Granted' = Granted /\ Failed' = Failed \cup {u}
  BY <1>0, <1>1, <1>2, WakeStatus
<1>4. Abstract!Contains(arrived, u) /\ arrived' = Abstract!RemoveFirst(arrived, u)
  BY <1>2, <1>3, SameOperators
<1>. QED BY <1>2, <1>3, <1>4 DEF Abstract!Next, Abstract!GiveUp

\* A timeout makes a waiter give up; the end of a sleep is none of the semaphore's business
LEMMA ExpireImplements ==
  ASSUME OInv, NEW t \in Thread, Expire(t)
  PROVE  [Abstract!Next]_Abstract!vars
<1>1. /\ k.stat[t] = "suspend"
      /\ Effect([k.stat EXCEPT ![t] = "ready"], [k.err EXCEPT ![t] = "ETIMEOUT"],
                RemoveFirst(k.wait["sem"], t))
  BY ExpireKeeps DEF OInv
<1>2. arrived' = RemoveFirst(arrived, t) /\ flag' = flag /\ pc' = pc /\ value' = value
  BY DEF Expire
<1>3. \A x \in Thread \ {t} : (x \in Back' <=> x \in Back) /\ k'.err[x] = k.err[x]
  BY <1>1, <1>2, ListFacts DEF Back, Effect
<1>4. t \notin Back /\ k'.err[t] = "ETIMEOUT" /\ k'.stat[t] = "ready"
  BY <1>1, ListFacts DEF Back, Effect
<1>5. CASE Contains(k.wait["sem"], t)
  <2>1. t \in Back'
    BY <1>2, <1>4, <1>5 DEF OInv, IInv, WaitingPart, Back
  <2>2. \A x : /\ x \in Granted' <=> x \in Granted
               /\ x \in Failed' <=> x \in Failed \cup {t}
    <3>1. Back \subseteq Thread /\ Back' \subseteq Thread
      BY DEF Back
    <3>. QED BY <1>3, <1>4, <2>1, <3>1 DEF Granted, Failed
  <2>3. Granted' = Granted /\ Failed' = Failed \cup {t}
    BY <2>2, Zenon
  <2>4. Abstract!Contains(arrived, t) /\ arrived' = Abstract!RemoveFirst(arrived, t)
    BY <1>2, <1>5, SameOperators DEF OInv, OrderPart
  <2>. QED BY <1>2, <2>3, <2>4 DEF Abstract!Next, Abstract!GiveUp
<1>6. CASE ~Contains(k.wait["sem"], t)
  <2>1. t \notin Back'
    BY <1>1, <1>2, <1>6 DEF OInv, InsidePart, Back
  <2>2. Granted' = Granted /\ Failed' = Failed
    BY <1>3, <1>4, <2>1, SameStatus
  <2>3. arrived' = arrived
    BY <1>2, <1>6, ListFacts, RemoveFirstList DEF OInv, OrderPart
  <2>. QED BY <1>2, <2>2, <2>3 DEF Abstract!vars
<1>. QED BY <1>5, <1>6

\* A sleep between the calls changes nothing here
LEMMA SleepImplements ==
  ASSUME OInv, NEW t \in Thread, Sleep(t)
  PROVE  UNCHANGED Abstract!vars
<1>1. k.stat[t] = "ready" /\ Effect([k.stat EXCEPT ![t] = "suspend"], k.err, k.wait["sem"])
  BY SleepKeeps DEF OInv
<1>2. /\ arrived' = arrived /\ flag' = flag /\ value' = value
      /\ pc[t] = "run" /\ pc' = [pc EXCEPT ![t] = "post"]
  BY DEF Sleep, Goto, At
<1>3. \A x \in Thread : (x \in Back' <=> x \in Back) /\ k'.err[x] = k.err[x]
  BY <1>1, <1>2, ListFacts DEF Back, Effect
<1>4. Granted' = Granted /\ Failed' = Failed
  BY <1>3, SameStatus
<1>. QED BY <1>2, <1>4 DEF Abstract!vars

\* Of the steps that leave both lists alone, a reset sets the counter and the others,
\* but for taking and returning, change nothing
LEMMA QuietImplements ==
  ASSUME OInv, NEW t \in Thread, Quiet(t)
  PROVE  [Abstract!Next]_Abstract!vars
<1>1. CASE TakeNow(t) \/ TakeReturn(t)
  BY <1>1, TakeNowImplements, TakeReturnImplements
<1>2. CASE ~(TakeNow(t) \/ TakeReturn(t))
  <2>1. /\ Inside' = Inside /\ arrived' = arrived /\ flag' = flag
        /\ k'.stat = k.stat /\ k'.err = k.err
    <3>1. /\ Inside' \subseteq Inside /\ arrived' = arrived /\ flag' = flag
          /\ Effect(k.stat, k.err, k.wait["sem"])
          /\ \A x \in Thread : x \in Inside => x \in Inside'
      BY <1>2, QuietEffect
    <3>. QED BY <3>1 DEF Effect, Inside
  <2>2. Granted' = Granted /\ Failed' = Failed
    <3>1. \A x \in Thread : (x \in Back' <=> x \in Back) /\ k'.err[x] = k.err[x]
      <4>1. Back = {x \in Inside : k.stat[x] = "ready"} /\ Back' = {x \in Inside' : k'.stat[x] = "ready"}
        BY DEF Back, Inside
      <4>. QED BY <2>1, <4>1
    <3>. QED BY <3>1, SameStatus
  <2>3. CASE \E v \in Resets : ResetValue(t, v)
    <3>1. PICK v \in Resets : ResetValue(t, v)
      BY <2>3
    <3>2. k.wait["sem"] = <<>> /\ value' = v /\ v \in Nat
      BY <3>1, SemaphoreAssumption DEF ResetValue
    <3>3. arrived = <<>>
      BY <3>2, NobodyArrived
    <3>4. Abstract!ToSet(arrived) = {}
      BY <3>3 DEF Abstract!ToSet
    <3>. QED BY <2>1, <2>2, <3>2, <3>3, <3>4 DEF Abstract!Next, Abstract!Reset
  <2>4. CASE ~\E v \in Resets : ResetValue(t, v)
    <3>1. value' = value
      BY <1>2, <2>4 DEF Quiet, TakeSchedule, PostSchedule, IsrSchedule, Reset, Detach,
                        DetachTest, DetachObject, Tick
    <3>. QED BY <2>1, <2>2, <3>1 DEF Abstract!vars
  <2>. QED BY <2>3, <2>4
<1>. QED BY <1>1, <1>2

\* Every step of the code is a step of the abstract semaphore, or none
LEMMA StepImplements ==
  ASSUME MaxValue < ValueRange
  PROVE  OInv /\ [Next]_vars => [Abstract!Next]_Abstract!vars
<1> SUFFICES ASSUME OInv, [Next]_vars PROVE [Abstract!Next]_Abstract!vars
  OBVIOUS
<1>1. ASSUME NEW t \in Thread, Quiet(t) \/ Expire(t) \/ Sleep(t)
      PROVE  [Abstract!Next]_Abstract!vars
  BY <1>1, QuietImplements, ExpireImplements, SleepImplements
<1>2. ASSUME NEW t \in Thread, ResetWake(t) \/ DetachWake(t) PROVE Abstract!Next
  BY <1>2, ErrorWakesImplement
<1>3. ASSUME NEW t \in Thread, NEW time \in Times, TakeBlock(t, time) PROVE Abstract!Next
  BY <1>3, TakeBlockImplements
<1>4. ASSUME NEW t \in Thread, NEW woken \in BOOLEAN, Release(t, woken) \/ IsrRelease(woken)
      PROVE  Abstract!Next
  BY <1>4, ReleaseImplements
<1>5. CASE UNCHANGED vars
  <2>1. UNCHANGED <<k, pc, value, flag, arrived>>
    BY <1>5 DEF vars
  <2>2. Granted' = Granted /\ Failed' = Failed
    BY <2>1, SameStatus DEF Back
  <2>. QED BY <2>1, <2>2 DEF Abstract!vars
<1>. QED BY <1>1, <1>2, <1>3, <1>4, <1>5, StepKinds

\* While sem->value does not wrap, the semaphore is a counting semaphore: a release hands
\* its permit to the waiter whose turn it is, a permit handed over cannot be taken by
\* anybody else, and waiters leave by a permit, a timeout, a reset or a detach only
THEOREM Implements ==
  ASSUME MaxValue < ValueRange
  PROVE  Spec => ImplementsSemaphore
<1>1. Init => Abstract!Init
  <2> SUFFICES ASSUME Init PROVE Abstract!Init
    OBVIOUS
  <2>1. Granted = {} /\ Failed = {}
    BY DEF Init, Granted, Failed, Back
  <2>. QED BY <2>1, SemaphoreAssumption DEF Init, Abstract!Init
<1>2. OInv /\ [Next]_vars => [Abstract!Next]_Abstract!vars
  BY StepImplements
<1>. QED
  BY <1>1, <1>2, OrderInit, OrderKeeps, PTL DEF Spec, Abstract!Spec, ImplementsSemaphore
=============================================================================
