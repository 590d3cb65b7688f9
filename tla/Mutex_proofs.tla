---------------------------- MODULE Mutex_proofs ----------------------------
(***************************************************************************)
(* Proofs about Mutex, for every number of threads and mutexes, every      *)
(* priority assignment, both flags and any depth of recursive takes.       *)
(***************************************************************************)
EXTENDS Mutex, RtKernel_proofs, FiniteSetTheorems

-----------------------------------------------------------------------------
(***************************************************************************)
(* The inductive invariant.                                                *)
(***************************************************************************)

\* The kernel lists are consistent, nothing locks the scheduler or ends a thread
KernelPart ==
  /\ KernelInv(k, {})
  /\ k.lock = 0
  /\ \A t \in Thread : k.stat[t] # "close"

\* Types; an owned mutex has the priority its owner goes back to
TypePart ==
  /\ pc \in [Thread -> PC]
  /\ want \in [Thread -> Mutexes]
  /\ value \in [Mutexes -> {0, 1}]
  /\ owner \in [Mutexes -> User \cup {NoThread}]
  /\ orig \in [Mutexes -> Prio \cup {255}]
  /\ hold \in [Mutexes -> 0..MaxHold]
  /\ alive \subseteq Mutexes
  /\ held \in [Mutexes -> [Thread -> 0..MaxHold]]
  /\ \A m \in Mutexes : owner[m] # NoThread => orig[m] \in Prio

\* The running thread is ready unless it is about to call rt_schedule
RunningPart == k.stat[k.cur] = "ready" \/ pc[k.cur] \in {"schedule", "post"}

\* A thread in the suspend list of m is inside rt_mutex_take(m), with no error so far
WaitingPart ==
  \A m \in Mutexes, t \in Thread : Contains(k.wait[m], t) =>
    /\ t \in User
    /\ pc[t] \in {"schedule", "return"}
    /\ want[t] = m
    /\ k.err[t] = "EOK"

IInv ==
  /\ KernelPart
  /\ TypePart
  /\ RunningPart
  /\ WaitingPart
  /\ OwnedWhileWaitedFor
  /\ MutualExclusion

-----------------------------------------------------------------------------
(***************************************************************************)
(* Steps of the kernel, seen from here.                                    *)
(***************************************************************************)

\* The fields of k have their types
LEMMA KernelFields ==
  ASSUME KernelPart
  PROVE  /\ KernelType(k) /\ KernelInv(k, {})
         /\ k.cur \in Thread /\ k.stat \in [Thread -> Stat] /\ k.err \in [Thread -> Error]
         /\ k.prio \in [Thread -> Prio] /\ k.timer \in [Thread -> BOOLEAN]
         /\ k.wait \in [Mutexes -> Seq(Thread)]
         /\ k.stat[Idle] = "ready" /\ k.lock = 0
  BY MutexAssumption DEF KernelPart, KernelInv, KernelType

\* A waiting thread is suspended, and on no other list
LEMMA WaiterFacts ==
  ASSUME IInv, NEW m \in Mutexes, NEW u, Contains(k.wait[m], u)
  PROVE  /\ u \in User /\ u \in Thread /\ u # Idle
         /\ pc[u] \in {"schedule", "return"} /\ want[u] = m
         /\ k.stat[u] = "suspend" /\ k.err[u] = "EOK"
<1>1. k.wait[m] \in Seq(Thread)
  BY KernelFields DEF IInv
<1>2. u \in Thread
  <2>1. PICK i \in 1..Len(k.wait[m]) : k.wait[m][i] = u
    BY DEF Contains
  <2>. QED BY <1>1, <2>1, ElementOfSeq
<1>3. k.stat[u] \in {"suspend", "close"}
  BY <1>2, MutexAssumption DEF IInv, KernelPart, KernelInv, WaitListsExact
<1>. QED BY <1>2, <1>3, MutexAssumption DEF IInv, KernelPart, WaitingPart

\* The running thread, when it is not about to call rt_schedule, waits for nothing
LEMMA Runs ==
  ASSUME IInv, NEW t, t = k.cur, pc[t] \notin {"schedule", "post"}
  PROVE  /\ t \in Thread /\ k.stat[t] = "ready"
         /\ \A m \in Mutexes : ~Contains(k.wait[m], t)
  BY WaiterFacts, KernelFields DEF IInv, RunningPart

\* rt_schedule from any good kernel state e changes only which thread runs, and
\* runs a ready one
LEMMA ScheduleStep ==
  ASSUME NEW e, KernelInv(e, {}), e.lock = 0, \A x \in Thread : e.stat[x] # "close",
         k' = Schedule(e)
  PROVE  /\ KernelPart' /\ RunningPart'
         /\ k'.stat = e.stat /\ k'.err = e.err /\ k'.wait = e.wait /\ k'.prio = e.prio
<1>1. /\ KernelInv(k', {}) /\ k' = [e EXCEPT !.cur = k'.cur]
      /\ e.stat[k'.cur] = "ready"
  BY ScheduleKeeps
<1>2. /\ k'.stat = e.stat /\ k'.lock = e.lock /\ k'.err = e.err /\ k'.wait = e.wait
      /\ k'.prio = e.prio
  BY <1>1 DEF KernelInv, KernelType
<1>. QED BY <1>1, <1>2 DEF KernelPart, RunningPart

\* rt_mutex_take sets thread->error, rt_mutex_release too when it refuses
LEMMA ErrorStep ==
  ASSUME IInv, NEW t, t = k.cur, pc[t] = "run", NEW e \in Error,
         k' = [k EXCEPT !.err[t] = e], UNCHANGED <<pc, want>>
  PROVE  /\ KernelPart' /\ RunningPart' /\ WaitingPart'
         /\ k'.wait = k.wait /\ k'.prio = k.prio
         /\ \A m \in Mutexes : Handed(m)' = Handed(m)
<1>1. t \in Thread /\ k.stat[t] = "ready" /\ \A m \in Mutexes : ~Contains(k.wait[m], t)
  BY Runs
<1>2. KernelPart /\ KernelType(k) /\ KernelInv(k, {})
  BY KernelFields DEF IInv
<1>3. KernelInv(k', {}) /\ k' = [k EXCEPT !.err = [k.err EXCEPT ![t] = e]]
  BY <1>1, <1>2, ErrorKeeps
<1>4. /\ k'.err = [k.err EXCEPT ![t] = e] /\ k'.stat = k.stat /\ k'.cur = k.cur
      /\ k'.wait = k.wait /\ k'.prio = k.prio /\ k'.lock = k.lock
  BY <1>2, <1>3 DEF KernelType
<1>5. KernelPart' /\ RunningPart'
  BY <1>1, <1>2, <1>3, <1>4 DEF KernelPart, RunningPart
<1>6. WaitingPart'
  BY <1>1, <1>2, <1>4 DEF IInv, WaitingPart, KernelType
<1>7. \A m \in Mutexes : Handed(m)' = Handed(m)
  BY <1>1, <1>2, <1>4 DEF Handed, KernelType
<1>. QED BY <1>4, <1>5, <1>6, <1>7

\* The owner of a mutex inherits a priority, or keeps the more urgent one it has
LEMMA InheritKeeps ==
  ASSUME NEW e, KernelInv(e, {}), NEW t \in Thread, NEW u \in Thread, u # Idle
  PROVE  /\ KernelInv(Inherit(e, t, u), {})
         /\ Reprioritised(e, Inherit(e, t, u), u,
                          IF e.prio[t] < e.prio[u] THEN e.prio[t] ELSE e.prio[u])
<1>1. KernelType(e) /\ e.prio \in [Thread -> Prio] /\ u \in Thread \ {}
  BY DEF KernelInv, KernelType
<1>2. CASE e.prio[t] < e.prio[u]
  BY <1>1, <1>2, ChangePriorityKeeps DEF Inherit
<1>3. CASE ~(e.prio[t] < e.prio[u])
  BY <1>1, <1>3 DEF Inherit, Reprioritised
<1>. QED BY <1>2, <1>3

\* The last release gives the owner its original priority back
LEMMA RestoreKeeps ==
  ASSUME NEW e, KernelInv(e, {}), NEW t \in Thread, t # Idle, NEW m, orig[m] \in Prio
  PROVE  KernelInv(Restore(e, t, m), {}) /\ Reprioritised(e, Restore(e, t, m), t, orig[m])
<1>1. KernelType(e) /\ e.prio \in [Thread -> Prio] /\ t \in Thread \ {}
  BY DEF KernelInv, KernelType
<1>2. CASE orig[m] # e.prio[t]
  BY <1>1, <1>2, ChangePriorityKeeps DEF Restore
<1>3. CASE orig[m] = e.prio[t]
  BY <1>1, <1>3 DEF Restore, Reprioritised
<1>. QED BY <1>2, <1>3

\* rt_ipc_list_resume from a kernel state e that differs from k in priorities and errors
LEMMA WakeStep ==
  ASSUME IInv, NEW m \in Mutexes, NEW u \in Thread, Contains(k.wait[m], u),
         NEW e, KernelInv(e, {}), e.stat = k.stat, e.lock = k.lock, e.wait = k.wait,
         e.cur = k.cur, k' = Resume(e, u)
  PROVE  /\ KernelPart'
         /\ k'.stat = [k.stat EXCEPT ![u] = "ready"]
         /\ k'.cur = k.cur /\ k'.err = e.err /\ k'.prio = e.prio
         /\ k'.wait = [w \in Mutexes |-> RemoveFirst(k.wait[w], u)]
         /\ \A w \in Mutexes : \A x : Contains(k'.wait[w], x) <=> Contains(k.wait[w], x) /\ x # u
<1>1. KernelPart /\ KernelType(k)
  BY KernelFields DEF IInv
<1>3. u \in Thread \ {} /\ k.stat[u] = "suspend"
  BY WaiterFacts
<1>4. KernelInv(k', {}) /\ Woken(e, k', u)
  BY <1>3, ResumeKeeps
<1>5. /\ k'.stat = [k.stat EXCEPT ![u] = "ready"]
      /\ k'.cur = k.cur /\ k'.err = e.err /\ k'.prio = e.prio /\ k'.lock = k.lock
      /\ k'.wait = [w \in Mutexes |-> RemoveFirst(k.wait[w], u)]
      /\ \A w \in Mutexes : \A x : Contains(k'.wait[w], x) <=> Contains(k.wait[w], x) /\ x # u
  BY <1>4, MutexAssumption DEF Woken
<1>. QED BY <1>1, <1>4, <1>5 DEF KernelPart, KernelType

\* Taking a thread off its list empties no list that was empty before
LEMMA StillWaited ==
  ASSUME IInv, KernelPart', NEW u,
         \A w \in Mutexes : \A x : Contains(k'.wait[w], x) <=> Contains(k.wait[w], x) /\ x # u
  PROVE  \A w \in Mutexes : k'.wait[w] # <<>> => k.wait[w] # <<>>
<1> SUFFICES ASSUME NEW w \in Mutexes, k'.wait[w] # <<>> PROVE k.wait[w] # <<>>
  OBVIOUS
<1>1. k'.wait[w] \in Seq(Thread)
  BY MutexAssumption DEF KernelPart, KernelInv, KernelType
<1>2. PICK x : Contains(k'.wait[w], x)
  BY <1>1, HeadList
<1>. QED BY <1>2, EmptyList

\* The history of takes and releases says v of m and t, and of the rest what it said
HeldBecomes(m, t, v) ==
  /\ held' \in [Mutexes -> [Thread -> 0..MaxHold]]
  /\ held'[m][t] = v
  /\ \A x \in Mutexes, y \in Thread : x # m \/ y # t => held'[x][y] = held[x][y]

LEMMA HeldStep ==
  ASSUME TypePart, NEW m \in Mutexes, NEW t \in Thread, NEW v \in 0..MaxHold,
         held' = [held EXCEPT ![m][t] = v]
  PROVE  HeldBecomes(m, t, v)
  BY DEF TypePart, HeldBecomes

-----------------------------------------------------------------------------
(***************************************************************************)
(* One lemma per action: it keeps the invariant, and what it does to the   *)
(* priorities and the suspend lists.                                       *)
(***************************************************************************)

\* Taking a mutex again
LEMMA TakeAgainKeeps ==
  ASSUME IInv, NEW t \in Thread, NEW m \in Mutexes, TakeAgain(t, m)
  PROVE  IInv' /\ k'.wait = k.wait /\ k'.prio = k.prio
<1>1. t = k.cur /\ pc[t] = "run" /\ owner[m] = t /\ hold[m] < MaxHold
  BY DEF TakeAgain, Calls, At
<1>2. /\ KernelPart' /\ RunningPart' /\ WaitingPart' /\ k'.wait = k.wait /\ k'.prio = k.prio
      /\ \A x \in Mutexes : Handed(x)' = Handed(x)
  BY <1>1, ErrorStep DEF TakeAgain, Error
<1>3. t \notin Handed(m) /\ owner[m] # NoThread
  BY <1>1, MutexAssumption DEF Handed
<1>4. held[m][t] = hold[m] /\ hold[m] \in 0..MaxHold
  BY <1>1, <1>3 DEF IInv, TypePart, MutualExclusion
<1>5. held[m][t] + 1 \in 0..MaxHold /\ hold[m] # 0
  BY <1>1, <1>3, <1>4, MutexAssumption DEF IInv, OwnedWhileWaitedFor
<1>6. /\ held' \in [Mutexes -> [Thread -> 0..MaxHold]]
      /\ held'[m][t] = held[m][t] + 1
      /\ \A x \in Mutexes, y \in Thread : x # m \/ y # t => held'[x][y] = held[x][y]
  <2>1. held' = [held EXCEPT ![m][t] = held[m][t] + 1]
    BY DEF TakeAgain
  <2>3. PICK v \in 0..MaxHold : v = held[m][t] + 1
    BY <1>5, <2>1
  <2>4. HeldBecomes(m, t, v)
    BY <1>5, <2>1, <2>3, HeldStep DEF IInv
  <2>. QED BY <2>3, <2>4 DEF HeldBecomes
<1>7. hold' = [hold EXCEPT ![m] = hold[m] + 1]
  BY DEF TakeAgain
<1>8. TypePart'
  BY <1>4, <1>5, <1>6, <1>7 DEF IInv, TypePart, TakeAgain
<1>9. OwnedWhileWaitedFor'
  BY <1>2, <1>3, <1>4, <1>5, <1>7 DEF IInv, TypePart, OwnedWhileWaitedFor, TakeAgain
<1>10. MutualExclusion'
  BY <1>1, <1>2, <1>3, <1>4, <1>6, <1>7 DEF IInv, TypePart, MutualExclusion, TakeAgain
<1>. QED BY <1>2, <1>8, <1>9, <1>10 DEF IInv

\* Taking a free mutex
LEMMA TakeFreeKeeps ==
  ASSUME IInv, NEW t \in Thread, NEW m \in Mutexes, TakeFree(t, m)
  PROVE  /\ IInv' /\ k'.wait = k.wait /\ k'.prio = k.prio
         /\ owner[m] = NoThread /\ k.wait[m] = <<>> /\ t \in User
<1>1. t = k.cur /\ pc[t] = "run" /\ t \in User /\ value[m] > 0
  BY DEF TakeFree, Calls, At
<1>2. /\ KernelPart' /\ RunningPart' /\ WaitingPart' /\ k'.wait = k.wait /\ k'.prio = k.prio
      /\ \A x \in Mutexes : Handed(x)' = Handed(x)
  BY <1>1, ErrorStep DEF TakeFree, Error
<1>3. /\ value[m] = 1 /\ owner[m] = NoThread /\ hold[m] = 0 /\ k.wait[m] = <<>>
      /\ t # NoThread /\ t \notin Handed(m)
  BY <1>1, MutexAssumption DEF IInv, TypePart, OwnedWhileWaitedFor, Handed
<1>4. \A y \in Thread : held[m][y] = 0 /\ y \notin Handed(m)
  <2> SUFFICES ASSUME NEW y \in Thread PROVE held[m][y] = 0 /\ y \notin Handed(m)
    OBVIOUS
  <2>1. held[m][y] + (IF y \in Handed(m) THEN 1 ELSE 0) = 0 /\ held[m][y] \in Nat
    BY <1>3, MutexAssumption DEF IInv, TypePart, MutualExclusion
  <2>. QED BY <2>1
<1>5. /\ held' \in [Mutexes -> [Thread -> 0..MaxHold]]
      /\ held'[m][t] = 1
      /\ \A x \in Mutexes, y \in Thread : x # m \/ y # t => held'[x][y] = held[x][y]
  <2>1. held' = [held EXCEPT ![m][t] = held[m][t] + 1] /\ held[m][t] + 1 = 1
    BY <1>4 DEF TakeFree
  <2>2. 1 \in 0..MaxHold
    BY MutexAssumption
  <2>3. PICK v \in 0..MaxHold : v = 1
    BY <2>1, <2>2
  <2>4. HeldBecomes(m, t, v)
    BY <2>1, <2>2, <2>3, HeldStep DEF IInv
  <2>. QED BY <2>3, <2>4 DEF HeldBecomes
<1>6. /\ value' = [value EXCEPT ![m] = 0] /\ owner' = [owner EXCEPT ![m] = t]
      /\ orig' = [orig EXCEPT ![m] = k.prio[t]] /\ hold' = [hold EXCEPT ![m] = 1]
      /\ k.prio[t] \in Prio
  BY <1>3, KernelFields DEF IInv, TypePart, TakeFree
<1>7. TypePart'
  BY <1>1, <1>3, <1>5, <1>6, MutexAssumption, SMTT(60) DEF IInv, TypePart, TakeFree
<1>8. OwnedWhileWaitedFor'
  BY <1>2, <1>3, <1>6 DEF IInv, TypePart, OwnedWhileWaitedFor
<1>9. MutualExclusion'
  <2> SUFFICES ASSUME NEW x \in Mutexes, NEW y \in Thread
               PROVE  held'[x][y] + (IF y \in Handed(x)' THEN 1 ELSE 0)
                        = (IF owner'[x] = y THEN hold'[x] ELSE 0)
    BY DEF MutualExclusion
  <2>1. CASE x = m
    <3>1. owner'[x] = t /\ hold'[x] = 1
      BY <1>6, <2>1 DEF IInv, TypePart
    <3>. QED BY <1>2, <1>4, <1>5, <2>1, <3>1
  <2>2. CASE x # m
    <3>1. owner'[x] = owner[x] /\ hold'[x] = hold[x] /\ held'[x][y] = held[x][y]
      BY <1>5, <1>6, <2>2 DEF IInv, TypePart
    <3>. QED BY <1>2, <3>1 DEF IInv, MutualExclusion
  <2>. QED BY <2>1, <2>2
<1>. QED BY <1>1, <1>2, <1>3, <1>7, <1>8, <1>9 DEF IInv

\* A take that is refused, and a release by a thread that is not the owner
LEMMA RefusedKeep ==
  ASSUME IInv, NEW t \in Thread, NEW m \in Mutexes, TakeRefused(t, m) \/ ReleaseRefused(t, m)
  PROVE  IInv' /\ k'.wait = k.wait /\ k'.prio = k.prio
<1>1. PICK e \in Error : k' = [k EXCEPT !.err[t] = e]
  BY DEF TakeRefused, ReleaseRefused, Error
<1>2. t = k.cur /\ pc[t] = "run" /\ UNCHANGED <<pc, want, objects>>
  BY DEF TakeRefused, ReleaseRefused, Calls, At
<1>3. /\ KernelPart' /\ RunningPart' /\ WaitingPart' /\ k'.wait = k.wait /\ k'.prio = k.prio
      /\ \A x \in Mutexes : Handed(x)' = Handed(x)
  BY <1>1, <1>2, ErrorStep
<1>4. TypePart' /\ OwnedWhileWaitedFor' /\ MutualExclusion'
  BY <1>2, <1>3 DEF IInv, TypePart, OwnedWhileWaitedFor, MutualExclusion, objects
<1>. QED BY <1>3, <1>4 DEF IInv

\* Queueing for a mutex of another thread, which may inherit a priority
LEMMA TakeBlockKeeps ==
  ASSUME IInv, NEW t \in Thread, NEW m \in Mutexes, NEW time \in Times, TakeBlock(t, m, time)
  PROVE  /\ IInv'
         /\ owner[m] \in User /\ owner[m] # t /\ k.wait[m] \in Seq(Thread)
         /\ k'.prio = [k.prio EXCEPT ![owner[m]] =
                         IF k.prio[t] < k.prio[owner[m]] THEN k.prio[t] ELSE k.prio[owner[m]]]
         /\ \E b : /\ KernelType(b) /\ b.prio = k'.prio
                   /\ k'.wait = [k.wait EXCEPT
                        ![m] = InsertAt(k.wait[m], InsertPos(b, k.wait[m], t, Flag[m]), t)]
<1> DEFINE u == owner[m]
<1>1. /\ t = k.cur /\ pc[t] = "run" /\ k.stat[t] = "ready" /\ t # Idle /\ t \in User
      /\ u # t /\ value[m] = 0 /\ \A x \in Mutexes : ~Contains(k.wait[x], t)
  BY Runs, MutexAssumption DEF TakeBlock, Calls, At
<1>2. u # NoThread /\ u \in User /\ u \in Thread /\ u # Idle
  BY <1>1, MutexAssumption DEF IInv, TypePart, OwnedWhileWaitedFor
<1>3. KernelPart /\ KernelType(k) /\ KernelInv(k, {}) /\ k.wait \in [Mutexes -> Seq(Thread)]
  BY KernelFields DEF IInv
<1> DEFINE e == [k EXCEPT !.err[t] = "EOK"]
           b == Inherit(e, t, u)
           s == ListSuspend(b, m, t, Flag[m])
           p == IF k.prio[t] < k.prio[u] THEN k.prio[t] ELSE k.prio[u]
<1>4. k' = IF time = "timed" THEN StartTimer(s, t) ELSE s
  BY DEF TakeBlock
<1>5. KernelInv(e, {}) /\ e = [k EXCEPT !.err = [k.err EXCEPT ![t] = "EOK"]]
  BY <1>3, ErrorKeeps DEF Error
<1> HIDE DEF e, u
<1>6. /\ e.stat = k.stat /\ e.lock = k.lock /\ e.wait = k.wait /\ e.cur = k.cur
      /\ e.prio = k.prio /\ e.err = [k.err EXCEPT ![t] = "EOK"]
  BY <1>3, <1>5 DEF KernelType
<1>7. KernelInv(b, {}) /\ Reprioritised(e, b, u, p)
  BY <1>2, <1>5, <1>6, InheritKeeps
<1> HIDE DEF b, p
<1>8. /\ b.stat = k.stat /\ b.lock = k.lock /\ b.wait = k.wait /\ b.cur = k.cur
      /\ b.prio = [k.prio EXCEPT ![u] = p] /\ b.err = [k.err EXCEPT ![t] = "EOK"]
  BY <1>6, <1>7 DEF Reprioritised
<1>9. KernelInv(s, {}) /\ Waiting(b, s, m, t, Flag[m])
  <2>1. b.stat[t] = "ready" /\ t \in Thread \ {} /\ t # Idle /\ m \in WaitList
    BY <1>1, <1>8, MutexAssumption
  <2>. QED BY <1>7, <2>1, ListSuspendKeeps
<1> HIDE DEF s
<1>10. /\ s.stat = [k.stat EXCEPT ![t] = "suspend"]
       /\ s.wait = [k.wait EXCEPT
                      ![m] = InsertAt(k.wait[m], InsertPos(b, k.wait[m], t, Flag[m]), t)]
       /\ \A x : Contains(s.wait[m], x) <=> Contains(k.wait[m], x) \/ x = t
       /\ s.cur = k.cur /\ s.err = [k.err EXCEPT ![t] = "EOK"] /\ s.lock = k.lock
       /\ s.prio = [k.prio EXCEPT ![u] = p]
  BY <1>8, <1>9 DEF Waiting
<1>11. /\ KernelInv(k', {})
       /\ k'.stat = s.stat /\ k'.wait = s.wait /\ k'.cur = s.cur /\ k'.err = s.err
       /\ k'.lock = s.lock /\ k'.prio = s.prio
  <2>1. CASE time = "timed"
    <3>1. s.stat[t] = "suspend"
      BY <1>3, <1>10 DEF KernelType
    <3>2. KernelInv(k', {}) /\ k' = [s EXCEPT !.timer = [s.timer EXCEPT ![t] = TRUE]]
      BY <1>4, <1>9, <2>1, <3>1, StartTimerKeeps
    <3>. QED BY <1>9, <3>2 DEF KernelInv, KernelType
  <2>2. CASE time # "timed"
    BY <1>4, <1>9, <2>2
  <2>. QED BY <2>1, <2>2
<1>12. \A x \in Mutexes : \A y :
         Contains(k'.wait[x], y) <=> Contains(k.wait[x], y) \/ (x = m /\ y = t)
  <2>1. \A x \in Mutexes \ {m} : k'.wait[x] = k.wait[x]
    BY <1>3, <1>10, <1>11
  <2>. QED BY <2>1, <1>10, <1>11
<1>13. KernelPart'
  BY <1>3, <1>10, <1>11 DEF KernelPart, KernelType
<1>14. pc' = [pc EXCEPT ![t] = "schedule"] /\ want' = [want EXCEPT ![t] = m]
       /\ UNCHANGED <<value, owner, orig, hold, alive, held>>
  BY DEF TakeBlock, Goto, objects
<1>15. TypePart'
  BY <1>14 DEF IInv, TypePart, PC
<1>16. RunningPart'
  BY <1>1, <1>10, <1>11, <1>14 DEF RunningPart, IInv, TypePart
<1>17. WaitingPart'
  BY <1>1, <1>3, <1>10, <1>11, <1>12, <1>14, SMTT(60) DEF IInv, WaitingPart, TypePart, KernelType
<1>18. OwnedWhileWaitedFor'
  <2>1. \A x \in Mutexes \ {m} : k'.wait[x] = k.wait[x]
    BY <1>3, <1>10, <1>11
  <2>2. u # NoThread /\ ~Contains(k'.wait[m], u)
    <3>1. ~Contains(k.wait[m], u)
      BY <1>2, EmptyList DEF IInv, OwnedWhileWaitedFor, u
    <3>. QED BY <1>1, <1>2, <1>12, <3>1 DEF u
  <2>. QED BY <1>14, <2>1, <2>2 DEF IInv, OwnedWhileWaitedFor, u
<1>19. MutualExclusion'
  <2>1. \A x \in Mutexes, y \in Thread : y \in Handed(x)' <=> y \in Handed(x)
    BY <1>1, <1>3, <1>10, <1>11, <1>14, SMTT(60) DEF Handed, IInv, TypePart, KernelType
  <2>. QED BY <1>14, <2>1 DEF IInv, MutualExclusion
<1>20. \E c : /\ KernelType(c) /\ c.prio = k'.prio
              /\ k'.wait = [k.wait EXCEPT
                   ![m] = InsertAt(k.wait[m], InsertPos(c, k.wait[m], t, Flag[m]), t)]
  BY <1>7, <1>8, <1>10, <1>11 DEF KernelInv
<1>. QED BY <1>1, <1>2, <1>3, <1>10, <1>11, <1>13, <1>15, <1>16, <1>17, <1>18, <1>19, <1>20
     DEF IInv, u, p

\* rt_schedule at the end of rt_mutex_take and of the other calls
LEMMA SchedulesKeep ==
  ASSUME IInv, NEW t \in Thread, TakeSchedule(t) \/ PostSchedule(t)
  PROVE  IInv' /\ k'.wait = k.wait /\ k'.prio = k.prio
<1>1. KernelPart /\ KernelInv(k, {}) /\ k' = Schedule(k) /\ UNCHANGED <<want, objects>>
  BY DEF IInv, KernelPart, TakeSchedule, PostSchedule
<1>2. /\ KernelPart' /\ RunningPart'
      /\ k'.stat = k.stat /\ k'.err = k.err /\ k'.wait = k.wait /\ k'.prio = k.prio
  BY <1>1, ScheduleStep DEF KernelPart
<1>3. \/ pc[t] = "schedule" /\ pc' = [pc EXCEPT ![t] = "return"]
      \/ pc[t] = "post" /\ pc' = [pc EXCEPT ![t] = "run"]
  BY DEF TakeSchedule, PostSchedule, Goto, At
<1>4. TypePart'
  BY <1>1, <1>3, SMTT(60) DEF IInv, TypePart, PC, objects
<1>5. WaitingPart'
  BY <1>1, <1>2, <1>3 DEF IInv, TypePart, WaitingPart
<1>6. OwnedWhileWaitedFor'
  BY <1>1, <1>2 DEF IInv, OwnedWhileWaitedFor, objects
<1>7. MutualExclusion'
  <2>1. \A x \in Mutexes, y \in Thread : y \in Handed(x)' <=> y \in Handed(x)
    BY <1>1, <1>2, <1>3 DEF Handed, IInv, TypePart
  <2>. QED BY <1>1, <2>1 DEF IInv, MutualExclusion, objects
<1>. QED BY <1>2, <1>4, <1>5, <1>6, <1>7 DEF IInv

\* Running again after a wait: without an error the mutex was handed over
LEMMA TakeReturnKeeps ==
  ASSUME IInv, NEW t \in Thread, TakeReturn(t)
  PROVE  IInv' /\ k'.wait = k.wait /\ k'.prio = k.prio
<1> DEFINE m == want[t]
<1>1. t = k.cur /\ pc[t] = "return" /\ pc' = [pc EXCEPT ![t] = "run"] /\ k' = k
  BY DEF TakeReturn, At, Goto
<1>2. k.stat[t] = "ready" /\ \A x \in Mutexes : ~Contains(k.wait[x], t)
  BY <1>1, Runs
<1>3. KernelPart' /\ RunningPart' /\ OwnedWhileWaitedFor'
  BY <1>1, <1>2 DEF IInv, KernelPart, RunningPart, OwnedWhileWaitedFor, TakeReturn
<1>4. WaitingPart'
  BY <1>1, <1>2 DEF IInv, TypePart, WaitingPart, TakeReturn
<1>5. m \in Mutexes /\ pc' \in [Thread -> PC]
  BY <1>1 DEF IInv, TypePart, PC
<1>6. \A x \in Mutexes, y \in Thread :
        y \in Handed(x)' <=> y \in Handed(x) /\ y # t
  BY <1>1 DEF Handed, IInv, TypePart, TakeReturn
<1>7. \A x \in Mutexes : t \in Handed(x) <=> x = m /\ k.err[t] = "EOK"
  BY <1>1, <1>2 DEF Handed
<1> HIDE DEF m
<1>8. CASE k.err[t] = "EOK"
  <2>1. /\ held[m][t] \in 0..MaxHold
        /\ held[m][t] + 1 = (IF owner[m] = t THEN hold[m] ELSE 0)
    BY <1>5, <1>7, <1>8 DEF IInv, TypePart, MutualExclusion
  <2>2. held[m][t] + 1 \in 0..MaxHold
    BY <2>1, <1>5, MutexAssumption DEF IInv, TypePart
  <2>3. /\ held' \in [Mutexes -> [Thread -> 0..MaxHold]]
        /\ held'[m][t] = held[m][t] + 1
        /\ \A x \in Mutexes, y \in Thread : x # m \/ y # t => held'[x][y] = held[x][y]
    <3>1. held' = [held EXCEPT ![m][t] = held[m][t] + 1]
      BY <1>8 DEF TakeReturn, m
    <3>2. PICK v \in 0..MaxHold : v = held[m][t] + 1
      BY <2>2, <3>1, <1>5
    <3>3. HeldBecomes(m, t, v)
      BY <2>2, <3>1, <1>5, <3>2, HeldStep DEF IInv
    <3>. QED BY <3>2, <3>3 DEF HeldBecomes
  <2>4. TypePart'
    BY <2>3, <1>5 DEF IInv, TypePart, TakeReturn
  <2>5. MutualExclusion'
    <3> SUFFICES ASSUME NEW x \in Mutexes, NEW y \in Thread
                 PROVE  held'[x][y] + (IF y \in Handed(x)' THEN 1 ELSE 0)
                          = (IF owner[x] = y THEN hold[x] ELSE 0)
      BY DEF MutualExclusion, TakeReturn
    <3>1. /\ held[x][y] \in Nat
          /\ held[x][y] + (IF y \in Handed(x) THEN 1 ELSE 0)
               = (IF owner[x] = y THEN hold[x] ELSE 0)
      BY MutexAssumption DEF IInv, TypePart, MutualExclusion
    <3>2. CASE x = m /\ y = t
      BY <3>1, <3>2, <2>3, <1>6, <1>7, <1>8
    <3>3. CASE ~(x = m /\ y = t)
      BY <3>1, <3>3, <2>3, <1>6, <1>7
    <3>. QED BY <3>2, <3>3
  <2>. QED BY <1>1, <1>3, <1>4, <2>4, <2>5 DEF IInv
<1>9. CASE k.err[t] # "EOK"
  <2>1. TypePart'
    BY <1>5, <1>9 DEF IInv, TypePart, TakeReturn
  <2>2. \A x \in Mutexes, y \in Thread : y \in Handed(x)' <=> y \in Handed(x)
    BY <1>6, <1>7, <1>9
  <2>3. MutualExclusion'
    BY <2>2, <1>9 DEF IInv, MutualExclusion, TakeReturn
  <2>. QED BY <1>1, <1>3, <1>4, <2>1, <2>3 DEF IInv
<1>. QED BY <1>8, <1>9

\* The owner believes it holds the mutex hold[m] times
LEMMA OwnerHolds ==
  ASSUME IInv, NEW t \in Thread, NEW m \in Mutexes, Calls(t, m), owner[m] = t
  PROVE  /\ t = k.cur /\ pc[t] = "run" /\ t # NoThread /\ t # Idle
         /\ k.stat[t] = "ready" /\ \A x \in Mutexes : ~Contains(k.wait[x], t)
         /\ orig[m] \in Prio
         /\ held[m][t] = hold[m] /\ hold[m] \in 1..MaxHold
         /\ \A y \in Thread : y # t => held[m][y] = 0
         /\ \A y \in Thread : y \notin Handed(m)
<1>1. t = k.cur /\ pc[t] = "run" /\ t # NoThread /\ t # Idle
  BY MutexAssumption DEF Calls, At
<1>2. k.stat[t] = "ready" /\ \A x \in Mutexes : ~Contains(k.wait[x], t)
  BY <1>1, Runs
<1>3. t \notin Handed(m)
  BY <1>1 DEF Handed
<1>4. held[m][t] = hold[m] /\ hold[m] \in 0..MaxHold /\ hold[m] # 0 /\ orig[m] \in Prio
  BY <1>1, <1>3 DEF IInv, TypePart, MutualExclusion, OwnedWhileWaitedFor
<1>5. ASSUME NEW y \in Thread, y # t PROVE held[m][y] = 0 /\ y \notin Handed(m)
  <2>1. held[m][y] + (IF y \in Handed(m) THEN 1 ELSE 0) = 0 /\ held[m][y] \in Nat
    BY <1>5, MutexAssumption DEF IInv, TypePart, MutualExclusion
  <2>. QED BY <2>1
<1>. QED BY <1>1, <1>2, <1>3, <1>4, <1>5, MutexAssumption

\* Releasing a mutex that was taken more than once
LEMMA ReleaseNestedKeeps ==
  ASSUME IInv, NEW t \in Thread, NEW m \in Mutexes, ReleaseNested(t, m)
  PROVE  IInv' /\ k'.wait = k.wait /\ k'.prio = k.prio
<1>1. /\ held[m][t] = hold[m] /\ hold[m] \in 1..MaxHold
      /\ \A y \in Thread : y \notin Handed(m)
  BY OwnerHolds DEF ReleaseNested
<1>2. hold[m] > 1 /\ owner[m] = t /\ owner[m] # NoThread
  BY MutexAssumption DEF ReleaseNested
<1>3. hold[m] - 1 \in 0..MaxHold /\ hold[m] - 1 # 0
  BY <1>1, <1>2, MutexAssumption
<1>4. /\ held' \in [Mutexes -> [Thread -> 0..MaxHold]]
      /\ held'[m][t] = hold[m] - 1
      /\ \A x \in Mutexes, y \in Thread : x # m \/ y # t => held'[x][y] = held[x][y]
  <2>1. held' = [held EXCEPT ![m][t] = hold[m] - 1]
    BY <1>1 DEF ReleaseNested
  <2>3. PICK v \in 0..MaxHold : v = hold[m] - 1
    BY <1>3, <2>1
  <2>4. HeldBecomes(m, t, v)
    BY <1>3, <2>1, <2>3, HeldStep DEF IInv
  <2>. QED BY <2>3, <2>4 DEF HeldBecomes
<1>5. hold' = [hold EXCEPT ![m] = hold[m] - 1] /\ UNCHANGED <<k, pc, want, value, owner, orig, alive>>
  BY DEF ReleaseNested
<1>6. TypePart'
  BY <1>3, <1>4, <1>5 DEF IInv, TypePart
<1>7. KernelPart' /\ RunningPart' /\ WaitingPart'
  BY <1>5 DEF IInv, KernelPart, RunningPart, WaitingPart
<1>8. OwnedWhileWaitedFor'
  BY <1>2, <1>3, <1>5 DEF IInv, TypePart, OwnedWhileWaitedFor
<1>9. MutualExclusion'
  <2> SUFFICES ASSUME NEW x \in Mutexes, NEW y \in Thread
               PROVE  held'[x][y] + (IF y \in Handed(x) THEN 1 ELSE 0)
                        = (IF owner[x] = y THEN hold'[x] ELSE 0)
    BY <1>5 DEF MutualExclusion, Handed
  <2>1. held[x][y] + (IF y \in Handed(x) THEN 1 ELSE 0)
               = (IF owner[x] = y THEN hold[x] ELSE 0)
    BY DEF IInv, MutualExclusion
  <2>2. CASE x = m /\ y = t
    <3>1. hold'[m] = hold[m] - 1
      BY <1>5 DEF IInv, TypePart
    <3>. QED BY <2>2, <3>1, <1>1, <1>2, <1>4
  <2>3. CASE x # m
    <3>1. hold'[x] = hold[x]
      BY <1>5, <2>3 DEF IInv, TypePart
    <3>. QED BY <2>1, <2>3, <3>1, <1>4
  <2>4. CASE x = m /\ y # t
    BY <2>1, <2>4, <1>2, <1>4
  <2>. QED BY <2>2, <2>3, <2>4
<1>. QED BY <1>5, <1>6, <1>7, <1>8, <1>9 DEF IInv

\* The last release when nobody waits
LEMMA ReleaseFreeKeeps ==
  ASSUME IInv, NEW t \in Thread, NEW m \in Mutexes, ReleaseFree(t, m)
  PROVE  /\ IInv' /\ k'.wait = k.wait /\ k'.prio = [k.prio EXCEPT ![t] = orig[m]]
         /\ owner[m] = t /\ orig[m] \in Prio /\ t \in Thread
<1>1. /\ owner[m] = t /\ hold[m] = 1 /\ k.wait[m] = <<>> /\ k' = Restore(k, t, m)
      /\ t \in Thread
  BY DEF ReleaseFree
<1>2. /\ t = k.cur /\ pc[t] = "run" /\ t # NoThread /\ t # Idle
      /\ k.stat[t] = "ready" /\ \A x \in Mutexes : ~Contains(k.wait[x], t)
      /\ orig[m] \in Prio /\ held[m][t] = 1
      /\ \A y \in Thread : y # t => held[m][y] = 0
      /\ \A y \in Thread : y \notin Handed(m)
  BY <1>1, OwnerHolds DEF ReleaseFree
<1>3. KernelPart /\ KernelInv(k, {})
  BY KernelFields DEF IInv
<1>4. KernelInv(k', {}) /\ Reprioritised(k, k', t, orig[m])
  BY <1>1, <1>2, <1>3, RestoreKeeps
<1>5. /\ k'.stat = k.stat /\ k'.cur = k.cur /\ k'.err = k.err /\ k'.lock = k.lock
      /\ k'.wait = k.wait /\ k'.prio = [k.prio EXCEPT ![t] = orig[m]]
  BY <1>4 DEF Reprioritised
<1>6. /\ owner' = [owner EXCEPT ![m] = NoThread] /\ orig' = [orig EXCEPT ![m] = 255]
      /\ hold' = [hold EXCEPT ![m] = 0] /\ UNCHANGED <<pc, want, alive>>
      /\ value' = [value EXCEPT ![m] = 1]
  <2>1. value[m] = 0
    BY <1>1, <1>2 DEF IInv, TypePart, OwnedWhileWaitedFor
  <2>. QED BY <2>1 DEF ReleaseFree, Free
<1>7. /\ held' \in [Mutexes -> [Thread -> 0..MaxHold]]
      /\ held'[m][t] = 0
      /\ \A x \in Mutexes, y \in Thread : x # m \/ y # t => held'[x][y] = held[x][y]
  <2>1. PICK v : v = held[m][t] - 1
    OBVIOUS
  <2>2. held' = [held EXCEPT ![m][t] = v]
    BY <2>1 DEF ReleaseFree
  <2>3. v = 0 /\ v \in 0..MaxHold
    BY <1>2, <2>1, MutexAssumption
  <2>4. HeldBecomes(m, t, v)
    BY <2>2, <2>3, HeldStep DEF IInv
  <2>. QED BY <2>3, <2>4 DEF HeldBecomes
<1>8. KernelPart' /\ RunningPart' /\ WaitingPart'
  BY <1>2, <1>3, <1>4, <1>5, <1>6 DEF IInv, KernelPart, RunningPart, WaitingPart
<1>9. TypePart'
  <2>1. pc' \in [Thread -> PC] /\ want' \in [Thread -> Mutexes] /\ alive' \subseteq Mutexes
    BY <1>6 DEF IInv, TypePart
  <2>2. /\ value' \in [Mutexes -> {0, 1}] /\ owner' \in [Mutexes -> User \cup {NoThread}]
        /\ orig' \in [Mutexes -> Prio \cup {255}] /\ hold' \in [Mutexes -> 0..MaxHold]
    BY <1>6, MutexAssumption DEF IInv, TypePart
  <2>3. \A x \in Mutexes : owner'[x] # NoThread => orig'[x] \in Prio
    BY <1>6 DEF IInv, TypePart
  <2>. QED BY <1>7, <2>1, <2>2, <2>3 DEF TypePart
<1>10. OwnedWhileWaitedFor'
  BY <1>1, <1>5, <1>6 DEF IInv, TypePart, OwnedWhileWaitedFor
<1>11. MutualExclusion'
  <2> SUFFICES ASSUME NEW x \in Mutexes, NEW y \in Thread
               PROVE  held'[x][y] + (IF y \in Handed(x) THEN 1 ELSE 0)
                        = (IF owner'[x] = y THEN hold'[x] ELSE 0)
    BY <1>5, <1>6 DEF MutualExclusion, Handed
  <2>1. held[x][y] + (IF y \in Handed(x) THEN 1 ELSE 0)
               = (IF owner[x] = y THEN hold[x] ELSE 0)
    BY DEF IInv, MutualExclusion
  <2>2. CASE x = m
    <3>1. owner'[m] = NoThread
      BY <1>6 DEF IInv, TypePart
    <3>2. held'[m][y] = 0
      BY <1>2, <1>7
    <3>. QED BY <2>2, <3>1, <3>2, <1>2, MutexAssumption
  <2>3. CASE x # m
    <3>1. hold'[x] = hold[x] /\ owner'[x] = owner[x]
      BY <1>6, <2>3 DEF IInv, TypePart
    <3>. QED BY <2>1, <2>3, <3>1, <1>7
  <2>. QED BY <2>2, <2>3
<1>. QED BY <1>1, <1>2, <1>5, <1>8, <1>9, <1>10, <1>11 DEF IInv

\* t hands m to u
HandsTo(t, m, u) ==
  /\ k.wait[m] # <<>> /\ u = Head(k.wait[m]) /\ u # t
  /\ Contains(k.wait[m], u)
  /\ k'.wait = [w \in Mutexes |-> RemoveFirst(k.wait[w], u)]
  /\ owner' = [owner EXCEPT ![m] = u]
  /\ orig' = [orig EXCEPT ![m] = k'.prio[u]]

\* The last release when somebody waits: the first waiter owns the mutex at once
LEMMA HandOverKeeps ==
  ASSUME IInv, NEW t \in Thread, NEW m \in Mutexes, ReleaseHandOver(t, m)
  PROVE  /\ IInv'
         /\ owner[m] = t /\ orig[m] \in Prio
         /\ k'.prio = [k.prio EXCEPT ![t] = orig[m]]
         /\ \E u \in User : HandsTo(t, m, u)
<1> DEFINE e == Restore(k, t, m)
<1>1. /\ owner[m] = t /\ hold[m] = 1 /\ k.wait[m] # <<>> /\ pc' = [pc EXCEPT ![t] = "post"]
      /\ UNCHANGED <<want, value, hold, alive>>
  BY DEF ReleaseHandOver, Goto
<1>2. /\ t = k.cur /\ pc[t] = "run" /\ t # NoThread /\ t # Idle
      /\ k.stat[t] = "ready" /\ \A x \in Mutexes : ~Contains(k.wait[x], t)
      /\ orig[m] \in Prio /\ held[m][t] = 1
      /\ \A y \in Thread : y # t => held[m][y] = 0
      /\ \A y \in Thread : y \notin Handed(m)
  BY <1>1, OwnerHolds DEF ReleaseHandOver
<1>3. KernelPart /\ KernelInv(k, {}) /\ KernelType(k)
  BY KernelFields DEF IInv
<1>4. KernelInv(e, {}) /\ Reprioritised(k, e, t, orig[m])
  BY <1>1, <1>2, <1>3, RestoreKeeps
<1>5. PICK u : u = Head(k.wait[m])
  OBVIOUS
<1>6. /\ k' = ResumeFirst(e, m) /\ owner' = [owner EXCEPT ![m] = u]
      /\ orig' = [orig EXCEPT ![m] = e.prio[u]]
  BY <1>5 DEF ReleaseHandOver
<1> HIDE DEF e
<1>7. /\ e.stat = k.stat /\ e.cur = k.cur /\ e.err = k.err /\ e.lock = k.lock
      /\ e.wait = k.wait /\ e.prio = [k.prio EXCEPT ![t] = orig[m]]
  BY <1>4 DEF Reprioritised
<1>8. k' = Resume(e, u)
  BY <1>5, <1>6, <1>7 DEF ResumeFirst
<1>9. /\ Contains(k.wait[m], u)
      /\ KernelPart'
      /\ k'.stat = [k.stat EXCEPT ![u] = "ready"]
      /\ k'.cur = k.cur /\ k'.err = k.err /\ k'.prio = e.prio
      /\ k'.wait = [w \in Mutexes |-> RemoveFirst(k.wait[w], u)]
      /\ \A w \in Mutexes : \A x : Contains(k'.wait[w], x) <=> Contains(k.wait[w], x) /\ x # u
  <2>1. Contains(k.wait[m], u)
    BY <1>1, <1>3, <1>5, KernelFields, HeadList
  <2>2. u \in Thread
    BY <2>1, WaiterFacts
  <2>3. KernelInv(e, {}) /\ e.stat = k.stat /\ e.lock = k.lock /\ e.wait = k.wait /\ e.cur = k.cur
    BY <1>4, <1>7
  <2>4. /\ KernelPart'
        /\ k'.stat = [k.stat EXCEPT ![u] = "ready"]
        /\ k'.cur = k.cur /\ k'.err = e.err /\ k'.prio = e.prio
        /\ k'.wait = [w \in Mutexes |-> RemoveFirst(k.wait[w], u)]
        /\ \A w \in Mutexes : \A x : Contains(k'.wait[w], x) <=> Contains(k.wait[w], x) /\ x # u
    BY <2>1, <2>2, <2>3, <1>8, WakeStep
  <2>. QED BY <2>1, <2>4, <1>7
<1>10. /\ u \in User /\ u \in Thread /\ u # t /\ u # NoThread /\ pc[u] \in {"schedule", "return"}
       /\ want[u] = m /\ k.stat[u] = "suspend" /\ k.err[u] = "EOK"
  BY <1>2, <1>9, WaiterFacts, MutexAssumption
<1>11. k'.prio[u] \in Prio
  BY <1>9, <1>10 DEF KernelPart, KernelInv, KernelType
<1>12. /\ held' \in [Mutexes -> [Thread -> 0..MaxHold]]
       /\ held'[m][t] = 0
       /\ \A x \in Mutexes, y \in Thread : x # m \/ y # t => held'[x][y] = held[x][y]
  <2>1. PICK v : v = held[m][t] - 1
    OBVIOUS
  <2>2. held' = [held EXCEPT ![m][t] = v]
    BY <2>1 DEF ReleaseHandOver
  <2>3. v = 0 /\ v \in 0..MaxHold
    BY <1>2, <2>1, MutexAssumption
  <2>4. HeldBecomes(m, t, v)
    BY <2>2, <2>3, HeldStep DEF IInv
  <2>. QED BY <2>3, <2>4 DEF HeldBecomes
<1>13. TypePart'
  BY <1>1, <1>6, <1>9, <1>10, <1>11, <1>12, ZenonT(60) DEF IInv, TypePart, PC
<1>14. RunningPart'
  BY <1>2, <1>3, <1>9, <1>10 DEF RunningPart, KernelType
<1>15. WaitingPart'
  <2> SUFFICES ASSUME NEW w \in Mutexes, NEW x \in Thread, Contains(k'.wait[w], x)
               PROVE  x \in User /\ pc'[x] \in {"schedule", "return"} /\ want'[x] = w
                      /\ k'.err[x] = "EOK"
    BY DEF WaitingPart
  <2>1. Contains(k.wait[w], x) /\ x # t
    BY <1>2, <1>9
  <2>2. pc'[x] = pc[x] /\ want'[x] = want[x] /\ k'.err[x] = k.err[x]
    BY <2>1, <1>1, <1>9 DEF IInv, TypePart
  <2>. QED BY <2>1, <2>2 DEF IInv, WaitingPart
<1>16. OwnedWhileWaitedFor'
  <2>1. \A w \in Mutexes : k'.wait[w] # <<>> => k.wait[w] # <<>>
    BY <1>9, StillWaited
  <2>2. /\ owner'[m] = u /\ hold'[m] = 1 /\ value'[m] = 0
        /\ \A w \in Mutexes \ {m} : owner'[w] = owner[w] /\ hold'[w] = hold[w] /\ value'[w] = value[w]
    BY <1>1, <1>2, <1>6 DEF IInv, TypePart, OwnedWhileWaitedFor
  <2>3. ~Contains(k'.wait[m], u)
    BY <1>9
  <2>4. ASSUME NEW w \in Mutexes \ {m}
        PROVE  /\ value'[w] = 1 <=> owner'[w] = NoThread
               /\ owner'[w] = NoThread <=> hold'[w] = 0
               /\ k'.wait[w] # <<>> => owner'[w] # NoThread /\ ~Contains(k'.wait[w], owner'[w])
    BY <2>1, <2>2, <1>9, SMTT(60) DEF IInv, OwnedWhileWaitedFor
  <2>. QED BY <2>2, <2>3, <2>4, <1>10 DEF OwnedWhileWaitedFor
<1>17. MutualExclusion'
  <2> SUFFICES ASSUME NEW x \in Mutexes, NEW y \in Thread
               PROVE  held'[x][y] + (IF y \in Handed(x)' THEN 1 ELSE 0)
                        = (IF owner'[x] = y THEN hold'[x] ELSE 0)
    BY DEF MutualExclusion
  <2>1. held[x][y] + (IF y \in Handed(x) THEN 1 ELSE 0)
               = (IF owner[x] = y THEN hold[x] ELSE 0)
    BY DEF IInv, MutualExclusion
  <2>2. y \in Handed(x)' <=> y \in Handed(x) \/ (y = u /\ x = m)
    BY <1>1, <1>2, <1>3, <1>9, <1>10, ZenonT(60) DEF Handed, IInv, TypePart, KernelType
  <2>3. CASE x = m
    <3>1. owner'[m] = u /\ hold'[m] = 1
      BY <1>1, <1>6 DEF IInv, TypePart
    <3>2. held'[m][y] = 0
      BY <1>2, <1>12
    <3>. QED BY <2>2, <2>3, <3>1, <3>2, <1>2
  <2>4. CASE x # m
    <3>1. hold'[x] = hold[x] /\ owner'[x] = owner[x]
      BY <1>1, <1>6, <2>4 DEF IInv, TypePart
    <3>. QED BY <2>1, <2>2, <2>4, <3>1, <1>12
  <2>. QED BY <2>3, <2>4
<1>18. orig' = [orig EXCEPT ![m] = k'.prio[u]]
  BY <1>6, <1>9
<1>19. HandsTo(t, m, u)
  BY <1>1, <1>5, <1>6, <1>9, <1>10, <1>18 DEF HandsTo
<1>. QED BY <1>1, <1>2, <1>7, <1>9, <1>10, <1>13, <1>14, <1>15, <1>16, <1>17, <1>19 DEF IInv

\* The steps of rt_mutex_detach that leave the threads alone
LEMMA DetachMovesKeep ==
  ASSUME IInv, NEW t \in Thread,
         (\E m \in Mutexes : Detach(t, m)) \/ DetachTest(t) \/ DetachObject(t)
  PROVE  IInv' /\ k'.wait = k.wait /\ k'.prio = k.prio
<1>1. /\ t = k.cur /\ pc[t] \notin {"schedule", "return", "post"} /\ UNCHANGED k
      /\ UNCHANGED <<value, owner, orig, hold, held>>
  BY DEF Detach, DetachTest, DetachObject, Calls, At, objects
<1>2. PICK p \in PC \ {"schedule", "return"} : pc' = [pc EXCEPT ![t] = p]
  BY DEF PC, Detach, DetachTest, DetachObject, Goto
<1>3. /\ want' \in [Thread -> Mutexes] /\ \A y \in Thread : y # t => want'[y] = want[y]
      /\ alive' \subseteq Mutexes
  <2>1. want \in [Thread -> Mutexes] /\ alive \subseteq Mutexes
    BY DEF IInv, TypePart
  <2>2. CASE \E m \in Mutexes : Detach(t, m)
    BY <2>1, <2>2 DEF Detach, objects
  <2>3. CASE DetachTest(t) \/ DetachObject(t)
    BY <2>1, <2>3 DEF DetachTest, DetachObject, objects
  <2>. QED BY <2>2, <2>3
<1>4. k.stat[t] = "ready" /\ \A x \in Mutexes : ~Contains(k.wait[x], t)
  BY <1>1, Runs
<1>5. TypePart'
  BY <1>1, <1>2, <1>3 DEF IInv, TypePart
<1>6. KernelPart' /\ RunningPart' /\ OwnedWhileWaitedFor'
  BY <1>1, <1>4 DEF IInv, KernelPart, RunningPart, OwnedWhileWaitedFor
<1>7. WaitingPart'
  BY <1>1, <1>2, <1>3, <1>4 DEF IInv, TypePart, WaitingPart
<1>8. MutualExclusion'
  <2>1. \A x \in Mutexes, y \in Thread : y \in Handed(x)' <=> y \in Handed(x)
    BY <1>1, <1>2, <1>3 DEF Handed, IInv, TypePart
  <2>. QED BY <1>1, <2>1 DEF IInv, MutualExclusion
<1>. QED BY <1>1, <1>5, <1>6, <1>7, <1>8 DEF IInv

\* What taking a thread off its list with an error, ready again, does to the mutexes
LEMMA FailedWait ==
  ASSUME IInv, KernelPart', RunningPart', NEW u \in Thread, NEW e \in {"ERROR", "ETIMEOUT"},
         k.stat[u] = "suspend",
         k'.stat = [k.stat EXCEPT ![u] = "ready"], k'.err = [k.err EXCEPT ![u] = e],
         \A w \in Mutexes : \A x : Contains(k'.wait[w], x) <=> Contains(k.wait[w], x) /\ x # u,
         NEW t \in Thread, NEW p \in PC \ {"schedule", "return"},
         \/ pc' = pc
         \/ pc[t] \notin {"schedule", "return"} /\ pc' = [pc EXCEPT ![t] = p],
         UNCHANGED <<want, objects>>
  PROVE  IInv'
<1>1. /\ k.stat \in [Thread -> Stat] /\ k.err \in [Thread -> Error]
      /\ pc \in [Thread -> PC]
  BY KernelFields DEF IInv, TypePart
<1>2. TypePart'
  BY SMTT(60) DEF IInv, TypePart, objects
<1>3. WaitingPart'
  BY <1>1, SMTT(60) DEF IInv, WaitingPart
<1>4. OwnedWhileWaitedFor'
  <2>1. \A w \in Mutexes : k'.wait[w] # <<>> => k.wait[w] # <<>>
    BY StillWaited
  <2>. QED BY <2>1 DEF IInv, OwnedWhileWaitedFor, objects
<1>5. MutualExclusion'
  <2>1. \A x \in Mutexes, y \in Thread : y \in Handed(x)' <=> y \in Handed(x)
    BY <1>1 DEF Handed
  <2>. QED BY <2>1 DEF IInv, MutualExclusion, objects
<1>. QED BY <1>2, <1>3, <1>4, <1>5 DEF IInv

\* One more waiter gets an error in rt_ipc_list_resume_all
LEMMA DetachWakeKeeps ==
  ASSUME IInv, NEW t \in Thread, DetachWake(t)
  PROVE  /\ IInv' /\ k'.prio = k.prio
         /\ \E u : k'.wait = [w \in Mutexes |-> RemoveFirst(k.wait[w], u)]
<1> DEFINE m == want[t]
<1>1. /\ t = k.cur /\ pc[t] = "wake" /\ k.wait[m] # <<>> /\ k' = ResumeFailed(k, m)
      /\ pc' = [pc EXCEPT ![t] = "detach"] /\ UNCHANGED <<want, objects>>
  BY DEF DetachWake, At, Goto
<1>2. m \in Mutexes
  BY DEF IInv, TypePart
<1> HIDE DEF m
<1>3. PICK u : u = Head(k.wait[m])
  OBVIOUS
<1>4. KernelPart /\ KernelType(k) /\ KernelInv(k, {}) /\ k.wait[m] \in Seq(Thread)
  BY <1>2, KernelFields DEF IInv
<1>5. u \in Thread /\ k.stat[u] = "suspend" /\ Contains(k.wait[m], u)
  <2>1. Contains(k.wait[m], u)
    BY <1>1, <1>3, <1>4, HeadList
  <2>. QED BY <2>1, <1>2, WaiterFacts
<1> DEFINE e == [k EXCEPT !.err[u] = "ERROR"]
<1>6. k' = Resume(e, u)
  BY <1>1, <1>3 DEF ResumeFailed
<1>7. KernelInv(e, {}) /\ e = [k EXCEPT !.err = [k.err EXCEPT ![u] = "ERROR"]]
  BY <1>4, <1>5, ErrorKeeps DEF Error
<1> HIDE DEF e
<1>8. /\ e.stat = k.stat /\ e.lock = k.lock /\ e.wait = k.wait /\ e.cur = k.cur
      /\ e.err = [k.err EXCEPT ![u] = "ERROR"] /\ e.prio = k.prio
  BY <1>4, <1>7 DEF KernelType
<1>9. /\ KernelPart'
      /\ k'.stat = [k.stat EXCEPT ![u] = "ready"]
      /\ k'.cur = k.cur /\ k'.err = [k.err EXCEPT ![u] = "ERROR"] /\ k'.prio = k.prio
      /\ k'.wait = [w \in Mutexes |-> RemoveFirst(k.wait[w], u)]
      /\ \A w \in Mutexes : \A x : Contains(k'.wait[w], x) <=> Contains(k.wait[w], x) /\ x # u
  <2>1. u \in Thread /\ Contains(k.wait[m], u) /\ k' = Resume(e, u)
    BY <1>5, <1>6
  <2>2. KernelInv(e, {}) /\ e.stat = k.stat /\ e.lock = k.lock /\ e.wait = k.wait /\ e.cur = k.cur
    BY <1>7, <1>8
  <2>3. /\ KernelPart'
        /\ k'.stat = [k.stat EXCEPT ![u] = "ready"]
        /\ k'.cur = k.cur /\ k'.err = e.err /\ k'.prio = e.prio
        /\ k'.wait = [w \in Mutexes |-> RemoveFirst(k.wait[w], u)]
        /\ \A w \in Mutexes : \A x : Contains(k'.wait[w], x) <=> Contains(k.wait[w], x) /\ x # u
    BY <1>2, <2>1, <2>2, WakeStep, ZenonT(60)
  <2>. QED BY <2>3, <1>8
<1>10. RunningPart'
  <2>1. k.stat[t] = "ready"
    BY <1>1, Runs
  <2>. QED BY <2>1, <1>1, <1>4, <1>5, <1>9 DEF RunningPart, KernelType
<1>11. "detach" \in PC \ {"schedule", "return"}
  BY DEF PC
<1>12. IInv'
  BY <1>1, <1>5, <1>9, <1>10, <1>11, FailedWait
<1>. QED BY <1>9, <1>12

\* A wait or a sleep that runs out, and the rt_schedule in rt_thread_timeout
LEMMA ExpireKeeps ==
  ASSUME IInv, NEW t \in Thread, Expire(t)
  PROVE  /\ IInv' /\ k'.prio = k.prio
         /\ \E u : k'.wait = [w \in Mutexes |-> RemoveFirst(k.wait[w], u)]
<1>1. /\ KernelPart /\ KernelType(k) /\ KernelInv(k, {}) /\ k.timer[t] /\ t \in Thread \ {}
      /\ UNCHANGED <<pc, want, objects>>
  BY KernelFields DEF IInv, Expire
<1>2. k.stat[t] = "suspend"
  BY <1>1 DEF KernelInv, TimersExact
<1> DEFINE e == [k EXCEPT !.err[t] = "ETIMEOUT"]
<1>3. e = [k EXCEPT !.err = [k.err EXCEPT ![t] = "ETIMEOUT"]]
  OBVIOUS
<1>4. e.stat = k.stat /\ e.wait = k.wait /\ e.lock = k.lock /\ e.prio = k.prio
  BY <1>1, <1>3 DEF KernelType
<1> HIDE DEF e
<1>5. PICK r : r = Timeout(k, t)
  OBVIOUS
<1>6. /\ KernelInv(r, {}) /\ Woken(e, r, t)
      /\ r.err = [k.err EXCEPT ![t] = "ETIMEOUT"]
  BY <1>1, <1>5, TimeoutKeeps DEF e
<1>7. /\ r.stat = [k.stat EXCEPT ![t] = "ready"] /\ r.lock = 0 /\ r.prio = k.prio
      /\ r.wait = [w \in Mutexes |-> RemoveFirst(k.wait[w], t)]
      /\ \A w \in Mutexes : \A x : Contains(r.wait[w], x) <=> Contains(k.wait[w], x) /\ x # t
  BY <1>1, <1>4, <1>6, MutexAssumption DEF Woken, KernelPart
<1>8. \A x \in Thread : r.stat[x] # "close"
  BY <1>1, <1>7 DEF KernelPart, KernelType
<1>9. /\ KernelPart' /\ RunningPart'
      /\ k'.stat = r.stat /\ k'.err = r.err /\ k'.wait = r.wait /\ k'.prio = r.prio
  <2>1. k' = Schedule(r)
    BY <1>5 DEF Expire
  <2>. QED BY <1>6, <1>7, <1>8, <2>1, ScheduleStep
<1>10. PICK p \in PC \ {"schedule", "return"} : TRUE
  BY DEF PC
<1>11. IInv'
  BY <1>1, <1>2, <1>6, <1>7, <1>9, FailedWait, <1>10, ZenonT(60)
<1>. QED BY <1>7, <1>9, <1>11

\* The end of a time slice
LEMMA TickKeeps ==
  ASSUME IInv, Tick
  PROVE  IInv' /\ k'.wait = k.wait /\ k'.prio = k.prio
<1>1. KernelPart /\ KernelType(k) /\ KernelInv(k, {}) /\ UNCHANGED <<pc, want, objects>>
  BY KernelFields DEF IInv, Tick
<1>2. PICK r : r = Rotate(k)
  OBVIOUS
<1>3. KernelInv(r, {}) /\ r = [k EXCEPT !.ready = r.ready]
  BY <1>1, <1>2, RotateKeeps
<1>4. r.stat = k.stat /\ r.err = k.err /\ r.wait = k.wait /\ r.lock = k.lock /\ r.prio = k.prio
  BY <1>1, <1>3 DEF KernelType
<1>5. /\ KernelPart' /\ RunningPart'
      /\ k'.stat = k.stat /\ k'.err = k.err /\ k'.wait = k.wait /\ k'.prio = k.prio
  BY <1>1, <1>2, <1>3, <1>4, ScheduleStep DEF Tick, KernelPart
<1>6. /\ TypePart' /\ WaitingPart' /\ OwnedWhileWaitedFor' /\ MutualExclusion'
  BY <1>1, <1>5 DEF IInv, TypePart, WaitingPart, OwnedWhileWaitedFor, MutualExclusion, Handed,
                    objects
<1>. QED BY <1>5, <1>6 DEF IInv

\* A thread sleeps between its calls
LEMMA SleepKeeps ==
  ASSUME IInv, NEW t \in Thread, Sleep(t)
  PROVE  IInv' /\ k'.wait = k.wait /\ k'.prio = k.prio
<1>1. /\ t = k.cur /\ pc[t] = "run" /\ t # Idle /\ t \in Thread \ {} /\ t \in Sleepers
      /\ pc' = [pc EXCEPT ![t] = "post"] /\ UNCHANGED <<want, objects>>
  BY MutexAssumption DEF Sleep, At, Goto
<1>2. k.stat[t] = "ready" /\ \A m \in Mutexes : ~Contains(k.wait[m], t)
  BY <1>1, Runs
<1>3. KernelPart /\ KernelType(k) /\ KernelInv(k, {})
  BY KernelFields DEF IInv
<1> DEFINE s == Suspend(k, t)
<1>4. KernelInv(s, {}) /\ Suspended(k, s, t)
  BY <1>1, <1>2, <1>3, SuspendKeeps
<1>5. k' = StartTimer(s, t)
  BY DEF Sleep
<1> HIDE DEF s
<1>6. /\ s.stat = [k.stat EXCEPT ![t] = "suspend"] /\ s.cur = k.cur /\ s.err = k.err
      /\ s.lock = k.lock /\ s.stat[t] = "suspend" /\ s.wait = k.wait /\ s.prio = k.prio
  BY <1>1, <1>3, <1>4 DEF Suspended, KernelType
<1>7. KernelInv(k', {}) /\ k' = [s EXCEPT !.timer = [s.timer EXCEPT ![t] = TRUE]]
  BY <1>1, <1>4, <1>5, <1>6, StartTimerKeeps
<1>8. /\ k'.stat = s.stat /\ k'.cur = s.cur /\ k'.err = s.err /\ k'.lock = s.lock
      /\ k'.wait = s.wait /\ k'.prio = s.prio
  BY <1>4, <1>7 DEF KernelInv, KernelType
<1>9. KernelPart'
  BY <1>3, <1>6, <1>7, <1>8 DEF KernelPart, KernelType
<1>10. TypePart' /\ RunningPart'
  BY <1>1, <1>6, <1>8 DEF IInv, TypePart, RunningPart, PC, objects
<1>11. WaitingPart' /\ OwnedWhileWaitedFor'
  BY <1>1, <1>2, <1>6, <1>8 DEF IInv, TypePart, WaitingPart, OwnedWhileWaitedFor, objects
<1>12. MutualExclusion'
  <2>1. \A x \in Mutexes, y \in Thread : y \in Handed(x)' <=> y \in Handed(x)
    BY <1>1, <1>3, <1>6, <1>8 DEF Handed, IInv, TypePart, KernelType
  <2>. QED BY <1>1, <2>1 DEF IInv, MutualExclusion, objects
<1>. QED BY <1>6, <1>8, <1>9, <1>10, <1>11, <1>12 DEF IInv

-----------------------------------------------------------------------------
(***************************************************************************)
(* The theorems that hold of every use of the mutexes.                     *)
(***************************************************************************)

\* The initial state
LEMMA InitInv == Init => IInv
<1> SUFFICES ASSUME Init PROVE IInv
  OBVIOUS
<1>1. KernelPart /\ RunningPart
  BY BootKeeps DEF Init, KernelPart, RunningPart
<1>2. \A m \in Mutexes : k.wait[m] = <<>>
  BY BootKeeps, MutexAssumption DEF Init
<1>3. WaitingPart
  BY <1>2, EmptyList DEF WaitingPart
<1>4. TypePart
  <2>1. (CHOOSE m \in Mutexes : TRUE) \in Mutexes
    BY MutexAssumption
  <2>. QED BY <2>1, MutexAssumption DEF Init, TypePart, PC
<1>5. OwnedWhileWaitedFor
  BY <1>2 DEF Init, OwnedWhileWaitedFor
<1>6. MutualExclusion
  <2>1. \A t \in Thread : t # NoThread
    BY MutexAssumption
  <2>. QED BY <2>1 DEF Init, MutualExclusion, Handed
<1>. QED BY <1>1, <1>3, <1>4, <1>5, <1>6 DEF IInv

\* Every step keeps the invariant
LEMMA StepKeeps == IInv /\ [Next]_vars => IInv'
<1> SUFFICES ASSUME IInv, [Next]_vars PROVE IInv'
  OBVIOUS
<1>1. ASSUME NEW t \in Thread, NEW m \in Mutexes,
             \/ TakeAgain(t, m) \/ TakeFree(t, m) \/ TakeRefused(t, m)
             \/ \E time \in Times : TakeBlock(t, m, time)
             \/ ReleaseRefused(t, m)
      PROVE  IInv'
  BY <1>1, TakeAgainKeeps, TakeFreeKeeps, RefusedKeep, TakeBlockKeeps
<1>2. ASSUME NEW t \in Thread, NEW m \in Mutexes,
             ReleaseNested(t, m) \/ ReleaseFree(t, m) \/ ReleaseHandOver(t, m)
      PROVE  IInv'
  BY <1>2, ReleaseNestedKeeps, ReleaseFreeKeeps, HandOverKeeps
<1>3. ASSUME NEW t \in Thread, TakeSchedule(t) \/ PostSchedule(t) \/ TakeReturn(t)
      PROVE  IInv'
  BY <1>3, SchedulesKeep, TakeReturnKeeps
<1>4. ASSUME NEW t \in Thread,
             \/ (\E m \in Mutexes : Detach(t, m)) \/ DetachTest(t) \/ DetachWake(t)
             \/ DetachObject(t)
      PROVE  IInv'
  BY <1>4, DetachMovesKeep, DetachWakeKeeps
<1>5. ASSUME NEW t \in Thread, Expire(t) \/ Sleep(t) PROVE IInv'
  BY <1>5, ExpireKeeps, SleepKeeps
<1>6. CASE Tick
  BY <1>6, TickKeeps
<1>7. CASE UNCHANGED vars
  BY <1>7 DEF vars, IInv, KernelPart, TypePart, RunningPart, WaitingPart,
       OwnedWhileWaitedFor, MutualExclusion, Handed
<1>. QED BY <1>1, <1>2, <1>3, <1>4, <1>5, <1>6, <1>7 DEF Next, Release, LastRelease, Continue

\* rt_mutex_take, rt_mutex_release and the rest keep the kernel and the mutexes consistent
THEOREM Consistent == Spec => []IInv
BY InitInv, StepKeeps, PTL DEF Spec

\* The type invariant of the mutexes, kernel lists and bitmap included
THEOREM TypeCorrect == Spec => []TypeOK
<1>1. IInv => TypeOK
  BY MutexAssumption DEF IInv, KernelPart, TypePart, TypeOK
<1>. QED BY <1>1, Consistent, PTL

\* Only the owner believes it holds a mutex, as often as mutex->hold says
THEOREM OnlyOwnerHolds == Spec => []MutualExclusion
<1>1. IInv => MutualExclusion
  BY DEF IInv
<1>. QED BY <1>1, Consistent, PTL

\* Nobody waits for a mutex that is free, or for one it owns
THEOREM WaitedForIsOwned == Spec => []OwnedWhileWaitedFor
<1>1. IInv => OwnedWhileWaitedFor
  BY DEF IInv
<1>. QED BY <1>1, Consistent, PTL

-----------------------------------------------------------------------------
(***************************************************************************)
(* Priority inheritance.  ipc.c keeps one original priority per mutex and  *)
(* gives it back whatever else the thread owns, so what follows holds of   *)
(* threads that own one mutex at a time, and is false of others.           *)
(***************************************************************************)

\* No thread takes a mutex while it owns another
NotNested == MaxOwned <= 1 \/ \A m, n \in Mutexes : m = n

\* An owner owns one mutex and waits for none; the mutex knows its own priority,
\* which every thread that owns none has
SinglePart ==
  /\ \A m, n \in Mutexes : owner[m] # NoThread /\ owner[m] = owner[n] => m = n
  /\ \A m, n \in Mutexes : ~Contains(k.wait[n], owner[m])
  /\ \A m \in Mutexes : owner[m] # NoThread => orig[m] = InitPrio[owner[m]]
  /\ PriorityRestored

\* The suspend lists of the PRIO mutexes are in order, and their owners as urgent as
\* anybody in them
InheritPart ==
  \A m \in Mutexes : Flag[m] = "PRIO" =>
    /\ Ordered(k.prio, k.wait[m])
    /\ \A t \in Thread : Contains(k.wait[m], t) => k.prio[owner[m]] <= k.prio[t]

SInv == IInv /\ SinglePart /\ InheritPart

\* The types these proofs use
LEMMA InvTypes ==
  ASSUME IInv
  PROVE  /\ KernelType(k) /\ k.prio \in [Thread -> Nat] /\ k.prio \in [Thread -> Prio]
         /\ k.wait \in [Mutexes -> Seq(Thread)]
         /\ owner \in [Mutexes -> User \cup {NoThread}]
         /\ orig \in [Mutexes -> Prio \cup {255}]
  BY KernelFields, PrioNat DEF IInv, TypePart

\* A thread that takes or waits owns nothing, as no thread may own two
LEMMA OwnsNothing ==
  ASSUME NotNested, SInv, NEW t \in Thread, NEW m \in Mutexes, owner[m] # t,
         Cardinality(Owned(t)) < MaxOwned
  PROVE  Owned(t) = {}
<1>1. CASE \A x, y \in Mutexes : x = y
  BY <1>1 DEF Owned
<1>2. CASE MaxOwned <= 1
  <2>1. IsFiniteSet(Owned(t))
    BY MutexAssumption, FS_Subset DEF Owned
  <2>2. Cardinality(Owned(t)) \in Nat /\ MaxOwned \in Nat
    BY <2>1, MutexAssumption, FS_CardinalityType
  <2>3. Cardinality(Owned(t)) = 0
    BY <1>2, <2>2
  <2>. QED BY <2>1, <2>3, FS_EmptySet
<1>. QED BY <1>1, <1>2 DEF NotNested

\* Steps that leave the priorities, the lists and the owners alone
LEMMA SameKeeps ==
  ASSUME SInv, IInv', k'.prio = k.prio, k'.wait = k.wait, UNCHANGED <<owner, orig>>
  PROVE  SInv'
BY DEF SInv, SinglePart, PriorityRestored, InheritPart, Owned

\* Steps that take a thread off its list
LEMMA RemoveKeeps ==
  ASSUME SInv, IInv', k'.prio = k.prio, UNCHANGED <<owner, orig>>, NEW u,
         k'.wait = [w \in Mutexes |-> RemoveFirst(k.wait[w], u)]
  PROVE  SInv'
<1>1. \A w \in Mutexes : /\ k.wait[w] \in Seq(Thread) /\ Distinct(k.wait[w])
                         /\ k'.wait[w] = RemoveFirst(k.wait[w], u)
  BY InvTypes, MutexAssumption DEF SInv, IInv, KernelPart, KernelInv, WaitListsExact
<1>2. \A w \in Mutexes : \A x : Contains(k'.wait[w], x) => Contains(k.wait[w], x)
  BY <1>1, RemoveFirstList
<1>3. \A w \in Mutexes : Ordered(k.prio, k.wait[w]) => Ordered(k'.prio, k'.wait[w])
  BY <1>1, RemoveOrdered
<1>4. SinglePart'
  BY <1>2 DEF SInv, SinglePart, PriorityRestored, Owned
<1>5. InheritPart'
  BY <1>2, <1>3 DEF SInv, InheritPart
<1>. QED BY <1>4, <1>5 DEF SInv

\* Taking a free mutex with one's own priority
LEMMA SingleTakeFree ==
  ASSUME NotNested, SInv, NEW t \in Thread, NEW m \in Mutexes, TakeFree(t, m)
  PROVE  SInv'
<1>1. /\ IInv' /\ k'.wait = k.wait /\ k'.prio = k.prio
      /\ owner[m] = NoThread /\ k.wait[m] = <<>> /\ t \in User
  BY TakeFreeKeeps DEF SInv
<1>2. /\ t = k.cur /\ pc[t] = "run"
      /\ owner' = [owner EXCEPT ![m] = t] /\ orig' = [orig EXCEPT ![m] = k.prio[t]]
      /\ owner[m] # t /\ Cardinality(Owned(t)) < MaxOwned
  BY DEF TakeFree, Calls, At
<1>3. Owned(t) = {} /\ k.prio[t] = InitPrio[t]
  BY <1>2, OwnsNothing DEF SInv, SinglePart, PriorityRestored
<1>4. \A n \in Mutexes : owner[n] # t /\ ~Contains(k.wait[n], t)
  BY <1>2, <1>3, Runs DEF SInv, Owned
<1>5. /\ owner'[m] = t /\ orig'[m] = InitPrio[t]
      /\ \A n \in Mutexes \ {m} : owner'[n] = owner[n] /\ orig'[n] = orig[n]
  BY <1>2, <1>3, InvTypes DEF SInv
<1>6. \A x \in Thread : Owned(x)' = {} => Owned(x) = {}
  BY <1>1, <1>5, MutexAssumption DEF Owned
<1>7. SinglePart'
  BY <1>1, <1>4, <1>5, <1>6 DEF SInv, SinglePart, PriorityRestored
<1>8. InheritPart'
  <2>1. \A x : ~Contains(k'.wait[m], x)
    BY <1>1, EmptyList
  <2>. QED BY <1>1, <1>5, <2>1 DEF SInv, InheritPart
<1>. QED BY <1>1, <1>7, <1>8 DEF SInv

\* Waiting for a mutex: its owner becomes as urgent as the waiter
LEMMA SingleTakeBlock ==
  ASSUME NotNested, SInv, NEW t \in Thread, NEW m \in Mutexes, NEW time \in Times,
         TakeBlock(t, m, time)
  PROVE  SInv'
<1> DEFINE u == owner[m]
           p == IF k.prio[t] < k.prio[u] THEN k.prio[t] ELSE k.prio[u]
<1>1. /\ IInv' /\ u \in User /\ u # t /\ k.wait[m] \in Seq(Thread)
      /\ k'.prio = [k.prio EXCEPT ![u] = p]
  BY TakeBlockKeeps DEF SInv
<1>2. PICK b : /\ KernelType(b) /\ b.prio = k'.prio
               /\ k'.wait = [k.wait EXCEPT
                    ![m] = InsertAt(k.wait[m], InsertPos(b, k.wait[m], t, Flag[m]), t)]
  BY TakeBlockKeeps DEF SInv
<1>3. /\ Cardinality(Owned(t)) < MaxOwned /\ UNCHANGED <<owner, orig>>
  BY DEF TakeBlock, objects
<1>4. \A n \in Mutexes : owner[n] # t
  <2>1. Owned(t) = {}
    BY <1>1, <1>3, OwnsNothing
  <2>. QED BY <2>1 DEF Owned
<1>5. /\ k.prio \in [Thread -> Nat] /\ k.wait \in [Mutexes -> Seq(Thread)]
      /\ u \in Thread /\ u # NoThread
      /\ \A n \in Mutexes \ {m} : owner[n] # u
  <2>1. k.prio \in [Thread -> Nat] /\ k.wait \in [Mutexes -> Seq(Thread)]
    BY InvTypes DEF SInv
  <2>2. u \in Thread /\ u # NoThread
    BY <1>1, MutexAssumption
  <2>. QED BY <2>1, <2>2 DEF SInv, SinglePart
<1> HIDE DEF u
<1>6. /\ k'.prio[u] = p /\ p <= k.prio[t] /\ p <= k.prio[u]
      /\ \A x \in Thread : x # u => k'.prio[x] = k.prio[x]
  BY <1>1, <1>5
<1> HIDE DEF p
<1>7. /\ \A n \in Mutexes \ {m} : k'.wait[n] = k.wait[n]
      /\ k'.wait[m] = InsertAt(k.wait[m], InsertPos(b, k.wait[m], t, Flag[m]), t)
      /\ \A x : Contains(k'.wait[m], x) <=> Contains(k.wait[m], x) \/ x = t
  <2>1. /\ \A n \in Mutexes \ {m} : k'.wait[n] = k.wait[n]
        /\ k'.wait[m] = InsertAt(k.wait[m], InsertPos(b, k.wait[m], t, Flag[m]), t)
    BY <1>2, <1>5
  <2>2. InsertPos(b, k.wait[m], t, Flag[m]) \in 1..(Len(k.wait[m]) + 1)
    BY <1>1, <1>2, InsertPosRange
  <2>3. \A x : Contains(k'.wait[m], x) <=> Contains(k.wait[m], x) \/ x = t
    BY <1>1, <2>1, <2>2, InsertAtList
  <2>. QED BY <2>1, <2>3
<1>8. \A n \in Mutexes : \A x : Contains(k.wait[n], x) => x # u /\ k'.prio[x] = k.prio[x]
  <2> SUFFICES ASSUME NEW n \in Mutexes, NEW x, Contains(k.wait[n], x)
               PROVE  x # u /\ k'.prio[x] = k.prio[x]
    OBVIOUS
  <2>1. x \in Thread
    BY WaiterFacts DEF SInv
  <2>2. x # u
    BY DEF SInv, SinglePart, u
  <2>. QED BY <2>1, <2>2, <1>6
<1>9. SinglePart'
  <2>1. \A x, n \in Mutexes : ~Contains(k'.wait[n], owner[x])
    BY <1>4, <1>7 DEF SInv, SinglePart
  <2>2. \A x \in Thread : Owned(x) = {} => x # u
    BY DEF Owned, u
  <2>3. PriorityRestored'
    BY <1>3, <1>6, <2>2 DEF SInv, SinglePart, PriorityRestored, Owned
  <2>. QED BY <1>3, <2>1, <2>3 DEF SInv, SinglePart
<1>10. InheritPart'
  <2> SUFFICES ASSUME NEW n \in Mutexes, Flag[n] = "PRIO"
               PROVE  /\ Ordered(k'.prio, k'.wait[n])
                      /\ \A x \in Thread :
                           Contains(k'.wait[n], x) => k'.prio[owner[n]] <= k'.prio[x]
    BY <1>3 DEF InheritPart
  <2>1. /\ Ordered(k.prio, k.wait[n])
        /\ \A x \in Thread : Contains(k.wait[n], x) => k.prio[owner[n]] <= k.prio[x]
    BY DEF SInv, InheritPart
  <2>2. Ordered(k'.prio, k.wait[n])
    BY <1>8, <2>1, SameOrder
  <2>3. CASE n = m
    <3>1. Ordered(k'.prio, k'.wait[n])
      <4>1. Ordered(b.prio, InsertAt(k.wait[m], InsertPos(b, k.wait[m], t, "PRIO"), t))
        BY <1>1, <1>2, <2>2, <2>3, InsertOrdered
      <4>. QED BY <4>1, <1>2, <1>7, <2>3
    <3>2. ASSUME NEW x \in Thread, Contains(k'.wait[m], x) PROVE p <= k'.prio[x]
      <4>1. CASE x = t
        BY <4>1, <1>1, <1>6
      <4>2. CASE x # t
        <5>1. Contains(k.wait[m], x)
          BY <3>2, <4>2, <1>7
        <5>2. k.prio[u] <= k.prio[x] /\ k'.prio[x] = k.prio[x]
          BY <5>1, <2>1, <2>3, <1>8 DEF u
        <5>3. p \in Nat
          BY <1>5, <1>6, InvTypes DEF SInv, p
        <5>. QED BY <5>2, <5>3, <1>5, <1>6
      <4>. QED BY <4>1, <4>2
    <3>. QED BY <2>3, <3>1, <3>2, <1>6 DEF u
  <2>4. CASE n # m
    <3>1. k'.wait[n] = k.wait[n] /\ owner[n] # u
      BY <2>4, <1>5, <1>7
    <3>2. ASSUME NEW x \in Thread, Contains(k.wait[n], x)
          PROVE  k'.prio[owner[n]] = k.prio[owner[n]] /\ k'.prio[x] = k.prio[x]
      <4>1. owner[n] \in Thread
        <5>1. k.wait[n] # <<>>
          BY <3>2, EmptyList
        <5>. QED BY <5>1, InvTypes, MutexAssumption DEF SInv, IInv, OwnedWhileWaitedFor
      <4>. QED BY <3>1, <3>2, <4>1, <1>6, <1>8
    <3>. QED BY <2>1, <2>2, <3>1, <3>2
  <2>. QED BY <2>3, <2>4
<1>. QED BY <1>1, <1>9, <1>10 DEF SInv

\* The last release gives the owner its own priority back
LEMMA SingleRelease ==
  ASSUME SInv, NEW t \in Thread, NEW m \in Mutexes, owner[m] = t, t # NoThread,
         k'.prio = [k.prio EXCEPT ![t] = orig[m]]
  PROVE  /\ k'.prio[t] = InitPrio[t]
         /\ \A x \in Thread : x # t => k'.prio[x] = k.prio[x]
         /\ \A n \in Mutexes \ {m} : owner[n] # t
         /\ \A n \in Mutexes : \A x : Contains(k.wait[n], x) =>
              x \in Thread /\ x # t /\ k'.prio[x] = k.prio[x]
<1>1. k'.prio[t] = InitPrio[t] /\ \A x \in Thread : x # t => k'.prio[x] = k.prio[x]
  BY InvTypes DEF SInv, SinglePart
<1>2. \A n \in Mutexes \ {m} : owner[n] # t
  BY DEF SInv, SinglePart
<1>3. \A n \in Mutexes : \A x : Contains(k.wait[n], x) => x \in Thread /\ x # t
  BY WaiterFacts DEF SInv, SinglePart
<1>. QED BY <1>1, <1>2, <1>3

\* ... when nobody waits
LEMMA SingleReleaseFree ==
  ASSUME SInv, NEW t \in Thread, NEW m \in Mutexes, ReleaseFree(t, m)
  PROVE  SInv'
<1>1. /\ IInv' /\ k'.wait = k.wait /\ k'.prio = [k.prio EXCEPT ![t] = orig[m]]
      /\ owner[m] = t /\ t # NoThread
  BY ReleaseFreeKeeps, MutexAssumption DEF SInv
<1>2. /\ k'.prio[t] = InitPrio[t]
      /\ \A x \in Thread : x # t => k'.prio[x] = k.prio[x]
      /\ \A n \in Mutexes \ {m} : owner[n] # t
      /\ \A n \in Mutexes : \A x : Contains(k.wait[n], x) =>
           x \in Thread /\ x # t /\ k'.prio[x] = k.prio[x]
  BY <1>1, SingleRelease
<1>3. /\ owner' = [owner EXCEPT ![m] = NoThread] /\ orig' = [orig EXCEPT ![m] = 255]
      /\ k.wait[m] = <<>>
  BY DEF ReleaseFree, Free
<1>4. /\ owner'[m] = NoThread
      /\ \A n \in Mutexes \ {m} : owner'[n] = owner[n] /\ orig'[n] = orig[n]
  BY <1>3, InvTypes DEF SInv
<1>5. \A n \in Mutexes : ~Contains(k.wait[n], NoThread)
  BY <1>2, MutexAssumption
<1>6. \A x \in Thread : x # t => (Owned(x)' = {} => Owned(x) = {})
  BY <1>1, <1>4 DEF Owned
<1>7. SinglePart'
  BY <1>1, <1>2, <1>4, <1>5, <1>6 DEF SInv, SinglePart, PriorityRestored
<1>8. InheritPart'
  <2> SUFFICES ASSUME NEW n \in Mutexes, Flag[n] = "PRIO"
               PROVE  /\ Ordered(k'.prio, k'.wait[n])
                      /\ \A x \in Thread :
                           Contains(k'.wait[n], x) => k'.prio[owner'[n]] <= k'.prio[x]
    BY DEF InheritPart
  <2>1. Ordered(k'.prio, k'.wait[n])
    <3>1. Ordered(k.prio, k.wait[n]) /\ k'.wait[n] = k.wait[n]
      BY <1>1 DEF SInv, InheritPart
    <3>. QED BY <3>1, <1>2, SameOrder
  <2>2. ASSUME NEW x \in Thread, Contains(k'.wait[n], x)
        PROVE  k'.prio[owner'[n]] <= k'.prio[x]
    <3>1. Contains(k.wait[n], x) /\ n # m /\ k.wait[n] # <<>>
      BY <1>1, <1>3, <2>2, EmptyList
    <3>2. owner'[n] = owner[n] /\ owner[n] # t /\ owner[n] \in Thread
      BY <3>1, <1>2, <1>4, InvTypes, MutexAssumption DEF SInv, IInv, OwnedWhileWaitedFor
    <3>3. k.prio[owner[n]] <= k.prio[x]
      BY <3>1 DEF SInv, InheritPart
    <3>. QED BY <3>1, <3>2, <3>3, <1>2
  <2>. QED BY <2>1, <2>2
<1>. QED BY <1>1, <1>7, <1>8 DEF SInv

\* ... and when the first waiter becomes the owner, with its own priority
LEMMA SingleHandOver ==
  ASSUME SInv, NEW t \in Thread, NEW m \in Mutexes, ReleaseHandOver(t, m)
  PROVE  SInv'
<1>0. IInv
  BY DEF SInv
<1>1. /\ IInv' /\ k'.prio = [k.prio EXCEPT ![t] = orig[m]]
      /\ owner[m] = t /\ t # NoThread
  BY HandOverKeeps, MutexAssumption DEF SInv
<1>2a. PICK u \in User : HandsTo(t, m, u)
  BY <1>0, HandOverKeeps
<1>2. /\ u \in User /\ k.wait[m] # <<>> /\ u = Head(k.wait[m]) /\ u # t
      /\ Contains(k.wait[m], u)
      /\ k'.wait = [w \in Mutexes |-> RemoveFirst(k.wait[w], u)]
      /\ owner' = [owner EXCEPT ![m] = u]
      /\ orig' = [orig EXCEPT ![m] = k'.prio[u]]
  BY <1>2a DEF HandsTo
<1>3. /\ k'.prio[t] = InitPrio[t]
      /\ \A x \in Thread : x # t => k'.prio[x] = k.prio[x]
      /\ \A n \in Mutexes \ {m} : owner[n] # t
      /\ \A n \in Mutexes : \A x : Contains(k.wait[n], x) =>
           x \in Thread /\ x # t /\ k'.prio[x] = k.prio[x]
  BY <1>1, SingleRelease
<1>4. \A w \in Mutexes : /\ k.wait[w] \in Seq(Thread) /\ Distinct(k.wait[w])
                         /\ k'.wait[w] = RemoveFirst(k.wait[w], u)
  BY <1>2, InvTypes, MutexAssumption DEF SInv, IInv, KernelPart, KernelInv, WaitListsExact
<1>5. \A w \in Mutexes : \A x : Contains(k'.wait[w], x) <=> Contains(k.wait[w], x) /\ x # u
  BY <1>4, RemoveFirstList
<1>6. /\ owner'[m] = u /\ orig'[m] = k'.prio[u]
      /\ \A n \in Mutexes \ {m} : owner'[n] = owner[n] /\ orig'[n] = orig[n]
  BY <1>2, InvTypes DEF SInv
<1>7. /\ u \in Thread /\ u # NoThread /\ \A n \in Mutexes : owner[n] # u
      /\ k'.prio[u] = InitPrio[u]
  <2>1. u \in Thread /\ u # NoThread /\ \A n \in Mutexes : owner[n] # u
    BY <1>2, MutexAssumption DEF SInv, SinglePart
  <2>2. k.prio[u] = InitPrio[u]
    BY <2>1 DEF SInv, SinglePart, PriorityRestored, Owned
  <2>. QED BY <1>2, <1>3, <2>1, <2>2
<1>8. \A x \in Thread : x # t /\ x # u => (Owned(x)' = {} => Owned(x) = {})
  BY <1>1, <1>6 DEF Owned
<1>9. Owned(u)' # {}
  BY <1>6 DEF Owned
<1>10. SinglePart'
  <2>1. \A x, n \in Mutexes : ~Contains(k'.wait[n], owner'[x])
    BY <1>5, <1>6 DEF SInv, SinglePart
  <2>2. PriorityRestored'
    BY <1>3, <1>7, <1>8, <1>9 DEF SInv, SinglePart, PriorityRestored
  <2>3. \A x, n \in Mutexes : owner'[x] # NoThread /\ owner'[x] = owner'[n] => x = n
    BY <1>6, <1>7 DEF SInv, SinglePart
  <2>4. \A x \in Mutexes : owner'[x] # NoThread => orig'[x] = InitPrio[owner'[x]]
    BY <1>6, <1>7 DEF SInv, SinglePart
  <2>. QED BY <2>1, <2>2, <2>3, <2>4 DEF SinglePart
<1>11. InheritPart'
  <2> SUFFICES ASSUME NEW n \in Mutexes, Flag[n] = "PRIO"
               PROVE  /\ Ordered(k'.prio, k'.wait[n])
                      /\ \A x \in Thread :
                           Contains(k'.wait[n], x) => k'.prio[owner'[n]] <= k'.prio[x]
    BY DEF InheritPart
  <2>1. /\ Ordered(k.prio, k.wait[n])
        /\ \A x \in Thread : Contains(k.wait[n], x) => k.prio[owner[n]] <= k.prio[x]
    BY DEF SInv, InheritPart
  <2>2. Ordered(k'.prio, k'.wait[n])
    <3>1. Ordered(k.prio, k'.wait[n])
      BY <1>4, <2>1, RemoveOrdered
    <3>. QED BY <3>1, <1>3, <1>5, SameOrder
  <2>3. ASSUME NEW x \in Thread, Contains(k'.wait[n], x)
        PROVE  k'.prio[owner'[n]] <= k'.prio[x]
    <3>1. Contains(k.wait[n], x) /\ k'.prio[x] = k.prio[x]
      BY <2>3, <1>3, <1>5
    <3>2. CASE n = m
      <4>1. k.prio[u] <= k.prio[x]
        BY <3>1, <3>2, <2>1, <1>2, <1>4, InvTypes, HeadOrdered DEF SInv
      <4>2. k'.prio[u] = k.prio[u]
        BY <1>2, <1>3
      <4>. QED BY <3>1, <3>2, <4>1, <4>2, <1>6
    <3>3. CASE n # m
      <4>1. k.wait[n] # <<>>
        BY <3>1, EmptyList
      <4>2. owner'[n] = owner[n] /\ owner[n] # t /\ owner[n] \in Thread
        BY <3>3, <4>1, <1>3, <1>6, InvTypes, MutexAssumption
        DEF SInv, IInv, OwnedWhileWaitedFor
      <4>. QED BY <3>1, <4>2, <2>1, <1>3
    <3>. QED BY <3>2, <3>3
  <2>. QED BY <2>2, <2>3
<1>. QED BY <1>1, <1>10, <1>11 DEF SInv

\* Every step keeps the invariant of threads that own one mutex at a time
LEMMA SingleStep == NotNested /\ SInv /\ [Next]_vars => SInv'
<1> SUFFICES ASSUME NotNested, SInv, [Next]_vars PROVE SInv'
  OBVIOUS
<1>0. IInv /\ IInv'
  BY StepKeeps DEF SInv
<1>1. ASSUME NEW t \in Thread, NEW m \in Mutexes,
             TakeAgain(t, m) \/ TakeRefused(t, m) \/ ReleaseRefused(t, m) \/ ReleaseNested(t, m)
      PROVE  SInv'
  <2>1. UNCHANGED <<owner, orig>>
    BY <1>1 DEF TakeAgain, TakeRefused, ReleaseRefused, ReleaseNested, objects
  <2>2. k'.wait = k.wait /\ k'.prio = k.prio
    BY <1>0, <1>1, TakeAgainKeeps, RefusedKeep, ReleaseNestedKeeps
  <2>. QED BY <1>0, <2>1, <2>2, SameKeeps
<1>2. ASSUME NEW t \in Thread, NEW m \in Mutexes,
             TakeFree(t, m) \/ (\E time \in Times : TakeBlock(t, m, time))
      PROVE  SInv'
  BY <1>2, SingleTakeFree, SingleTakeBlock
<1>3. ASSUME NEW t \in Thread, NEW m \in Mutexes, ReleaseFree(t, m) \/ ReleaseHandOver(t, m)
      PROVE  SInv'
  BY <1>3, SingleReleaseFree, SingleHandOver
<1>4. ASSUME NEW t \in Thread,
             \/ TakeSchedule(t) \/ PostSchedule(t) \/ TakeReturn(t) \/ Sleep(t)
             \/ (\E m \in Mutexes : Detach(t, m)) \/ DetachTest(t) \/ DetachObject(t)
      PROVE  SInv'
  <2>1. UNCHANGED <<owner, orig>>
    BY <1>4 DEF TakeSchedule, PostSchedule, TakeReturn, Sleep, Detach, DetachTest,
                DetachObject, objects
  <2>2. k'.wait = k.wait /\ k'.prio = k.prio
    BY <1>0, <1>4, SchedulesKeep, TakeReturnKeeps, SleepKeeps, DetachMovesKeep
  <2>. QED BY <1>0, <2>1, <2>2, SameKeeps
<1>5. ASSUME NEW t \in Thread, DetachWake(t) \/ Expire(t) PROVE SInv'
  <2>1. UNCHANGED <<owner, orig>>
    BY <1>5 DEF DetachWake, Expire, objects
  <2>2. k'.prio = k.prio /\ \E u : k'.wait = [w \in Mutexes |-> RemoveFirst(k.wait[w], u)]
    BY <1>0, <1>5, DetachWakeKeeps, ExpireKeeps
  <2>. QED BY <1>0, <2>1, <2>2, RemoveKeeps
<1>6. CASE Tick
  <2>1. UNCHANGED <<owner, orig>>
    BY <1>6 DEF Tick, objects
  <2>. QED BY <1>0, <1>6, <2>1, TickKeeps, SameKeeps
<1>7. CASE UNCHANGED vars
  BY <1>0, <1>7, SameKeeps DEF vars
<1>. QED BY <1>1, <1>2, <1>3, <1>4, <1>5, <1>6, <1>7 DEF Next, Release, LastRelease, Continue

\* It holds at the start
LEMMA SingleInit == Init => SInv
<1> SUFFICES ASSUME Init PROVE SInv
  OBVIOUS
<1>1. \A m \in Mutexes : owner[m] = NoThread /\ k.wait[m] = <<>>
  BY BootKeeps, MutexAssumption DEF Init
<1>2. k.prio = InitPrio
  BY BootKeeps DEF Init
<1>3. SinglePart
  BY <1>1, <1>2, EmptyList DEF SinglePart, PriorityRestored
<1>4. InheritPart
  BY <1>1, EmptyList DEF InheritPart, Ordered
<1>. QED BY <1>3, <1>4, InitInv DEF SInv

\* Threads that own one mutex at a time get their own priority back with the last release
THEOREM PriorityComesBack ==
  ASSUME NotNested
  PROVE  Spec => []PriorityRestored
<1>1. SInv /\ [Next]_vars => SInv'
  BY SingleStep
<1>2. SInv => PriorityRestored
  BY DEF SInv, SinglePart
<1>. QED BY <1>1, <1>2, SingleInit, PTL DEF Spec

\* ... and if the lists are PRIO lists, an owner is as urgent as any thread that waits,
\* whatever timeouts, hand-overs and detaches come in between
THEOREM OwnerIsUrgent ==
  ASSUME NotNested, \A m \in Mutexes : Flag[m] = "PRIO"
  PROVE  Spec => []OwnerInherits
<1>1. SInv /\ [Next]_vars => SInv'
  BY SingleStep
<1>2. SInv => OwnerInherits
  BY DEF SInv, InheritPart, OwnerInherits
<1>. QED BY <1>1, <1>2, SingleInit, PTL DEF Spec
=============================================================================
