-------------------------- MODULE Scheduler_proofs --------------------------
(***************************************************************************)
(* Proofs about Scheduler, for every number of threads, every priority     *)
(* assignment and all calls that WellBehaved admits.                       *)
(***************************************************************************)
EXTENDS Scheduler, RtKernel_proofs

-----------------------------------------------------------------------------
(***************************************************************************)
(* More about the kernel: threads that enter and leave limbo, end, or keep *)
(* their place.                                                            *)
(***************************************************************************)

\* A thread that is on no list may be counted among those in limbo
LEMMA LimboGrows ==
  ASSUME NEW e, NEW L, KernelInv(e, L), NEW u \in Thread, u # Idle,
         e.stat[u] # "ready", \A w \in WaitList : ~Contains(e.wait[w], u)
  PROVE  KernelInv(e, L \cup {u})
<1>1. ReadyListsExact(e, L \cup {u})
  BY DEF KernelInv, ReadyListsExact
<1>2. WaitListsExact(e, L \cup {u})
  BY DEF KernelInv, WaitListsExact
<1>. QED BY <1>1, <1>2 DEF KernelInv

\* ... and no longer, when it is not ready
LEMMA LimboShrinks ==
  ASSUME NEW e, NEW L, NEW u \in Thread, KernelInv(e, L \cup {u}), e.stat[u] # "ready"
  PROVE  KernelInv(e, L \ {u}) /\ (u \notin L => KernelInv(e, L))
<1>1. ReadyListsExact(e, L \ {u})
  BY DEF KernelInv, ReadyListsExact
<1>2. WaitListsExact(e, L \ {u})
  BY DEF KernelInv, WaitListsExact
<1>3. KernelInv(e, L \ {u})
  BY <1>1, <1>2 DEF KernelInv
<1>4. u \notin L => L \ {u} = L
  OBVIOUS
<1>. QED BY <1>3, <1>4

\* rt_thread_delete and rt_thread_exit close a thread in limbo
LEMMA CloseKeeps ==
  ASSUME NEW e, NEW L, KernelInv(e, L), NEW u \in Thread, u \in L, ~e.timer[u]
  PROVE  /\ KernelInv([e EXCEPT !.stat[u] = "close"], L \ {u})
         /\ [e EXCEPT !.stat[u] = "close"]
              = [e EXCEPT !.stat = [e.stat EXCEPT ![u] = "close"]]
<1>1. PICK c : c = [e EXCEPT !.stat[u] = "close"]
  OBVIOUS
<1>2. KernelType(e) /\ u # Idle
  BY DEF KernelInv
<1>3. c = [e EXCEPT !.stat = [e.stat EXCEPT ![u] = "close"]]
  BY <1>1, <1>2 DEF KernelType
<1>4. /\ c.stat = [e.stat EXCEPT ![u] = "close"] /\ c.prio = e.prio /\ c.ready = e.ready
      /\ c.table = e.table /\ c.group = e.group /\ c.wait = e.wait /\ c.timer = e.timer
      /\ KernelType(c)
  BY <1>2, <1>3 DEF KernelType, Stat
<1>5. e.stat \in [Thread -> Stat]
  BY <1>2 DEF KernelType
<1>6. ReadyListsExact(c, L \ {u})
  BY <1>4, <1>5 DEF KernelInv, ReadyListsExact
<1>7. WaitListsExact(c, L \ {u})
  BY <1>4, <1>5 DEF KernelInv, WaitListsExact
<1>8. BitmapExact(c) /\ TimersExact(c)
  BY <1>4, <1>5 DEF KernelInv, BitmapExact, TimersExact
<1>9. c.stat[Idle] = "ready" /\ Idle \notin L \ {u}
  BY <1>2, <1>4, <1>5, KernelAssumption DEF KernelInv
<1>. QED BY <1>1, <1>3, <1>4, <1>6, <1>7, <1>8, <1>9 DEF KernelInv

\* rt_list_remove of a thread that is neither ready nor on a suspend list, and
\* rt_timer_stop of a timer that does not run, change nothing
LEMMA NothingToUnlink ==
  ASSUME NEW e, NEW L, KernelInv(e, L), NEW u \in Thread, e.stat[u] # "ready",
         \A w \in WaitList : ~Contains(e.wait[w], u)
  PROVE  ListRemove(e, u) = e
<1>1. KernelType(e) /\ e.ready \in [Prio -> Seq(Thread)]
  BY DEF KernelInv, KernelType
<1>2. \A p \in Prio : ~Contains(e.ready[p], u)
  BY DEF KernelInv, ReadyListsExact
<1>3. [p \in Prio |-> RemoveFirst(e.ready[p], u)] = e.ready
  BY <1>1, <1>2, RemoveFirstList
<1>4. [w \in WaitList |-> RemoveFirst(e.wait[w], u)] = e.wait
  BY <1>1, RemoveFromNone
<1>. QED BY <1>1, <1>3, <1>4 DEF ListRemove, KernelType

LEMMA NothingToStop ==
  ASSUME NEW e, KernelType(e), NEW u \in Thread, ~e.timer[u]
  PROVE  StopTimer(e, u) = e
<1>1. [e.timer EXCEPT ![u] = FALSE] = e.timer
  BY Zenon DEF KernelType
<1>2. StopTimer(e, u) = [e EXCEPT !.timer = [e.timer EXCEPT ![u] = FALSE]]
  BY DEF StopTimer, KernelType
<1>. QED BY <1>1, <1>2 DEF KernelType

\* What rt_schedule_remove_thread leaves alone
Unready(e, r, u) ==
  /\ r.stat = e.stat /\ r.prio = e.prio /\ r.timer = e.timer /\ r.cur = e.cur
  /\ r.err = e.err /\ r.lock = e.lock
  /\ r.ready = [p \in Prio |-> RemoveFirst(e.ready[p], u)]
  /\ \A w \in WaitList : \A v : Contains(r.wait[w], v) <=> Contains(e.wait[w], v) /\ v # u

LEMMA RemoveReadyFields ==
  ASSUME NEW e, NEW L, KernelInv(e, L), NEW u \in Thread, u # Idle
  PROVE  Unready(e, RemoveReady(e, u), u)
<1> DEFINE l == ListRemove(e, u)
           r == RemoveReady(e, u)
<1>1. KernelType(l) /\ Removed(e, l, u)
  BY ListRemoveLists
<1>2. l.ready = [p \in Prio |-> RemoveFirst(e.ready[p], u)]
  BY DEF ListRemove, KernelInv, KernelType
<1>3. /\ r.stat = l.stat /\ r.prio = l.prio /\ r.timer = l.timer /\ r.cur = l.cur
      /\ r.err = l.err /\ r.lock = l.lock /\ r.ready = l.ready /\ r.wait = l.wait
  <2> HIDE DEF l
  <2>. QED BY <1>1 DEF RemoveReady, KernelType, l
<1> HIDE DEF l, r
<1>. QED BY <1>1, <1>2, <1>3 DEF Removed, Unready, r

\* Every list that does not begin with u begins as it did
HeadsKept(e, r, u) ==
  \A p \in Prio : e.ready[p] # <<>> /\ Head(e.ready[p]) # u
                    => r.ready[p] # <<>> /\ Head(r.ready[p]) = Head(e.ready[p])

\* Unlinking another element and appending one keep the head of a list
LEMMA HeadStays ==
  ASSUME NEW S, NEW s \in Seq(S), s # <<>>, NEW u
  PROVE  /\ Head(s) # u => RemoveFirst(s, u) # <<>> /\ Head(RemoveFirst(s, u)) = Head(s)
         /\ u \in S => Append(s, u) # <<>> /\ Head(Append(s, u)) = Head(s)
<1>1. Len(s) \in Nat /\ Len(s) # 0 /\ Head(s) = s[1]
  BY HeadTailProperties, EmptySeq, LenProperties
<1>2. ASSUME Head(s) # u PROVE RemoveFirst(s, u) # <<>> /\ Head(RemoveFirst(s, u)) = Head(s)
  <2>1. CASE ~Contains(s, u)
    BY <2>1, RemoveFirstList
  <2>2. CASE Contains(s, u)
    <3> DEFINE r == RemoveFirst(s, u)
    <3> HIDE DEF r
    <3>1. PICK n \in 1..Len(s) :
            /\ s[n] = u
            /\ r \in Seq(S)
            /\ Len(r) = Len(s) - 1
            /\ \A i \in 1..(n - 1) : r[i] = s[i]
            /\ \A i \in n..(Len(s) - 1) : r[i] = s[i + 1]
      BY <2>2, RemoveFirstItems, SMTT(60) DEF r
    <3>2. n # 1 /\ r[1] = s[1] /\ Len(r) # 0
      BY <1>1, <1>2, <3>1
    <3>3. r # <<>>
      BY <3>2, EmptySeq
    <3>4. Head(r) = r[1]
      BY <3>1, <3>3, HeadTailProperties
    <3>. QED BY <1>1, <3>2, <3>3, <3>4 DEF r
  <2>. QED BY <2>1, <2>2
<1>3. ASSUME u \in S PROVE Append(s, u) # <<>> /\ Head(Append(s, u)) = Head(s)
  <2>1. Append(s, u) \in Seq(S) /\ Append(s, u) # <<>>
    BY <1>3, AppendList
  <2>2. Head(Append(s, u)) = Append(s, u)[1] /\ Append(s, u)[1] = s[1]
    BY <1>1, <1>3, <2>1, HeadTailProperties, AppendProperties
  <2>. QED BY <1>1, <2>1, <2>2
<1>. QED BY <1>2, <1>3

LEMMA UnreadyHeads ==
  ASSUME NEW e, KernelType(e), NEW r, NEW u,
         r.ready = [p \in Prio |-> RemoveFirst(e.ready[p], u)]
  PROVE  /\ HeadsKept(e, r, u)
         /\ \A p \in Prio : e.ready[p] = <<>> => r.ready[p] = <<>>
<1>1. ASSUME NEW p \in Prio, e.ready[p] # <<>>, Head(e.ready[p]) # u
      PROVE  r.ready[p] # <<>> /\ Head(r.ready[p]) = Head(e.ready[p])
  <2>1. e.ready[p] \in Seq(Thread) /\ r.ready[p] = RemoveFirst(e.ready[p], u)
    BY DEF KernelType
  <2>. QED BY <1>1, <2>1, HeadStays
<1>2. ASSUME NEW p \in Prio, e.ready[p] = <<>> PROVE r.ready[p] = <<>>
  <2>1. e.ready[p] \in Seq(Thread) /\ r.ready[p] = RemoveFirst(e.ready[p], u)
    BY DEF KernelType
  <2>2. ~Contains(e.ready[p], u)
    BY <1>2, EmptyList
  <2>3. RemoveFirst(e.ready[p], u) = e.ready[p]
    BY <2>1, <2>2, RemoveFirstList
  <2>. QED BY <1>2, <2>1, <2>3
<1>. QED BY <1>1, <1>2 DEF HeadsKept

LEMMA InsertReadyHeads ==
  ASSUME NEW e, KernelType(e), NEW t \in Thread, NEW u
  PROVE  HeadsKept(e, InsertReady(e, t), u)
<1> DEFINE p == e.prio[t]
<1>1. InsertReady(e, t).ready = [e.ready EXCEPT ![p] = Append(e.ready[p], t)]
  BY DEF InsertReady, KernelType
<1>2. e.ready[p] \in Seq(Thread) /\ e.ready \in [Prio -> Seq(Thread)]
  BY DEF KernelType
<1>3. e.ready[p] # <<>> => Append(e.ready[p], t) # <<>>
                             /\ Head(Append(e.ready[p], t)) = Head(e.ready[p])
  BY <1>2, HeadStays
<1> HIDE DEF p
<1>. QED BY <1>1, <1>2, <1>3 DEF HeadsKept

\* rt_thread_resume and rt_thread_timeout move no other thread, nor does rt_thread_suspend
LEMMA WakeHeads ==
  ASSUME NEW e, NEW L, KernelInv(e, L), NEW u \in Thread, u # Idle
  PROVE  HeadsKept(e, Resume(e, u), u) /\ HeadsKept(e, Timeout(e, u), u)
<1>1. KernelType(e)
  BY DEF KernelInv
<1>2. ASSUME NEW x, KernelType(x), x.ready = e.ready
      PROVE  HeadsKept(e, InsertReady(ListRemove(x, u), u), u)
  <2> DEFINE l == ListRemove(x, u)
  <2>1. /\ l.ready = [p \in Prio |-> RemoveFirst(e.ready[p], u)]
        /\ l = [x EXCEPT !.ready = l.ready, !.wait = l.wait]
        /\ l.wait = [w \in WaitList |-> RemoveFirst(x.wait[w], u)]
    BY <1>2 DEF ListRemove, KernelType
  <2>2. \A w \in WaitList : RemoveFirst(x.wait[w], u) \in Seq(Thread)
    BY <1>2, RemoveFirstList DEF KernelType
  <2>3. \A p \in Prio : RemoveFirst(e.ready[p], u) \in Seq(Thread)
    BY <1>1, RemoveFirstList DEF KernelType
  <2> HIDE DEF l
  <2>4. KernelType(l)
    <3>1. l.ready \in [Prio -> Seq(Thread)]
      BY <2>1, <2>3
    <3>2. l.wait \in [WaitList -> Seq(Thread)]
      BY <2>1, <2>2
    <3>3. PICK A \in [Prio -> Seq(Thread)], B \in [WaitList -> Seq(Thread)] :
            l = [x EXCEPT !.ready = A, !.wait = B]
      BY <2>1, <3>1, <3>2
    <3>. QED BY <1>2, <3>3 DEF KernelType
  <2>5. HeadsKept(e, l, u)
    BY <1>1, <2>1, UnreadyHeads
  <2>6. HeadsKept(l, InsertReady(l, u), u)
    BY <2>4, InsertReadyHeads
  <2>. QED BY <2>5, <2>6 DEF HeadsKept, l
<1>3. HeadsKept(e, Resume(e, u), u)
  <2>1. CASE e.stat[u] # "suspend"
    BY <2>1 DEF Resume, HeadsKept
  <2>2. CASE e.stat[u] = "suspend"
    <3> DEFINE y == StopTimer(e, u)
    <3>1. StopTimer(ListRemove(e, u), u) = ListRemove(y, u)
      BY <1>1 DEF StopTimer, ListRemove, KernelType
    <3>2. KernelType(y) /\ y.ready = e.ready
      BY <1>1 DEF StopTimer, KernelType
    <3> HIDE DEF y
    <3>. QED BY <1>2, <2>2, <3>1, <3>2 DEF Resume
  <2>. QED BY <2>1, <2>2
<1>4. HeadsKept(e, Timeout(e, u), u)
  <2> DEFINE y == [StopTimer(e, u) EXCEPT !.err[u] = "ETIMEOUT"]
  <2>1. KernelType(y) /\ y.ready = e.ready
    <3>1. KernelInv(StopTimer(e, u), L)
      BY StopTimerKeeps
    <3>2. KernelInv(y, L)
      BY <3>1, ErrorKeeps DEF Error
    <3>. QED BY <1>1, <3>2 DEF StopTimer, KernelInv, KernelType
  <2>2. Timeout(e, u) = InsertReady(ListRemove(y, u), u)
    BY DEF Timeout
  <2> HIDE DEF y
  <2>. QED BY <1>2, <2>1, <2>2
<1>. QED BY <1>3, <1>4

LEMMA SuspendHeads ==
  ASSUME NEW e, NEW L, KernelInv(e, L), NEW u \in Thread, u # Idle
  PROVE  HeadsKept(e, Suspend(e, u), u)
<1>1. CASE e.stat[u] # "ready"
  BY <1>1 DEF Suspend, HeadsKept
<1>2. CASE e.stat[u] = "ready"
  <2> DEFINE y == [e EXCEPT !.stat[u] = "suspend"]
             r == RemoveReady(y, u)
  <2>1. KernelType(e) /\ y.ready = e.ready
    BY DEF KernelInv, KernelType
  <2>2. r.ready = [p \in Prio |-> RemoveFirst(e.ready[p], u)]
    BY <2>1 DEF RemoveReady, ListRemove, KernelType
  <2>3. Suspend(e, u).ready = r.ready
    BY <1>2, <2>1 DEF Suspend, StopTimer, RemoveReady, ListRemove, KernelType
  <2>. QED BY <2>1, <2>2, <2>3, UnreadyHeads
<1>. QED BY <1>1, <1>2

\* rt_thread_yield moves the running thread only
LEMMA RotateHeads ==
  ASSUME NEW e, KernelType(e)
  PROVE  HeadsKept(e, Rotate(e), e.cur)
<1> DEFINE t == e.cur
           p == e.prio[t]
<1>1. CASE Rotate(e) = e
  BY <1>1 DEF HeadsKept
<1>2. CASE Rotate(e) # e
  <2>1. Rotate(e).ready = [e.ready EXCEPT ![p] = Append(RemoveFirst(e.ready[p], t), t)]
    BY <1>2 DEF Rotate, KernelType
  <2>2. e.ready[p] \in Seq(Thread) /\ e.ready \in [Prio -> Seq(Thread)] /\ t \in Thread
    BY DEF KernelType
  <2>3. RemoveFirst(e.ready[p], t) \in Seq(Thread)
    BY <2>2, RemoveFirstList, SMTT(60)
  <2>4. e.ready[p] # <<>> /\ Head(e.ready[p]) # t
          => /\ Append(RemoveFirst(e.ready[p], t), t) # <<>>
             /\ Head(Append(RemoveFirst(e.ready[p], t), t)) = Head(e.ready[p])
    <3> SUFFICES ASSUME e.ready[p] # <<>>, Head(e.ready[p]) # t
                 PROVE  /\ Append(RemoveFirst(e.ready[p], t), t) # <<>>
                        /\ Head(Append(RemoveFirst(e.ready[p], t), t)) = Head(e.ready[p])
      OBVIOUS
    <3>1. /\ RemoveFirst(e.ready[p], t) # <<>>
          /\ Head(RemoveFirst(e.ready[p], t)) = Head(e.ready[p])
      BY <2>2, HeadStays
    <3>. QED BY <2>2, <2>3, <3>1, HeadStays, SMTT(60)
  <2> HIDE DEF p, t
  <2>. QED BY <2>1, <2>2, <2>4 DEF HeadsKept, t
<1>. QED BY <1>1, <1>2

\* rt_thread_exit and rt_thread_delete put a closed thread at the head of rt_thread_defunct
LEMMA BuryKeeps ==
  ASSUME NEW e, NEW L, KernelInv(e, L), NEW u \in Thread, u \notin L, e.stat[u] = "close",
         ~Contains(e.wait["defunct"], u)
  PROVE  /\ KernelInv(Bury(e, u), L)
         /\ \A v : Contains(Bury(e, u).wait["defunct"], v)
                     <=> Contains(e.wait["defunct"], v) \/ v = u
         /\ \E W : Bury(e, u) = [e EXCEPT !.wait = W]
<1> DEFINE s == e.wait["defunct"]
           d == <<u>> \o s
           c == Bury(e, u)
<1>1. KernelType(e) /\ s \in Seq(Thread) /\ Len(s) \in Nat /\ Distinct(s)
      /\ e.wait \in [{"defunct"} -> Seq(Thread)]
  <2>1. e.wait \in [{"defunct"} -> Seq(Thread)] /\ KernelType(e) /\ Distinct(s)
    BY CallsAssumption DEF KernelInv, KernelType, WaitListsExact
  <2>. QED BY <2>1, LenProperties
<1> HIDE DEF s
<1>2. /\ d \in Seq(Thread) /\ Len(d) = Len(s) + 1 /\ d[1] = u
      /\ \A i \in 2..(Len(s) + 1) : d[i] = s[i - 1]
  <2>1. <<u>> \in Seq(Thread) /\ Len(<<u>>) = 1 /\ <<u>>[1] = u
    OBVIOUS
  <2>. QED BY <1>1, <2>1, ConcatProperties
<1>3. \A v : Contains(d, v) <=> Contains(s, v) \/ v = u
  <2> HIDE DEF d
  <2>1. ASSUME NEW v, Contains(s, v) PROVE Contains(d, v)
    <3>1. PICK i \in 1..Len(s) : s[i] = v
      BY <2>1 DEF Contains
    <3>2. i + 1 \in 2..(Len(s) + 1) /\ (i + 1) - 1 = i
      BY <1>1
    <3>3. d[i + 1] = s[(i + 1) - 1]
      BY <1>2, <3>2
    <3>4. d[i + 1] = v
      BY <3>1, <3>2, <3>3
    <3>5. i + 1 \in 1..Len(d)
      BY <1>1, <1>2
    <3>. QED BY <3>4, <3>5 DEF Contains
  <2>2. ASSUME NEW v, Contains(d, v), v # u PROVE Contains(s, v)
    <3>1. PICK i \in 1..Len(d) : d[i] = v
      BY <2>2 DEF Contains
    <3>2. i \in 2..(Len(s) + 1) /\ i - 1 \in 1..Len(s)
      BY <1>1, <1>2, <2>2, <3>1
    <3>. QED BY <1>2, <3>1, <3>2 DEF Contains
  <2>3. Contains(d, u)
    BY <1>1, <1>2 DEF Contains
  <2>. QED BY <2>1, <2>2, <2>3
<1>4. Distinct(d)
  <2> HIDE DEF d
  <2>1. \A i \in 1..Len(s) : s[i] # u
    BY DEF Contains, s
  <2> SUFFICES ASSUME NEW i \in 1..Len(d), NEW j \in 1..Len(d), d[i] = d[j] PROVE i = j
    BY DEF Distinct
  <2>2. CASE i # 1 /\ j # 1
    <3>1. i - 1 \in 1..Len(s) /\ j - 1 \in 1..Len(s) /\ s[i - 1] = s[j - 1]
      BY <1>1, <1>2, <2>2
    <3>. QED BY <1>1, <3>1 DEF Distinct
  <2>3. CASE i = 1 \/ j = 1
    <3>1. ASSUME NEW n \in 1..Len(d), n # 1 PROVE d[n] # u
      <4>1. n \in 2..(Len(s) + 1) /\ n - 1 \in 1..Len(s)
        BY <1>1, <1>2, <3>1
      <4>. QED BY <1>2, <2>1, <4>1
    <3>. QED BY <1>2, <2>3, <3>1
  <2>. QED BY <2>2, <2>3
<1> HIDE DEF d
<1>5. c = [e EXCEPT !.wait = [e.wait EXCEPT !["defunct"] = d]]
  BY <1>1 DEF Bury, KernelType, d, s
<1>6. /\ c.wait["defunct"] = d /\ c.stat = e.stat /\ c.prio = e.prio /\ c.ready = e.ready
      /\ c.table = e.table /\ c.group = e.group /\ c.timer = e.timer /\ KernelType(c)
  <2>1. [e.wait EXCEPT !["defunct"] = d] \in [{"defunct"} -> Seq(Thread)]
    BY <1>1, <1>2
  <2> HIDE DEF c
  <2>. QED BY <1>1, <1>2, <1>5, <2>1, CallsAssumption DEF KernelType
<1> HIDE DEF c
<1>7. WaitListsExact(c, L)
  BY <1>3, <1>4, <1>6, CallsAssumption DEF KernelInv, WaitListsExact, s
<1>8. KernelInv(c, L)
  BY <1>6, <1>7 DEF KernelInv, ReadyListsExact, BitmapExact, TimersExact
<1>. QED BY <1>3, <1>5, <1>6, <1>8 DEF c, s

-----------------------------------------------------------------------------
(***************************************************************************)
(* The inductive invariant.                                                *)
(***************************************************************************)

\* Steps of a call about another thread with interrupts enabled before them
Resuming == {"unlink", "insert"}
Deleting == {"untimer", "close", "bury"}

TypePart ==
  /\ pc \in [Thread -> PC]
  /\ arg \in [Thread -> Thread]
  /\ isr \in {"none", "schedule"}
  /\ remaining \in [Thread -> 1..InitTick]
  /\ stale \in BOOLEAN
  /\ freed \subseteq Thread

\* The kernel is consistent apart from the threads in limbo, timers run for threads
\* that sleep only, and the defunct list holds closed threads
KernelPart ==
  /\ KernelInv(k, Limbo)
  /\ \A u \in Thread : k.timer[u] => u \in Calls.sleeps
  /\ \A u \in Thread : Contains(k.wait["defunct"], u) => k.stat[u] = "close"

\* The running thread is ready unless it is about to call rt_schedule, which will
\* not be in vain; nobody deletes it
RunningPart ==
  /\ k.cur \notin Limbo
  /\ \/ k.stat[k.cur] = "ready"
     \/ k.lock = 0 /\ pc[k.cur] \in {"schedule", "sleep"}

\* The thread that is being resumed is still suspended
Resumes(t) ==
  pc[t] \in Resuming => /\ <<t, arg[t]>> \in Calls.starts \cup Calls.resumes
                        /\ k.stat[arg[t]] = "suspend"
                        /\ ~k.timer[arg[t]]

\* Thread u has been handed to the idle thread
Buried(u) ==
  \/ Contains(k.wait["defunct"], u)
  \/ u \in freed
  \/ pc[Idle] = "free" /\ arg[Idle] = u

\* The thread that is being deleted is closed in one step and buried in a later one
Deletes(t) ==
  pc[t] \in Deleting => /\ <<t, arg[t]>> \in Calls.deletes
                        /\ k.stat[arg[t]] = "close" <=> pc[t] = "bury"
                        /\ ~Buried(arg[t])

\* Idle has closed threads only, each in one place
FreedPart ==
  /\ \A t \in Thread : pc[t] = "free" => t = Idle
  /\ \A u \in Thread : Buried(u) => k.stat[u] = "close"
  /\ \A u \in freed : ~Contains(k.wait["defunct"], u) /\ k.cur # u
  /\ pc[Idle] = "free" => ~Contains(k.wait["defunct"], arg[Idle])

IInv ==
  /\ TypePart
  /\ KernelPart
  /\ RunningPart
  /\ \A t \in Thread : Resumes(t) /\ Deletes(t)
  /\ FreedPart
  /\ HighestRuns

-----------------------------------------------------------------------------
(***************************************************************************)
(* Callers and the threads their calls are about.                          *)
(***************************************************************************)

Busy == Resuming \cup Deleting

\* The fields of k have their types
LEMMA KernelFields ==
  ASSUME IInv
  PROVE  /\ KernelType(k) /\ KernelInv(k, Limbo)
         /\ k.cur \in Thread /\ k.stat \in [Thread -> Stat] /\ k.err \in [Thread -> Error]
         /\ k.prio \in [Thread -> Prio] /\ k.timer \in [Thread -> BOOLEAN] /\ k.lock \in Nat
         /\ k.ready \in [Prio -> Seq(Thread)]
         /\ k.wait["defunct"] \in Seq(Thread) /\ WaitList = {"defunct"}
         /\ k.stat[Idle] = "ready" /\ Idle \notin Limbo /\ Idle \in Thread
  BY CallsAssumption, KernelAssumption DEF IInv, KernelPart, KernelInv, KernelType

\* A thread has one caller at a time; whoever has begun a call about u is the only
\* one who may
LEMMA OneCaller ==
  ASSUME WellBehaved, IInv, NEW t \in Thread, NEW x \in Thread, NEW u \in Thread,
         \/ <<t, u>> \in Calls.starts \cup Calls.resumes \cup Calls.deletes
         \/ <<t, u>> \in Calls.reprios /\ t # u
         \/ pc[t] \in Busy /\ arg[t] = u,
         pc[x] \in Busy, arg[x] = u
  PROVE  x = t
<1>1. <<x, u>> \in Controls
  BY DEF IInv, Resumes, Deletes, Busy, Controls
<1>2. <<t, u>> \in Controls
  BY DEF IInv, Resumes, Deletes, Busy, Controls
<1>. QED BY <1>1, <1>2 DEF WellBehaved

\* No call is about the idle thread, and it is never handed to itself
LEMMA BusyNotIdle ==
  ASSUME IInv
  PROVE  /\ ~Buried(Idle)
         /\ \A x \in Thread : pc[x] \in Busy => arg[x] # Idle
<1>1. ~Buried(Idle)
  BY KernelFields DEF IInv, FreedPart
<1>2. ASSUME NEW x \in Thread, pc[x] \in Busy, arg[x] = Idle PROVE FALSE
  <2>1. CASE pc[x] \in Resuming
    BY <1>2, <2>1, KernelFields DEF IInv, Resumes
  <2>2. CASE pc[x] \in Deleting
    BY <1>2, <2>2, CallsAssumption DEF IInv, Deletes
  <2>. QED BY <1>2, <2>1, <2>2 DEF Busy
<1>. QED BY <1>1, <1>2

\* Who is in limbo
LEMMA InLimbo ==
  \A u : u \in Limbo <=> \E x \in Thread : pc[x] \in {"untimer", "close"} /\ arg[x] = u
  BY DEF Limbo

\* The running thread, in a call that does not end with rt_schedule, is ready, and
\* no call about it is under way
LEMMA Runs ==
  ASSUME WellBehaved, IInv, NEW t \in Thread, t = k.cur, pc[t] \notin {"schedule", "sleep"}
  PROVE  /\ k.stat[t] = "ready" /\ t \notin Limbo /\ ~k.timer[t]
         /\ ~Buried(t)
         /\ \A x \in Thread : pc[x] \in Busy => arg[x] # t
<1>1. k.stat[t] = "ready" /\ t \notin Limbo
  BY DEF IInv, RunningPart
<1>2. ~k.timer[t]
  BY <1>1, KernelFields DEF KernelInv, TimersExact
<1>3. ~Buried(t)
  BY <1>1 DEF IInv, FreedPart
<1>4. ASSUME NEW x \in Thread, pc[x] \in Busy, arg[x] = t PROVE FALSE
  <2>1. CASE pc[x] \in {"untimer", "close"}
    BY <1>1, <1>4, <2>1, InLimbo
  <2>2. CASE pc[x] = "bury"
    BY <1>1, <1>4, <2>2 DEF IInv, Deletes, Deleting
  <2>3. CASE pc[x] \in Resuming
    BY <1>1, <1>4, <2>3 DEF IInv, Resumes
  <2>. QED BY <1>4, <2>1, <2>2, <2>3 DEF Busy, Deleting
<1>. QED BY <1>1, <1>2, <1>3, <1>4

\* A step that moves only the threads of M, and touches and buries only thread u, keeps
\* what the invariant says of the calls and of idle's work
LEMMA Frame ==
  ASSUME WellBehaved, IInv, TypePart', KernelPart', RunningPart', HighestRuns',
         NEW M \in SUBSET Thread, NEW u \in Thread,
         \A x \in Thread \ M : pc'[x] = pc[x] /\ arg'[x] = arg[x],
         \A x \in M : pc[x] # "free" /\ pc'[x] # "free" /\ Resumes(x)' /\ Deletes(x)',
         \A v \in Thread \ {u} : k'.stat[v] = k.stat[v] /\ (k'.timer[v] => k.timer[v]),
         \A v : Contains(k'.wait["defunct"], v) =>
                 \/ Contains(k.wait["defunct"], v)
                 \/ v = u /\ k'.stat[u] = "close" /\ ~Buried(u),
         freed' = freed,
         k'.cur = k.cur \/ k'.stat[k'.cur] = "ready",
         \A x \in Thread \ M : pc[x] \in Busy => arg[x] # u,
         Buried(u) => k'.stat[u] = k.stat[u]
  PROVE  IInv'
<1>1. pc \in [Thread -> PC] /\ arg \in [Thread -> Thread] /\ freed \subseteq Thread /\ Idle \in Thread
  BY KernelFields DEF IInv, TypePart
<1>2. pc'[Idle] = "free" => pc[Idle] = "free" /\ arg'[Idle] = arg[Idle]
  BY <1>1
<1>3. \A v : Buried(v)' => Buried(v) \/ (v = u /\ k'.stat[u] = "close")
  BY <1>2 DEF Buried
<1>4. \A v \in Thread : Buried(v)' => k'.stat[v] = "close"
  BY <1>3 DEF IInv, FreedPart
<1>5. FreedPart'
  <2>1. \A x \in Thread : pc'[x] = "free" => x = Idle
    BY DEF IInv, FreedPart
  <2>2. \A v \in freed' : ~Contains(k'.wait["defunct"], v) /\ k'.cur # v
    <3> SUFFICES ASSUME NEW v \in freed PROVE ~Contains(k'.wait["defunct"], v) /\ k'.cur # v
      OBVIOUS
    <3>1. ~Contains(k'.wait["defunct"], v) /\ k.cur # v
      BY DEF IInv, FreedPart, Buried
    <3>2. k'.stat[v] = "close"
      BY <1>1, <1>4 DEF Buried
    <3>. QED BY <3>1, <3>2
  <2>3. pc'[Idle] = "free" => ~Contains(k'.wait["defunct"], arg'[Idle])
    BY <1>2 DEF IInv, FreedPart, Buried
  <2>. QED BY <1>4, <2>1, <2>2, <2>3 DEF FreedPart
<1>6. ASSUME NEW x \in Thread PROVE Resumes(x)' /\ Deletes(x)'
  <2>1. CASE x \in M
    BY <2>1
  <2>2. CASE x \notin M
    <3>1. pc'[x] = pc[x] /\ arg'[x] = arg[x] /\ arg[x] \in Thread
          /\ (pc[x] \in Busy => arg[x] # u)
      BY <1>1, <2>2
    <3>2. Resumes(x)'
      BY <3>1 DEF IInv, Resumes, Busy
    <3>3. Deletes(x)'
      BY <1>3, <3>1 DEF IInv, Deletes, Busy
    <3>. QED BY <3>2, <3>3
  <2>. QED BY <2>1, <2>2
<1>. QED BY <1>5, <1>6 DEF IInv

\* ... when thread t executes
LEMMA FrameOne ==
  ASSUME WellBehaved, IInv, TypePart', KernelPart', RunningPart', HighestRuns',
         NEW t \in Thread, NEW u \in Thread,
         \A x \in Thread \ {t} : pc'[x] = pc[x] /\ arg'[x] = arg[x],
         pc[t] # "free", pc'[t] # "free", Resumes(t)', Deletes(t)',
         \A v \in Thread \ {u} : k'.stat[v] = k.stat[v] /\ (k'.timer[v] => k.timer[v]),
         \A v : Contains(k'.wait["defunct"], v) =>
                 \/ Contains(k.wait["defunct"], v)
                 \/ v = u /\ k'.stat[u] = "close" /\ ~Buried(u),
         freed' = freed,
         k'.cur = k.cur \/ k'.stat[k'.cur] = "ready",
         \A x \in Thread \ {t} : pc[x] \in Busy => arg[x] # u,
         Buried(u) => k'.stat[u] = k.stat[u]
  PROVE  IInv'
<1> DEFINE M == {t}
<1>1. /\ M \in SUBSET Thread
      /\ \A x \in Thread \ M : pc'[x] = pc[x] /\ arg'[x] = arg[x]
      /\ \A x \in Thread \ M : pc[x] \in Busy => arg[x] # u
  OBVIOUS
<1>2. \A x \in M : pc[x] # "free" /\ pc'[x] # "free" /\ Resumes(x)' /\ Deletes(x)'
  <2> SUFFICES ASSUME NEW x \in M
               PROVE  pc[x] # "free" /\ pc'[x] # "free" /\ Resumes(x)' /\ Deletes(x)'
    OBVIOUS
  <2>1. x = t
    OBVIOUS
  <2>. QED BY <2>1
<1> HIDE DEF M
<1>. QED BY <1>1, <1>2, Frame

\* ... and when an interrupt does
LEMMA FrameNone ==
  ASSUME WellBehaved, IInv, TypePart', KernelPart', RunningPart', HighestRuns',
         NEW u \in Thread, pc' = pc, arg' = arg,
         \A v \in Thread \ {u} : k'.stat[v] = k.stat[v] /\ (k'.timer[v] => k.timer[v]),
         \A v : Contains(k'.wait["defunct"], v) => Contains(k.wait["defunct"], v),
         freed' = freed,
         k'.cur = k.cur \/ k'.stat[k'.cur] = "ready",
         \A x \in Thread : pc[x] \in Busy => arg[x] # u,
         Buried(u) => k'.stat[u] = k.stat[u]
  PROVE  IInv'
<1> DEFINE M == {}
<1>1. /\ M \in SUBSET Thread
      /\ \A x \in Thread \ M : pc'[x] = pc[x] /\ arg'[x] = arg[x]
      /\ \A x \in Thread \ M : pc[x] \in Busy => arg[x] # u
      /\ \A x \in M : pc[x] # "free" /\ pc'[x] # "free" /\ Resumes(x)' /\ Deletes(x)'
  OBVIOUS
<1> HIDE DEF M
<1>. QED BY <1>1, Frame

\* HighestRuns in a step that leaves the order of the running thread and the lists
LEMMA HighestSame ==
  ASSUME IInv, k'.cur = k.cur, k'.prio[k.cur] = k.prio[k.cur],
         \A p \in Prio : k'.ready[p] = k.ready[p],
         isr' = isr, stale' = stale, k'.lock = 0 => k.lock = 0,
         pc[k.cur] \in {"schedule", "sleep"} => pc'[k.cur] \in {"schedule", "sleep"}
  PROVE  HighestRuns'
<1>1. k.prio[k.cur] \in Prio
  BY KernelFields
<1>. QED BY <1>1 DEF IInv, HighestRuns, RunsHighest

\* The set of threads in limbo, when one thread moves
LEMMA LimboSame ==
  ASSUME NEW t, \A x \in Thread \ {t} : pc'[x] = pc[x] /\ arg'[x] = arg[x],
         \/ pc[t] \notin {"untimer", "close"} /\ pc'[t] \notin {"untimer", "close"}
         \/ /\ pc[t] \in {"untimer", "close"} /\ pc'[t] \in {"untimer", "close"}
            /\ arg'[t] = arg[t]
  PROVE  Limbo' = Limbo
  BY DEF Limbo

-----------------------------------------------------------------------------
(***************************************************************************)
(* One lemma per action: it keeps the invariant, and the processor while   *)
(* the scheduler is locked.                                                *)
(***************************************************************************)

Kept == IInv' /\ (k.lock > 0 => k'.cur = k.cur)

\* Starting a thread
LEMMA StartupKeeps ==
  ASSUME WellBehaved, IInv, NEW t \in Thread, NEW u \in Thread, Startup(t, u)
  PROVE  Kept
<1>1. /\ t = k.cur /\ pc[t] = "run" /\ <<t, u>> \in Calls.starts /\ k.stat[u] = "init"
      /\ k' = [k EXCEPT !.prio[u] = InitPrio[u], !.stat[u] = "suspend"]
      /\ pc' = [pc EXCEPT ![t] = "unlink"] /\ arg' = [arg EXCEPT ![t] = u]
      /\ UNCHANGED <<isr, remaining, stale, freed>>
  BY DEF Startup, At, Goto
<1>2. KernelType(k) /\ KernelInv(k, Limbo) /\ u # Idle
  BY <1>1, KernelFields
<1>3. k.stat[t] = "ready" /\ t \notin Limbo /\ u # t
  BY <1>1, Runs
<1>4. k' = [k EXCEPT !.prio = [k.prio EXCEPT ![u] = InitPrio[u]],
                     !.stat = [k.stat EXCEPT ![u] = "suspend"]]
  BY <1>1, <1>2 DEF KernelType
<1>5. /\ k'.stat = [k.stat EXCEPT ![u] = "suspend"]
      /\ k'.prio = [k.prio EXCEPT ![u] = InitPrio[u]]
      /\ k'.ready = k.ready /\ k'.wait = k.wait /\ k'.table = k.table /\ k'.group = k.group
      /\ k'.timer = k.timer /\ k'.cur = k.cur /\ k'.lock = k.lock
      /\ KernelType(k')
  BY <1>2, <1>4, KernelAssumption, ZenonT(60) DEF KernelType, Stat
<1>6. k.stat \in [Thread -> Stat] /\ k.prio \in [Thread -> Prio] /\ ~k.timer[u]
  BY <1>1, <1>2 DEF KernelType, KernelInv, TimersExact
<1>7. KernelInv(k', Limbo)
  <2>1. ReadyListsExact(k', Limbo)
    BY <1>1, <1>2, <1>5, <1>6 DEF KernelInv, ReadyListsExact
  <2>2. WaitListsExact(k', Limbo)
    BY <1>1, <1>2, <1>5, <1>6 DEF KernelInv, WaitListsExact
  <2>3. BitmapExact(k') /\ TimersExact(k')
    BY <1>1, <1>2, <1>5, <1>6 DEF KernelInv, BitmapExact, TimersExact
  <2>. QED BY <1>2, <1>5, <1>6, <2>1, <2>2, <2>3, KernelAssumption DEF KernelInv
<1>8. TypePart' /\ \A x \in Thread \ {t} : pc'[x] = pc[x] /\ arg'[x] = arg[x]
  BY <1>1 DEF IInv, TypePart, PC
<1>9. pc'[t] = "unlink" /\ arg'[t] = u
  BY <1>1 DEF IInv, TypePart
<1>10. Limbo' = Limbo
  BY <1>1, <1>8, <1>9, LimboSame
<1>11. KernelPart'
  BY <1>1, <1>5, <1>6, <1>7, <1>10 DEF IInv, KernelPart
<1>12. RunningPart'
  BY <1>3, <1>1, <1>5, <1>6, <1>10 DEF RunningPart
<1>13. HighestRuns'
  BY <1>1, <1>3, <1>5, <1>6, <1>9, HighestSame
<1>14. Resumes(t)' /\ Deletes(t)'
  BY <1>1, <1>5, <1>6, <1>9 DEF Resumes, Deletes, Deleting
<1>15. ~Buried(u) /\ \A x \in Thread \ {t} : pc[x] \in Busy => arg[x] # u
  <2>1. ~Buried(u)
    BY <1>1 DEF IInv, FreedPart
  <2>. QED BY <1>1, <2>1, OneCaller
<1>. QED BY <1>1, <1>5, <1>6, <1>8, <1>9, <1>11, <1>12, <1>13, <1>14, <1>15, FrameOne DEF Kept

\* A step that changes nothing in the kernel
LEMMA StillKeeps ==
  ASSUME WellBehaved, IInv, NEW t \in Thread, NEW p \in PC \ {"free"}, NEW u \in Thread,
         k' = k, pc[t] \notin {"schedule", "sleep", "free"},
         pc' = [pc EXCEPT ![t] = p], arg' = [arg EXCEPT ![t] = u],
         UNCHANGED <<isr, remaining, stale, freed>>,
         Resumes(t)', Deletes(t)', Limbo' = Limbo
  PROVE  Kept
<1>1. TypePart' /\ \A x \in Thread \ {t} : pc'[x] = pc[x] /\ arg'[x] = arg[x]
  BY DEF IInv, TypePart, PC
<1>2. pc'[t] = p
  BY DEF IInv, TypePart
<1>3. KernelPart'
  BY DEF IInv, KernelPart
<1>4. RunningPart'
  BY <1>1, KernelFields DEF IInv, RunningPart
<1>5. HighestRuns'
  BY <1>1, KernelFields, HighestSame
<1>6. PICK v \in Thread : ~Buried(v) /\ \A x \in Thread : pc[x] \in Busy => arg[x] # v
  BY KernelFields, BusyNotIdle
<1>. QED BY <1>1, <1>2, <1>3, <1>4, <1>5, <1>6, FrameOne DEF Kept

\* rt_thread_resume finds the thread suspended
LEMMA ResumeCheckKeeps ==
  ASSUME WellBehaved, IInv, NEW t \in Thread, NEW u \in Thread, ResumeCheck(t, u)
  PROVE  Kept
<1>1. /\ t = k.cur /\ pc[t] = "run" /\ <<t, u>> \in Calls.resumes /\ k.stat[u] = "suspend"
      /\ k' = k /\ pc' = [pc EXCEPT ![t] = "unlink"] /\ arg' = [arg EXCEPT ![t] = u]
      /\ UNCHANGED <<isr, remaining, stale, freed>>
  BY DEF ResumeCheck, At, Goto
<1>2. u \notin Calls.sleeps /\ ~k.timer[u]
  <2>1. u \notin Calls.sleeps
    BY <1>1 DEF WellBehaved, Targets
  <2>. QED BY <2>1 DEF IInv, KernelPart
<1>3. pc'[t] = "unlink" /\ arg'[t] = u /\ \A x \in Thread \ {t} : pc'[x] = pc[x] /\ arg'[x] = arg[x]
  BY <1>1 DEF IInv, TypePart
<1>4. Limbo' = Limbo
  BY <1>1, <1>3, LimboSame
<1>5. Resumes(t)' /\ Deletes(t)'
  BY <1>1, <1>2, <1>3 DEF Resumes, Deletes, Deleting
<1>. QED BY <1>1, <1>4, <1>5, StillKeeps DEF PC

\* The thread that is resumed is on no list
LEMMA ResumedFacts ==
  ASSUME WellBehaved, IInv, NEW t \in Thread, pc[t] \in Resuming
  PROVE  /\ arg[t] \in Thread /\ arg[t] \notin Limbo /\ arg[t] # Idle
         /\ k.stat[arg[t]] = "suspend" /\ ~k.timer[arg[t]] /\ ~Buried(arg[t])
         /\ \A x \in Thread \ {t} : pc[x] \in Busy => arg[x] # arg[t]
         /\ ListRemove(k, arg[t]) = k /\ StopTimer(k, arg[t]) = k
<1>1. /\ arg[t] \in Thread /\ arg[t] # Idle /\ k.stat[arg[t]] = "suspend"
      /\ ~k.timer[arg[t]] /\ ~Buried(arg[t])
  BY KernelFields DEF IInv, TypePart, Resumes, FreedPart
<1>2. \A x \in Thread \ {t} : pc[x] \in Busy => arg[x] # arg[t]
  BY <1>1, OneCaller DEF Busy
<1>3. arg[t] \notin Limbo
  BY <1>2, InLimbo DEF Busy, Deleting, Resuming
<1>4. \A w \in WaitList : ~Contains(k.wait[w], arg[t])
  BY <1>1, KernelFields DEF IInv, KernelPart
<1>5. ListRemove(k, arg[t]) = k
  BY <1>1, <1>4, KernelFields, NothingToUnlink
<1>6. StopTimer(k, arg[t]) = k
  BY <1>1, KernelFields, NothingToStop
<1>. QED BY <1>1, <1>2, <1>3, <1>5, <1>6

\* Unlinking it
LEMMA ResumeUnlinkKeeps ==
  ASSUME WellBehaved, IInv, NEW t \in Thread, ResumeUnlink(t)
  PROVE  Kept
<1>1. /\ t = k.cur /\ pc[t] = "unlink" /\ k' = StopTimer(ListRemove(k, arg[t]), arg[t])
      /\ pc' = [pc EXCEPT ![t] = "insert"]
      /\ UNCHANGED <<arg, isr, remaining, stale, freed>>
  BY DEF ResumeUnlink, At, Goto
<1>2. k' = k
  BY <1>1, ResumedFacts DEF Resuming
<1>3. pc'[t] = "insert" /\ \A x \in Thread \ {t} : pc'[x] = pc[x] /\ arg'[x] = arg[x]
  BY <1>1 DEF IInv, TypePart
<1>4. arg' = [arg EXCEPT ![t] = arg[t]] /\ arg[t] \in Thread
  BY <1>1 DEF IInv, TypePart
<1>5. Limbo' = Limbo
  BY <1>1, <1>3, LimboSame
<1>6. Resumes(t)' /\ Deletes(t)'
  BY <1>1, <1>2, <1>3 DEF IInv, Resumes, Deletes, Deleting, Resuming
<1>. QED BY <1>1, <1>2, <1>4, <1>5, <1>6, StillKeeps DEF PC

\* Making it ready
LEMMA ResumeInsertKeeps ==
  ASSUME WellBehaved, IInv, NEW t \in Thread, ResumeInsert(t)
  PROVE  Kept
<1>1. /\ t = k.cur /\ pc[t] = "insert" /\ k' = InsertReady(k, arg[t])
      /\ pc' = [pc EXCEPT ![t] = "schedule"]
      /\ UNCHANGED <<arg, isr, remaining, stale, freed>>
  BY DEF ResumeInsert, At, Goto
<1>2. PICK u \in Thread : u = arg[t]
  BY <1>1, ResumedFacts DEF Resuming
<1>3. /\ u \notin Limbo /\ k.stat[u] = "suspend" /\ ~k.timer[u] /\ ~Buried(u)
      /\ \A x \in Thread \ {t} : pc[x] \in Busy => arg[x] # u
      /\ ListRemove(k, u) = k /\ StopTimer(k, u) = k
  BY <1>1, <1>2, ResumedFacts DEF Resuming
<1>4. k' = Resume(k, u)
  BY <1>1, <1>2, <1>3 DEF Resume
<1>5. KernelInv(k', Limbo) /\ Woken(k, k', u)
  BY <1>3, <1>4, ResumeKeeps, KernelFields
<1>6. /\ k'.stat = [k.stat EXCEPT ![u] = "ready"] /\ k'.timer = [k.timer EXCEPT ![u] = FALSE]
      /\ \A v : Contains(k'.wait["defunct"], v) => Contains(k.wait["defunct"], v)
      /\ k'.cur = k.cur /\ k'.lock = k.lock
  BY <1>5, CallsAssumption DEF Woken
<1>7. /\ TypePart' /\ pc'[t] = "schedule"
      /\ \A x \in Thread \ {t} : pc'[x] = pc[x] /\ arg'[x] = arg[x]
  BY <1>1 DEF IInv, TypePart, PC
<1>8. Limbo' = Limbo
  BY <1>1, <1>7, LimboSame
<1>9. k.stat \in [Thread -> Stat] /\ k.timer \in [Thread -> BOOLEAN]
      /\ k.stat[t] = "ready" /\ t \notin Limbo
  BY <1>1, KernelFields, Runs
<1>10. \A v \in Thread \ {u} : k'.stat[v] = k.stat[v] /\ (k'.timer[v] => k.timer[v])
  BY <1>6, <1>9
<1>11. KernelPart'
  <2>1. \A v \in Thread : k'.timer[v] => v \in Calls.sleeps
    BY <1>6, <1>9 DEF IInv, KernelPart
  <2>2. \A v \in Thread : Contains(k'.wait["defunct"], v) => k'.stat[v] = "close"
    BY <1>3, <1>6, <1>10 DEF IInv, KernelPart
  <2>. QED BY <1>5, <1>8, <2>1, <2>2 DEF KernelPart
<1>12. RunningPart'
  BY <1>1, <1>6, <1>8, <1>9 DEF RunningPart
<1>13. HighestRuns'
  BY <1>1, <1>6, <1>7 DEF HighestRuns
<1>14. Resumes(t)' /\ Deletes(t)'
  BY <1>7 DEF Resumes, Deletes, Resuming, Deleting
<1>15. IInv'
  BY <1>1, <1>3, <1>6, <1>7, <1>10, <1>11, <1>12, <1>13, <1>14, FrameOne
<1>. QED BY <1>6, <1>15 DEF Kept

\* rt_schedule, after a step that leads to kernel state e: it changes which thread runs
LEMMA DispatchFacts ==
  ASSUME NEW e, NEW L, KernelInv(e, L), e.cur \notin L, e.lock # 0 => e.stat[e.cur] = "ready",
         NEW s, s = Schedule(e)
  PROVE  /\ KernelInv(s, L) /\ s.cur \in Thread
         /\ s.stat = e.stat /\ s.timer = e.timer /\ s.wait = e.wait /\ s.prio = e.prio
         /\ s.lock = e.lock /\ s.ready = e.ready
         /\ s.cur \notin L /\ s.stat[s.cur] = "ready"
         /\ e.lock # 0 => s.cur = e.cur
         /\ e.lock = 0 => RunsHighest(s)
<1>1. /\ KernelInv(s, L) /\ s = [e EXCEPT !.cur = s.cur]
      /\ e.lock = 0 => RunsHighest(s) /\ e.stat[s.cur] = "ready"
      /\ e.lock # 0 => s = e
  BY ScheduleKeeps
<1>2. KernelType(e) /\ KernelType(s) /\ s.cur \in Thread
  BY <1>1 DEF KernelInv, KernelType
<1>3. /\ s.stat = e.stat /\ s.timer = e.timer /\ s.wait = e.wait /\ s.prio = e.prio
      /\ s.lock = e.lock /\ s.ready = e.ready
  BY <1>1, <1>2 DEF KernelType
<1>4. e.lock = 0 => s.cur \notin L
  <2> SUFFICES ASSUME e.lock = 0 PROVE s.cur \notin L
    OBVIOUS
  <2> DEFINE p == s.prio[s.cur]
  <2>1. s.ready[p] # <<>> /\ s.cur = Head(s.ready[p])
    BY <1>1 DEF RunsHighest
  <2>2. p \in Prio /\ s.ready[p] \in Seq(Thread)
    BY <1>2 DEF KernelType
  <2>3. Contains(s.ready[p], s.cur)
    BY <2>1, <2>2, HeadList
  <2>. QED BY <1>1, <2>2, <2>3 DEF KernelInv, ReadyListsExact
<1>. QED BY <1>1, <1>2, <1>3, <1>4

\* The parts of the invariant that a step that ends in rt_schedule establishes
LEMMA DispatchParts ==
  ASSUME NEW e, KernelInv(e, Limbo'), e.cur \notin Limbo', e.lock # 0 => e.stat[e.cur] = "ready",
         Dispatch(e), \A v \in Thread : e.timer[v] => v \in Calls.sleeps,
         \A v \in Thread : Contains(e.wait["defunct"], v) => e.stat[v] = "close"
  PROVE  /\ KernelPart' /\ RunningPart' /\ HighestRuns'
         /\ k'.cur \in Thread /\ k'.stat = e.stat /\ k'.timer = e.timer /\ k'.wait = e.wait
         /\ k'.prio = e.prio /\ k'.lock = e.lock /\ k'.ready = e.ready
         /\ k'.stat[k'.cur] = "ready"
         /\ e.lock # 0 => k'.cur = e.cur
<1>1. k' = Schedule(e)
  BY DEF Dispatch
<1>2. PICK L : L = Limbo'
  OBVIOUS
<1>3. KernelInv(e, L) /\ e.cur \notin L
  BY <1>2
<1>4. /\ KernelInv(k', L) /\ k'.cur \in Thread
      /\ k'.stat = e.stat /\ k'.timer = e.timer /\ k'.wait = e.wait /\ k'.prio = e.prio
      /\ k'.lock = e.lock /\ k'.ready = e.ready
      /\ k'.cur \notin L /\ k'.stat[k'.cur] = "ready"
      /\ e.lock # 0 => k'.cur = e.cur
      /\ e.lock = 0 => RunsHighest(k')
  BY <1>1, <1>3, DispatchFacts
<1>5. KernelPart' /\ RunningPart'
  BY <1>2, <1>4 DEF KernelPart, RunningPart
<1>6. HighestRuns'
  BY <1>4 DEF HighestRuns
<1>. QED BY <1>4, <1>5, <1>6

\* rt_schedule
LEMMA CallScheduleKeeps ==
  ASSUME WellBehaved, IInv, NEW t \in Thread, CallSchedule(t)
  PROVE  Kept
<1>1. PICK p \in {"run", "awake"} : pc' = [pc EXCEPT ![t] = p]
  BY DEF CallSchedule, Goto
<1>2. /\ pc[t] \in {"schedule", "sleep"} /\ t = k.cur /\ Dispatch(k)
      /\ UNCHANGED <<arg, isr, remaining, freed>>
  BY DEF CallSchedule, At
<1>3. /\ TypePart' /\ pc'[t] = p
      /\ \A x \in Thread \ {t} : pc'[x] = pc[x] /\ arg'[x] = arg[x]
  BY <1>1, <1>2 DEF IInv, TypePart, PC, Dispatch
<1>4. Limbo' = Limbo
  BY <1>2, <1>3, LimboSame
<1>5. /\ KernelInv(k, Limbo') /\ k.cur \notin Limbo' /\ (k.lock # 0 => k.stat[k.cur] = "ready")
      /\ \A v \in Thread : k.timer[v] => v \in Calls.sleeps
      /\ \A v \in Thread : Contains(k.wait["defunct"], v) => k.stat[v] = "close"
  BY <1>4 DEF IInv, KernelPart, RunningPart
<1>6. /\ KernelPart' /\ RunningPart' /\ HighestRuns'
      /\ k'.stat = k.stat /\ k'.timer = k.timer /\ k'.wait = k.wait
      /\ k'.stat[k'.cur] = "ready" /\ (k.lock # 0 => k'.cur = k.cur)
  BY <1>2, <1>5, DispatchParts
<1>7. Resumes(t)' /\ Deletes(t)'
  BY <1>3 DEF Resumes, Deletes, Resuming, Deleting
<1>8. \A x \in Thread \ {t} : pc[x] \in Busy => arg[x] # Idle
  BY BusyNotIdle
<1>9. IInv'
  BY <1>2, <1>3, <1>6, <1>7, <1>8, KernelFields, FrameOne
<1>. QED BY <1>6, <1>9, KernelFields DEF Kept

\* A thread that suspends itself, with a timeout or without
LEMMA SuspendsKeep ==
  ASSUME WellBehaved, IInv, NEW t \in Thread, SuspendSelf(t) \/ Sleep(t)
  PROVE  Kept
<1>1. PICK p \in {"schedule", "sleep"} : pc' = [pc EXCEPT ![t] = p]
  BY DEF SuspendSelf, Sleep, Goto
<1>2. /\ pc[t] = "run" /\ t = k.cur /\ k.lock = 0 /\ t # Idle
      /\ UNCHANGED <<arg, isr, remaining, stale, freed>>
  BY CallsAssumption DEF SuspendSelf, Sleep, At
<1>3. /\ TypePart' /\ pc'[t] = p
      /\ \A x \in Thread \ {t} : pc'[x] = pc[x] /\ arg'[x] = arg[x]
  BY <1>1, <1>2 DEF IInv, TypePart, PC
<1>4. Limbo' = Limbo
  BY <1>2, <1>3, LimboSame
<1>5. /\ k.stat[t] = "ready" /\ t \in Thread \ Limbo /\ ~Buried(t)
      /\ \A x \in Thread \ {t} : pc[x] \in Busy => arg[x] # t
  BY <1>2, Runs
<1> DEFINE s == Suspend(k, t)
<1>6. KernelInv(s, Limbo) /\ Suspended(k, s, t)
  BY <1>2, <1>5, SuspendKeeps, KernelFields
<1>7. k' = s \/ (k' = StartTimer(s, t) /\ t \in Calls.sleeps)
  BY DEF SuspendSelf, Sleep
<1> HIDE DEF s
<1>8. /\ s.stat = [k.stat EXCEPT ![t] = "suspend"] /\ s.timer = [k.timer EXCEPT ![t] = FALSE]
      /\ s.wait = k.wait /\ s.cur = k.cur /\ s.lock = k.lock
  BY <1>6 DEF Suspended
<1>9. k.stat \in [Thread -> Stat] /\ k.timer \in [Thread -> BOOLEAN]
  BY KernelFields
<1>10. /\ KernelInv(k', Limbo) /\ k'.stat = s.stat /\ k'.wait = k.wait /\ k'.cur = k.cur
       /\ k'.lock = k.lock
       /\ \A v \in Thread \ {t} : k'.timer[v] = k.timer[v]
       /\ k'.timer[t] => t \in Calls.sleeps
  <2>1. CASE k' = s
    BY <1>6, <1>8, <1>9, <2>1
  <2>2. CASE k' = StartTimer(s, t) /\ t \in Calls.sleeps
    <3>1. s.stat[t] = "suspend"
      BY <1>8, <1>9
    <3>2. KernelInv(k', Limbo) /\ k' = [s EXCEPT !.timer = [s.timer EXCEPT ![t] = TRUE]]
      BY <1>6, <2>2, <3>1, StartTimerKeeps
    <3>3. /\ k'.stat = s.stat /\ k'.wait = s.wait /\ k'.cur = s.cur /\ k'.lock = s.lock
          /\ k'.timer = [s.timer EXCEPT ![t] = TRUE]
      BY <1>6, <3>2 DEF KernelInv, KernelType
    <3>. QED BY <1>8, <1>9, <2>2, <3>2, <3>3
  <2>. QED BY <1>7, <2>1, <2>2
<1>11. KernelPart'
  <2>1. \A v \in Thread : k'.timer[v] => v \in Calls.sleeps
    BY <1>10 DEF IInv, KernelPart
  <2>2. \A v \in Thread : Contains(k'.wait["defunct"], v) => k'.stat[v] = "close"
    BY <1>5, <1>8, <1>9, <1>10 DEF IInv, KernelPart, Buried
  <2>. QED BY <1>4, <1>10, <2>1, <2>2 DEF KernelPart
<1>12. RunningPart'
  BY <1>2, <1>3, <1>4, <1>5, <1>10 DEF RunningPart
<1>13. HighestRuns'
  BY <1>2, <1>3, <1>10 DEF HighestRuns
<1>14. Resumes(t)' /\ Deletes(t)'
  BY <1>3 DEF Resumes, Deletes, Resuming, Deleting
<1>15. \A v \in Thread \ {t} : k'.stat[v] = k.stat[v] /\ (k'.timer[v] => k.timer[v])
  BY <1>8, <1>9, <1>10
<1>16. IInv'
  BY <1>2, <1>3, <1>5, <1>10, <1>11, <1>12, <1>13, <1>14, <1>15, FrameOne
<1>. QED BY <1>10, <1>16 DEF Kept

\* A step of the running thread t that changes no thread's state: its place among its
\* equals, its error, the nesting of the scheduler lock, or the priority of a thread
LEMMA PlainKeeps ==
  ASSUME WellBehaved, IInv, NEW t \in Thread, t = k.cur, NEW p \in {"run", "schedule"},
         pc[t] \notin {"schedule", "sleep", "free"} \cup Busy,
         pc' = [pc EXCEPT ![t] = p], KernelInv(k', Limbo),
         k'.stat = k.stat, k'.timer = k.timer, k'.wait = k.wait, k'.cur = k.cur,
         stale' \in BOOLEAN, UNCHANGED <<arg, isr, remaining, freed>>,
         \/ p = "schedule" \/ k'.lock # 0 \/ stale'
         \/ k'.ready = k.ready /\ k'.prio = k.prio /\ k'.lock = k.lock /\ stale' = stale
  PROVE  Kept
<1>1. /\ TypePart' /\ pc'[t] = p
      /\ \A x \in Thread \ {t} : pc'[x] = pc[x] /\ arg'[x] = arg[x]
  BY DEF IInv, TypePart, PC
<1>2. Limbo' = Limbo
  BY <1>1, LimboSame DEF Busy, Deleting
<1>3. /\ k.stat[t] = "ready" /\ t \in Thread \ Limbo /\ ~Buried(t)
      /\ \A x \in Thread \ {t} : pc[x] \in Busy => arg[x] # t
  BY Runs
<1>4. KernelPart'
  BY <1>2 DEF IInv, KernelPart
<1>5. RunningPart'
  BY <1>2, <1>3 DEF RunningPart
<1>6. HighestRuns'
  <2>1. CASE p = "schedule" \/ k'.lock # 0 \/ stale'
    BY <1>1, <2>1 DEF HighestRuns
  <2>2. CASE k'.ready = k.ready /\ k'.prio = k.prio /\ k'.lock = k.lock /\ stale' = stale
    BY <2>2, HighestSame
  <2>. QED BY <2>1, <2>2
<1>7. Resumes(t)' /\ Deletes(t)'
  BY <1>1 DEF Resumes, Deletes, Resuming, Deleting
<1>8. pc[t] # "free" /\ pc'[t] # "free"
  BY <1>1
<1>9. IInv'
  BY <1>1, <1>3, <1>4, <1>5, <1>6, <1>7, <1>8, FrameOne
<1>. QED BY <1>9 DEF Kept

\* Returning from rt_thread_sleep
LEMMA SleepReturnKeeps ==
  ASSUME WellBehaved, IInv, NEW t \in Thread, SleepReturn(t)
  PROVE  Kept
<1>1. /\ pc[t] = "awake" /\ t = k.cur /\ pc' = [pc EXCEPT ![t] = "run"]
      /\ UNCHANGED <<arg, isr, remaining, stale, freed>>
      /\ k' = [k EXCEPT !.err[t] = IF k.err[t] = "ETIMEOUT" THEN "EOK" ELSE k.err[t]]
  BY KernelFields DEF SleepReturn, At, Goto, KernelType
<1>2. PICK e \in Error : k' = [k EXCEPT !.err[t] = e]
  BY <1>1, KernelFields DEF Error
<1>3. KernelInv(k', Limbo) /\ k' = [k EXCEPT !.err = [k.err EXCEPT ![t] = e]]
  BY <1>2, ErrorKeeps, KernelFields
<1>4. /\ k'.stat = k.stat /\ k'.timer = k.timer /\ k'.wait = k.wait /\ k'.cur = k.cur
      /\ k'.ready = k.ready /\ k'.prio = k.prio /\ k'.lock = k.lock
  BY <1>3, KernelFields DEF KernelType
<1>5. pc[t] \notin {"schedule", "sleep", "free"} \cup Busy /\ stale' \in BOOLEAN
  BY <1>1 DEF Busy, Resuming, Deleting, IInv, TypePart
<1>. QED BY <1>1, <1>3, <1>4, <1>5, PlainKeeps

\* rt_thread_yield, rt_enter_critical and rt_exit_critical
LEMMA YieldKeeps ==
  ASSUME WellBehaved, IInv, NEW t \in Thread, Yield(t)
  PROVE  Kept
<1>1. /\ pc[t] = "run" /\ t = k.cur /\ pc' = [pc EXCEPT ![t] = "schedule"]
      /\ UNCHANGED <<arg, isr, remaining, stale, freed>> /\ k' = Rotate(k)
  BY DEF Yield, At, Goto
<1>2. KernelInv(k', Limbo) /\ k' = [k EXCEPT !.ready = k'.ready]
  BY <1>1, RotateKeeps, KernelFields DEF IInv, RunningPart
<1>3. k'.stat = k.stat /\ k'.timer = k.timer /\ k'.wait = k.wait /\ k'.cur = k.cur
  BY <1>2, KernelFields DEF KernelType
<1>4. pc[t] \notin {"schedule", "sleep", "free"} \cup Busy /\ stale' \in BOOLEAN
  BY <1>1 DEF Busy, Resuming, Deleting, IInv, TypePart
<1>. QED BY <1>1, <1>2, <1>3, <1>4, PlainKeeps

LEMMA CriticalKeeps ==
  ASSUME WellBehaved, IInv, NEW t \in Thread,
         EnterCritical(t) \/ ExitCritical(t) \/ ExitUnlocked(t)
  PROVE  Kept
<1>1. PICK p \in {"run", "schedule"}, n \in Nat :
        /\ pc' = [pc EXCEPT ![t] = p] /\ k' = [k EXCEPT !.lock = n] /\ (p = "schedule" \/ n # 0)
  <2>1. CASE EnterCritical(t)
    <3> DEFINE n == k.lock + 1
    <3>1. pc' = [pc EXCEPT ![t] = "run"] /\ k' = [k EXCEPT !.lock = n]
      BY <2>1, KernelFields DEF EnterCritical, At, IInv, TypePart
    <3>2. n \in Nat /\ n # 0
      BY KernelFields
    <3> HIDE DEF n
    <3>. QED BY <3>1, <3>2
  <2>2. CASE ExitCritical(t)
    <3> DEFINE n == k.lock - 1
               p == IF k.lock = 1 THEN "schedule" ELSE "run"
    <3>1. k.lock > 0 /\ k' = [k EXCEPT !.lock = n] /\ pc' = [pc EXCEPT ![t] = p]
      BY <2>2, KernelFields DEF ExitCritical, Goto
    <3>2. n \in Nat /\ p \in {"run", "schedule"} /\ (p = "schedule" \/ n # 0)
      BY <3>1, KernelFields
    <3> HIDE DEF n, p
    <3>. QED BY <3>1, <3>2
  <2>3. CASE ExitUnlocked(t)
    <3>1. pc' = [pc EXCEPT ![t] = "schedule"] /\ k' = k /\ k.lock = 0
      BY <2>3 DEF ExitUnlocked, Goto
    <3>2. k = [k EXCEPT !.lock = 0]
      BY <3>1, KernelFields DEF KernelType
    <3>. QED BY <3>1, <3>2
  <2>. QED BY <2>1, <2>2, <2>3
<1>2. /\ pc[t] = "run" /\ t = k.cur /\ UNCHANGED <<arg, isr, remaining, stale, freed>>
  BY DEF EnterCritical, ExitCritical, ExitUnlocked, At
<1>3. /\ k'.stat = k.stat /\ k'.timer = k.timer /\ k'.wait = k.wait /\ k'.cur = k.cur
      /\ k'.ready = k.ready /\ k'.table = k.table /\ k'.group = k.group /\ k'.prio = k.prio
      /\ k'.lock = n /\ KernelType(k')
  BY <1>1, KernelFields DEF KernelType
<1>4. \A v \in Thread : k'.timer[v] => k'.stat[v] = "suspend"
  BY <1>3, KernelFields DEF KernelInv, TimersExact
<1>5. KernelInv(k', Limbo)
  BY <1>3, <1>4, KernelFields, SameLists
<1>6. pc[t] \notin {"schedule", "sleep", "free"} \cup Busy /\ stale' \in BOOLEAN
  BY <1>2 DEF Busy, Resuming, Deleting, IInv, TypePart
<1>. QED BY <1>1, <1>2, <1>3, <1>5, <1>6, PlainKeeps

\* Changing a priority
LEMMA SetPriorityKeeps ==
  ASSUME WellBehaved, IInv, NEW t \in Thread, NEW u \in Thread, NEW p \in Prio,
         SetPriority(t, u, p)
  PROVE  Kept
<1>1. /\ pc[t] = "run" /\ t = k.cur /\ <<t, u>> \in Calls.reprios
      /\ UNCHANGED <<pc, arg, isr, remaining, freed>> /\ stale' = TRUE
      /\ k' = ChangePriority(k, u, p)
  BY DEF SetPriority, At
<1>2. u # Idle
  BY <1>1, CallsAssumption
<1>3. u \in Thread \ Limbo
  <2>1. CASE u = t
    BY <1>1, <2>1, Runs
  <2>2. CASE u # t
    <3>1. \A x \in Thread : pc[x] \in Busy /\ arg[x] = u => x = t
      BY <1>1, <2>2, OneCaller
    <3>. QED BY <1>1, <3>1, InLimbo DEF Busy, Deleting
  <2>. QED BY <2>1, <2>2
<1>4. KernelInv(k', Limbo) /\ Reprioritised(k, k', u, p)
  BY <1>1, <1>2, <1>3, ChangePriorityKeeps, KernelFields
<1>5. k'.stat = k.stat /\ k'.timer = k.timer /\ k'.wait = k.wait /\ k'.cur = k.cur
  BY <1>4 DEF Reprioritised
<1>6. pc[t] \notin {"schedule", "sleep", "free"} \cup Busy /\ pc' = [pc EXCEPT ![t] = "run"]
  BY <1>1 DEF Busy, Resuming, Deleting, IInv, TypePart
<1>. QED BY <1>1, <1>4, <1>5, <1>6, PlainKeeps

\* Deleting a thread begins with taking it off its list
LEMMA DeleteUnlinkKeeps ==
  ASSUME WellBehaved, IInv, NEW t \in Thread, NEW u \in Thread, DeleteUnlink(t, u)
  PROVE  Kept
<1>1. /\ pc[t] = "run" /\ t = k.cur /\ <<t, u>> \in Calls.deletes /\ k.stat[u] # "close"
      /\ k' = IF k.stat[u] # "init" THEN RemoveReady(k, u) ELSE k
      /\ pc' = [pc EXCEPT ![t] = "untimer"] /\ arg' = [arg EXCEPT ![t] = u]
      /\ UNCHANGED <<isr, remaining, stale, freed>>
  BY DEF DeleteUnlink, At, Goto, Alive
<1>2. u # Idle /\ u # t
  BY <1>1, CallsAssumption
<1>3. /\ ~Buried(u)
      /\ \A x \in Thread \ {t} : pc[x] \in Busy => arg[x] # u
  <2>1. ~Buried(u)
    BY <1>1 DEF IInv, FreedPart
  <2>. QED BY <1>1, <2>1, OneCaller
<1>4. /\ TypePart' /\ pc'[t] = "untimer" /\ arg'[t] = u
      /\ \A x \in Thread \ {t} : pc'[x] = pc[x] /\ arg'[x] = arg[x]
  BY <1>1 DEF IInv, TypePart, PC
<1>5. Limbo' = Limbo \cup {u}
  BY <1>1, <1>4 DEF Limbo
<1>6. k.stat[t] = "ready" /\ t \notin Limbo
  BY <1>1, Runs
<1>7. /\ KernelInv(k', Limbo \cup {u}) /\ k'.stat = k.stat /\ k'.timer = k.timer
      /\ k'.cur = k.cur /\ k'.lock = k.lock /\ k'.prio = k.prio
      /\ \A v : Contains(k'.wait["defunct"], v) => Contains(k.wait["defunct"], v)
      /\ HeadsKept(k, k', u)
      /\ \A p \in Prio : k.ready[p] = <<>> => k'.ready[p] = <<>>
  <2>1. CASE k.stat[u] = "init"
    <3>1. \A w \in WaitList : ~Contains(k.wait[w], u)
      BY <2>1, KernelFields DEF KernelInv, WaitListsExact
    <3>2. KernelInv(k, Limbo \cup {u})
      BY <1>2, <2>1, <3>1, KernelFields, LimboGrows
    <3>. QED BY <1>1, <2>1, <3>2 DEF HeadsKept
  <2>2. CASE k.stat[u] # "init"
    <3>1. k' = RemoveReady(k, u)
      BY <1>1, <2>2
    <3>2. KernelInv(k', Limbo \cup {u}) /\ Unready(k, k', u)
      BY <1>2, <3>1, KernelFields, RemoveReadyKeeps, RemoveReadyFields
    <3>3. k'.ready = [p \in Prio |-> RemoveFirst(k.ready[p], u)]
      BY <3>2 DEF Unready
    <3>4. /\ HeadsKept(k, k', u)
          /\ \A p \in Prio : k.ready[p] = <<>> => k'.ready[p] = <<>>
      <4>1. PICK r : r = k'
        OBVIOUS
      <4>2. KernelType(k) /\ r.ready = [p \in Prio |-> RemoveFirst(k.ready[p], u)]
        BY <3>3, <4>1, KernelFields
      <4>3. /\ HeadsKept(k, r, u)
            /\ \A p \in Prio : k.ready[p] = <<>> => r.ready[p] = <<>>
        BY <4>2, UnreadyHeads
      <4>. QED BY <4>1, <4>3
    <3>. QED BY <3>2, <3>4, KernelFields DEF Unready
  <2>. QED BY <2>1, <2>2
<1>8. KernelPart'
  BY <1>5, <1>7 DEF IInv, KernelPart
<1>9. RunningPart'
  BY <1>1, <1>2, <1>5, <1>6, <1>7, SMTT(60) DEF RunningPart
<1>10. HighestRuns'
  <2> SUFFICES ASSUME isr = "none", k.lock = 0, ~stale PROVE RunsHighest(k')
    BY <1>1, <1>7 DEF HighestRuns
  <2>1. RunsHighest(k)
    BY <1>1 DEF IInv, HighestRuns
  <2>2. k.prio[k.cur] \in Prio
    BY KernelFields
  <2>. QED BY <1>1, <1>2, <1>7, <2>1, <2>2 DEF RunsHighest, HeadsKept
<1>11. ~Buried(u)'
  BY <1>1, <1>3, <1>4, <1>7 DEF Buried, IInv, TypePart
<1>12. Resumes(t)' /\ Deletes(t)'
  BY <1>1, <1>4, <1>7, <1>11 DEF Resumes, Deletes, Resuming, Deleting
<1>13. IInv'
  BY <1>1, <1>3, <1>4, <1>7, <1>8, <1>9, <1>10, <1>12, FrameOne
<1>. QED BY <1>7, <1>13 DEF Kept

\* The thread that is being deleted
LEMMA DeletedFacts ==
  ASSUME WellBehaved, IInv, NEW t \in Thread, pc[t] \in Deleting
  PROVE  /\ arg[t] \in Thread /\ arg[t] # Idle
         /\ <<t, arg[t]>> \in Calls.deletes
         /\ ~k.timer[arg[t]] /\ ~Buried(arg[t])
         /\ (k.stat[arg[t]] = "close" <=> pc[t] = "bury")
         /\ arg[t] \in Limbo <=> pc[t] # "bury"
         /\ \A x \in Thread \ {t} : pc[x] \in Busy => arg[x] # arg[t]
<1>1. /\ arg[t] \in Thread /\ <<t, arg[t]>> \in Calls.deletes /\ ~Buried(arg[t])
      /\ (k.stat[arg[t]] = "close" <=> pc[t] = "bury")
  BY DEF IInv, TypePart, Deletes
<1>2. arg[t] # Idle
  BY <1>1, CallsAssumption
<1>3. ~k.timer[arg[t]]
  BY <1>1 DEF WellBehaved, Targets, IInv, KernelPart
<1>4. \A x \in Thread \ {t} : pc[x] \in Busy => arg[x] # arg[t]
  BY <1>1, OneCaller
<1>5. arg[t] \in Limbo <=> pc[t] # "bury"
  BY <1>4, InLimbo DEF Busy, Deleting
<1>. QED BY <1>1, <1>2, <1>3, <1>4, <1>5

\* Stopping its timer
LEMMA DeleteTimerKeeps ==
  ASSUME WellBehaved, IInv, NEW t \in Thread, DeleteTimer(t)
  PROVE  Kept
<1>1. /\ t = k.cur /\ pc[t] = "untimer" /\ k' = StopTimer(k, arg[t])
      /\ pc' = [pc EXCEPT ![t] = "close"]
      /\ UNCHANGED <<arg, isr, remaining, stale, freed>>
  BY DEF DeleteTimer, At, Goto
<1>2. k' = k
  BY <1>1, DeletedFacts, KernelFields, NothingToStop DEF Deleting
<1>3. pc'[t] = "close" /\ \A x \in Thread \ {t} : pc'[x] = pc[x] /\ arg'[x] = arg[x]
  BY <1>1 DEF IInv, TypePart
<1>4. arg' = [arg EXCEPT ![t] = arg[t]] /\ arg[t] \in Thread
  BY <1>1 DEF IInv, TypePart
<1>5. Limbo' = Limbo
  BY <1>1, <1>3, LimboSame
<1>6. ~Buried(arg[t])'
  BY <1>1, <1>2, <1>3, DeletedFacts, KernelFields, ZenonT(60) DEF Buried, Deleting
<1>7. Resumes(t)' /\ Deletes(t)'
  BY <1>1, <1>2, <1>3, <1>6 DEF IInv, Resumes, Deletes, Deleting, Resuming
<1>. QED BY <1>1, <1>2, <1>4, <1>5, <1>7, StillKeeps DEF PC

\* Closing it
LEMMA DeleteCloseKeeps ==
  ASSUME WellBehaved, IInv, NEW t \in Thread, DeleteClose(t)
  PROVE  Kept
<1>1. PICK p \in {"run", "bury"} : pc' = [pc EXCEPT ![t] = p]
  BY DEF DeleteClose, Goto
<1>2. /\ t = k.cur /\ pc[t] = "close" /\ k' = [k EXCEPT !.stat[arg[t]] = "close"]
      /\ UNCHANGED <<arg, isr, remaining, stale, freed>>
  BY DEF DeleteClose, At
<1>3. PICK u \in Thread : u = arg[t]
  BY <1>2, DeletedFacts DEF Deleting
<1>4. /\ u # Idle /\ <<t, u>> \in Calls.deletes /\ ~k.timer[u] /\ ~Buried(u) /\ u \in Limbo
      /\ \A x \in Thread \ {t} : pc[x] \in Busy => arg[x] # u
  BY <1>2, <1>3, DeletedFacts DEF Deleting
<1>5. /\ TypePart' /\ pc'[t] = p
      /\ \A x \in Thread \ {t} : pc'[x] = pc[x] /\ arg'[x] = arg[x]
  BY <1>1, <1>2 DEF IInv, TypePart, PC
<1>6. Limbo' = Limbo \ {u}
  <2>1. \A x \in Thread \ {t} : pc[x] \in {"untimer", "close"} => arg[x] # u
    BY <1>4 DEF Busy, Deleting
  <2>. QED BY <1>2, <1>3, <1>5, <2>1 DEF Limbo
<1>7. k.stat[t] = "ready" /\ t \notin Limbo
  BY <1>2, Runs
<1>8. KernelInv(k', Limbo') /\ k' = [k EXCEPT !.stat = [k.stat EXCEPT ![u] = "close"]]
  BY <1>2, <1>3, <1>4, <1>6, CloseKeeps, KernelFields
<1>9. /\ k'.stat = [k.stat EXCEPT ![u] = "close"] /\ k'.timer = k.timer /\ k'.wait = k.wait
      /\ k'.cur = k.cur /\ k'.ready = k.ready /\ k'.prio = k.prio /\ k'.lock = k.lock
  BY <1>8, KernelFields DEF KernelType
<1>10. k.stat \in [Thread -> Stat]
  BY KernelFields
<1>11. KernelPart'
  BY <1>8, <1>9, <1>10 DEF IInv, KernelPart
<1>12. RunningPart'
  BY <1>2, <1>4, <1>6, <1>7, <1>9, <1>10 DEF RunningPart
<1>13. HighestRuns'
  BY <1>2, <1>9, HighestSame
<1>14. ~Buried(u)'
  BY <1>2, <1>4, <1>5, <1>9, KernelFields DEF Buried
<1>15. Resumes(t)' /\ Deletes(t)'
  <2>1. arg'[t] = u /\ k'.stat[u] = "close" /\ pc'[t] \in {"run", "bury"}
    BY <1>2, <1>3, <1>5, <1>9, <1>10
  <2>. QED BY <1>4, <1>14, <2>1 DEF Resumes, Deletes, Resuming, Deleting
<1>16. IInv'
  BY <1>2, <1>4, <1>5, <1>9, <1>10, <1>11, <1>12, <1>13, <1>15, FrameOne
<1>. QED BY <1>9, <1>16 DEF Kept

\* Handing it to the idle thread
LEMMA DeleteBuryKeeps ==
  ASSUME WellBehaved, IInv, NEW t \in Thread, DeleteBury(t)
  PROVE  Kept
<1>1. /\ t = k.cur /\ pc[t] = "bury" /\ k' = Bury(k, arg[t])
      /\ pc' = [pc EXCEPT ![t] = "run"]
      /\ UNCHANGED <<arg, isr, remaining, stale, freed>>
  BY DEF DeleteBury, At, Goto
<1>2. PICK u \in Thread : u = arg[t]
  BY <1>1, DeletedFacts DEF Deleting
<1>3. /\ ~Buried(u) /\ u \notin Limbo /\ k.stat[u] = "close"
      /\ \A x \in Thread \ {t} : pc[x] \in Busy => arg[x] # u
  BY <1>1, <1>2, DeletedFacts DEF Deleting
<1>4. ~Contains(k.wait["defunct"], u)
  BY <1>3 DEF Buried
<1>5. /\ KernelInv(k', Limbo)
      /\ \A v : Contains(k'.wait["defunct"], v) <=> Contains(k.wait["defunct"], v) \/ v = u
      /\ \E W : k' = [k EXCEPT !.wait = W]
  BY <1>1, <1>2, <1>3, <1>4, BuryKeeps, KernelFields, ZenonT(60)
<1>6. /\ k'.stat = k.stat /\ k'.timer = k.timer /\ k'.cur = k.cur /\ k'.ready = k.ready
      /\ k'.prio = k.prio /\ k'.lock = k.lock
  BY <1>5, KernelFields DEF KernelType
<1>7. /\ TypePart' /\ pc'[t] = "run"
      /\ \A x \in Thread \ {t} : pc'[x] = pc[x] /\ arg'[x] = arg[x]
  BY <1>1 DEF IInv, TypePart, PC
<1>8. Limbo' = Limbo
  BY <1>1, <1>7, LimboSame
<1>9. KernelPart'
  BY <1>3, <1>5, <1>6, <1>8 DEF IInv, KernelPart
<1>10. RunningPart'
  BY <1>1, <1>6, <1>8, Runs DEF RunningPart
<1>11. HighestRuns'
  BY <1>1, <1>6, HighestSame
<1>12. Resumes(t)' /\ Deletes(t)'
  BY <1>7 DEF Resumes, Deletes, Resuming, Deleting
<1>13. IInv'
  BY <1>1, <1>3, <1>5, <1>6, <1>7, <1>9, <1>10, <1>11, <1>12, FrameOne
<1>. QED BY <1>6, <1>13 DEF Kept

\* Ending
LEMMA ExitKeeps ==
  ASSUME WellBehaved, IInv, NEW t \in Thread, Exit(t)
  PROVE  Kept
<1> DEFINE r == RemoveReady(k, t)
           c == [r EXCEPT !.stat[t] = "close"]
<1>1. /\ t = k.cur /\ pc[t] = "run" /\ k.lock = 0 /\ t # Idle
      /\ pc' = [pc EXCEPT ![t] = "schedule"]
      /\ UNCHANGED <<arg, isr, remaining, stale, freed>>
  BY CallsAssumption DEF Exit, At, Goto
<1>2. k' = StopTimer(c, t) \/ k' = Bury(StopTimer(c, t), t)
  BY DEF Exit
<1>3. /\ k.stat[t] = "ready" /\ t \notin Limbo /\ ~k.timer[t] /\ ~Buried(t)
      /\ \A x \in Thread \ {t} : pc[x] \in Busy => arg[x] # t
  BY <1>1, Runs
<1>4. KernelInv(r, Limbo \cup {t}) /\ Unready(k, r, t)
  BY <1>1, KernelFields, RemoveReadyKeeps, RemoveReadyFields
<1> HIDE DEF r
<1>5. /\ r.stat = k.stat /\ r.timer = k.timer /\ r.cur = k.cur /\ r.lock = k.lock
      /\ \A v : Contains(r.wait["defunct"], v) <=> Contains(k.wait["defunct"], v) /\ v # t
  BY <1>4, KernelFields DEF Unready
<1>6. KernelInv(c, Limbo) /\ c = [r EXCEPT !.stat = [r.stat EXCEPT ![t] = "close"]]
  <2>1. (Limbo \cup {t}) \ {t} = Limbo
    BY <1>3
  <2>2. t \in Limbo \cup {t} /\ ~r.timer[t]
    BY <1>3, <1>5
  <2>. QED BY <1>4, <2>1, <2>2, CloseKeeps
<1>7. /\ c.stat = [k.stat EXCEPT ![t] = "close"] /\ c.timer = k.timer /\ c.cur = k.cur
      /\ c.lock = k.lock /\ c.wait = r.wait
  BY <1>4, <1>5, <1>6 DEF KernelInv, KernelType
<1> HIDE DEF c
<1>8. StopTimer(c, t) = c
  BY <1>3, <1>6, <1>7, NothingToStop DEF KernelInv
<1>9. c.stat[t] = "close" /\ ~Contains(c.wait["defunct"], t) /\ k.stat \in [Thread -> Stat]
  BY <1>5, <1>7, KernelFields
<1>10. /\ KernelInv(k', Limbo) /\ k'.stat = c.stat /\ k'.timer = k.timer /\ k'.cur = k.cur
       /\ k'.lock = k.lock
       /\ \A v : Contains(k'.wait["defunct"], v) => Contains(k.wait["defunct"], v) \/ v = t
  <2>1. CASE k' = c
    BY <1>5, <1>6, <1>7, <2>1
  <2>2. CASE k' = Bury(c, t)
    <3>1. /\ KernelInv(k', Limbo)
          /\ \A v : Contains(k'.wait["defunct"], v) <=> Contains(c.wait["defunct"], v) \/ v = t
          /\ \E W : k' = [c EXCEPT !.wait = W]
      <4>1. t \notin Limbo /\ c.stat[t] = "close" /\ ~Contains(c.wait["defunct"], t)
        BY <1>3, <1>9
      <4>2. /\ KernelInv(Bury(c, t), Limbo)
            /\ \A v : Contains(Bury(c, t).wait["defunct"], v)
                        <=> Contains(c.wait["defunct"], v) \/ v = t
            /\ \E W : Bury(c, t) = [c EXCEPT !.wait = W]
        BY <1>6, <4>1, BuryKeeps, ZenonT(60)
      <4>. QED BY <2>2, <4>2
    <3>2. k'.stat = c.stat /\ k'.timer = c.timer /\ k'.cur = c.cur /\ k'.lock = c.lock
      BY <1>6, <3>1 DEF KernelInv, KernelType
    <3>. QED BY <1>5, <1>7, <3>1, <3>2
  <2>. QED BY <1>2, <1>8, <2>1, <2>2
<1>11. /\ TypePart' /\ pc'[t] = "schedule"
       /\ \A x \in Thread \ {t} : pc'[x] = pc[x] /\ arg'[x] = arg[x]
  BY <1>1 DEF IInv, TypePart, PC
<1>12. Limbo' = Limbo
  BY <1>1, <1>11, LimboSame
<1>13. k'.stat[t] = "close" /\ \A v \in Thread \ {t} : k'.stat[v] = k.stat[v]
  BY <1>7, <1>9, <1>10
<1>14. KernelPart'
  BY <1>10, <1>12, <1>13 DEF IInv, KernelPart
<1>15. RunningPart'
  BY <1>1, <1>3, <1>10, <1>11, <1>12 DEF RunningPart
<1>16. HighestRuns'
  BY <1>1, <1>10, <1>11 DEF HighestRuns
<1>17. Resumes(t)' /\ Deletes(t)'
  BY <1>11 DEF Resumes, Deletes, Resuming, Deleting
<1>18. IInv'
  BY <1>1, <1>3, <1>10, <1>11, <1>13, <1>14, <1>15, <1>16, <1>17, FrameOne
<1>. QED BY <1>10, <1>18 DEF Kept

\* Idle takes a thread off the defunct list
LEMMA ReapKeeps ==
  ASSUME WellBehaved, IInv, Reap
  PROVE  Kept
<1>1. PICK u : u = Head(k.wait["defunct"])
  OBVIOUS
<1> DEFINE e == ListRemove(k, u)
<1>2. /\ Idle = k.cur /\ pc[Idle] = "run" /\ k.wait["defunct"] # <<>>
      /\ Dispatch(e) /\ arg' = [arg EXCEPT ![Idle] = u] /\ pc' = [pc EXCEPT ![Idle] = "free"]
      /\ UNCHANGED <<isr, remaining, freed>>
  BY <1>1 DEF Reap, At, Goto
<1>3. u \in Thread /\ Contains(k.wait["defunct"], u)
  BY <1>1, <1>2, KernelFields, HeadList
<1>4. k.stat[u] = "close" /\ Buried(u) /\ u \notin freed
  BY <1>3 DEF IInv, KernelPart, Buried, FreedPart
<1>5. u # Idle /\ u \notin Limbo
  BY <1>3, <1>4, KernelFields DEF KernelInv, WaitListsExact
<1>6. KernelInv(e, Limbo \cup {u}) /\ Removed(k, e, u)
  <2>1. KernelInv(k, Limbo) /\ u # Idle /\ k.stat[u] # "ready"
    BY <1>4, <1>5, KernelFields
  <2>2. KernelInv(e, Limbo \cup {u})
    BY <1>3, <2>1, ListRemoveKeeps
  <2>3. Removed(k, e, u)
    BY <1>3, <2>1, ListRemoveLists
  <2>. QED BY <2>2, <2>3
<1> HIDE DEF e
<1>7. /\ e.stat = k.stat /\ e.timer = k.timer /\ e.cur = k.cur /\ e.lock = k.lock
      /\ \A v : Contains(e.wait["defunct"], v) <=> Contains(k.wait["defunct"], v) /\ v # u
  BY <1>6, KernelFields DEF Removed
<1>8. KernelInv(e, Limbo)
  BY <1>3, <1>4, <1>5, <1>6, <1>7, LimboShrinks
<1>9. /\ TypePart' /\ pc'[Idle] = "free" /\ arg'[Idle] = u
      /\ \A x \in Thread \ {Idle} : pc'[x] = pc[x] /\ arg'[x] = arg[x]
  BY <1>2, <1>3, KernelFields DEF IInv, TypePart, PC, Dispatch
<1>10. Limbo' = Limbo
  BY <1>2, <1>9, LimboSame
<1>11. /\ KernelPart' /\ RunningPart' /\ HighestRuns'
       /\ k'.stat = k.stat /\ k'.timer = k.timer /\ k'.wait = e.wait
       /\ k'.stat[k'.cur] = "ready" /\ (k.lock # 0 => k'.cur = k.cur)
  <2>1. KernelInv(e, Limbo') /\ e.cur \notin Limbo' /\ (e.lock # 0 => e.stat[e.cur] = "ready")
    BY <1>2, <1>7, <1>8, <1>10, KernelFields
  <2>2. /\ \A v \in Thread : e.timer[v] => v \in Calls.sleeps
        /\ \A v \in Thread : Contains(e.wait["defunct"], v) => e.stat[v] = "close"
    BY <1>7 DEF IInv, KernelPart
  <2>. QED BY <1>2, <1>7, <2>1, <2>2, DispatchParts
<1>12. \A v : Buried(v)' <=> Buried(v)
  BY <1>2, <1>3, <1>7, <1>9, <1>11 DEF Buried
<1>13. FreedPart'
  <2>1. \A v \in Thread : Buried(v)' => k'.stat[v] = "close"
    BY <1>11, <1>12 DEF IInv, FreedPart
  <2>2. \A v \in freed' : ~Contains(k'.wait["defunct"], v) /\ k'.cur # v
    <3> SUFFICES ASSUME NEW v \in freed PROVE ~Contains(k'.wait["defunct"], v) /\ k'.cur # v
      BY <1>2
    <3>1. ~Contains(k.wait["defunct"], v) /\ v \in Thread
      BY DEF IInv, FreedPart, TypePart
    <3>2. k'.stat[v] = "close"
      BY <3>1, <1>2, <2>1 DEF Buried
    <3>. QED BY <3>1, <3>2, <1>7, <1>11
  <2>3. ~Contains(k'.wait["defunct"], arg'[Idle])
    BY <1>7, <1>9, <1>11
  <2>4. \A x \in Thread : pc'[x] = "free" => x = Idle
    BY <1>9 DEF IInv, FreedPart
  <2>. QED BY <2>1, <2>2, <2>3, <2>4 DEF FreedPart
<1>14. ASSUME NEW x \in Thread PROVE Resumes(x)' /\ Deletes(x)'
  <2>1. CASE x = Idle
    BY <1>9, <2>1 DEF Resumes, Deletes, Resuming, Deleting
  <2>2. CASE x # Idle
    <3>1. pc'[x] = pc[x] /\ arg'[x] = arg[x] /\ Resumes(x) /\ Deletes(x)
      BY <1>9, <2>2 DEF IInv
    <3>2. Resumes(x)'
      BY <1>11, <3>1 DEF Resumes
    <3>3. Deletes(x)'
      BY <1>11, <1>12, <3>1 DEF Deletes
    <3>. QED BY <3>2, <3>3
  <2>. QED BY <2>1, <2>2
<1>15. IInv'
  BY <1>9, <1>11, <1>13, <1>14 DEF IInv
<1>. QED BY <1>11, <1>15, KernelFields DEF Kept

\* ... and frees it
LEMMA FreeKeeps ==
  ASSUME WellBehaved, IInv, Free
  PROVE  Kept
<1>1. /\ Idle = k.cur /\ pc[Idle] = "free" /\ freed' = freed \cup {arg[Idle]}
      /\ pc' = [pc EXCEPT ![Idle] = "run"] /\ k' = k /\ UNCHANGED <<arg, isr, remaining, stale>>
  BY DEF Free, At, Goto
<1>2. PICK u \in Thread : u = arg[Idle]
  BY KernelFields DEF IInv, TypePart
<1>3. k.stat[u] = "close" /\ u # Idle /\ ~Contains(k.wait["defunct"], u) /\ Buried(u)
  BY <1>1, <1>2, KernelFields DEF IInv, FreedPart, Buried
<1>4. /\ TypePart' /\ pc'[Idle] = "run"
      /\ \A x \in Thread \ {Idle} : pc'[x] = pc[x] /\ arg'[x] = arg[x]
  BY <1>1, <1>2, KernelFields DEF IInv, TypePart, PC
<1>5. Limbo' = Limbo
  BY <1>1, <1>4, LimboSame
<1>6. KernelPart' /\ RunningPart'
  BY <1>1, <1>5, KernelFields DEF IInv, KernelPart, RunningPart
<1>7. HighestRuns'
  BY <1>1, HighestSame
<1>8. \A v : Buried(v)' <=> Buried(v)
  BY <1>1, <1>2, <1>4 DEF Buried
<1>9. FreedPart'
  <2>1. \A x \in Thread : pc'[x] = "free" => x = Idle
    BY <1>4 DEF IInv, FreedPart
  <2>2. \A v \in Thread : Buried(v)' => k'.stat[v] = "close"
    BY <1>1, <1>8 DEF IInv, FreedPart
  <2>3. \A v \in freed' : ~Contains(k'.wait["defunct"], v) /\ k'.cur # v
    BY <1>1, <1>2, <1>3 DEF IInv, FreedPart
  <2>. QED BY <1>4, <2>1, <2>2, <2>3 DEF FreedPart
<1>10. ASSUME NEW x \in Thread PROVE Resumes(x)' /\ Deletes(x)'
  <2>1. CASE x = Idle
    BY <1>4, <2>1 DEF Resumes, Deletes, Resuming, Deleting
  <2>2. CASE x # Idle
    <3>1. pc'[x] = pc[x] /\ arg'[x] = arg[x] /\ Resumes(x) /\ Deletes(x)
      BY <1>4, <2>2 DEF IInv
    <3>2. Resumes(x)'
      BY <1>1, <3>1 DEF Resumes
    <3>3. Deletes(x)'
      BY <1>1, <1>8, <3>1 DEF Deletes
    <3>. QED BY <3>2, <3>3
  <2>. QED BY <2>1, <2>2
<1>11. IInv'
  BY <1>4, <1>6, <1>7, <1>9, <1>10 DEF IInv
<1>. QED BY <1>1, <1>11 DEF Kept

\* An interrupt handler that calls rt_schedule after it changed thread u, or nothing
LEMMA InterruptKeeps ==
  ASSUME WellBehaved, IInv, NEW e, KernelInv(e, Limbo), Dispatch(e), NEW u \in Thread,
         \A v \in Thread \ {u} : e.stat[v] = k.stat[v] /\ (e.timer[v] => k.timer[v]),
         \/ e.stat[u] = k.stat[u] /\ (e.timer[u] => k.timer[u])
         \/ e.stat[u] = "ready" /\ ~e.timer[u],
         \A v : Contains(e.wait["defunct"], v) => Contains(k.wait["defunct"], v),
         e.cur = k.cur, e.lock = k.lock,
         ~Buried(u), \A x \in Thread : pc[x] \in Busy => arg[x] # u,
         isr' \in {"none", "schedule"}, remaining' \in [Thread -> 1..InitTick],
         UNCHANGED <<pc, arg, freed>>
  PROVE  Kept
<1>1. Limbo' = Limbo
  BY DEF Limbo
<1>2. KernelInv(e, Limbo') /\ e.cur \notin Limbo' /\ (e.lock # 0 => e.stat[e.cur] = "ready")
  BY <1>1, KernelFields DEF IInv, RunningPart
<1>3. \A v \in Thread : e.timer[v] => v \in Calls.sleeps
  BY DEF IInv, KernelPart
<1>4. \A v \in Thread : Contains(e.wait["defunct"], v) => e.stat[v] = "close"
  BY DEF IInv, KernelPart, Buried
<1>5. /\ KernelPart' /\ RunningPart' /\ HighestRuns'
      /\ k'.stat = e.stat /\ k'.timer = e.timer /\ k'.wait = e.wait
      /\ k'.stat[k'.cur] = "ready" /\ (e.lock # 0 => k'.cur = e.cur)
  BY <1>2, <1>3, <1>4, DispatchParts
<1>6. TypePart'
  BY DEF IInv, TypePart, Dispatch
<1>7. \A v \in Thread \ {u} : k'.stat[v] = k.stat[v] /\ (k'.timer[v] => k.timer[v])
  BY <1>5
<1>8. IInv'
  BY <1>5, <1>6, <1>7, FrameNone
<1>. QED BY <1>5, <1>8, KernelFields DEF Kept

\* The tick, which rotates the list of the running thread at the end of its slice
LEMMA TickKeeps ==
  ASSUME WellBehaved, IInv, Tick
  PROVE  Kept
<1>1. remaining' \in [Thread -> 1..InitTick]
  <2>1. remaining \in [Thread -> 1..InitTick] /\ InitTick \in Nat \ {0}
    BY CallsAssumption DEF IInv, TypePart
  <2>2. remaining' = [remaining EXCEPT ![k.cur] = InitTick]
        \/ (remaining[k.cur] # 1 /\ remaining' = [remaining EXCEPT ![k.cur] = remaining[k.cur] - 1])
    BY <2>1, KernelFields DEF Tick
  <2>3. k.cur \in Thread /\ remaining[k.cur] \in 1..InitTick /\ InitTick \in 1..InitTick
    BY <2>1, KernelFields
  <2>4. remaining[k.cur] # 1 => remaining[k.cur] - 1 \in 1..InitTick
    BY <2>1, <2>3
  <2>. QED BY <2>1, <2>2, <2>3, <2>4
<1>2. isr' \in {"none", "schedule"} /\ UNCHANGED <<pc, arg, isr, freed>>
  BY DEF Tick, IInv, TypePart
<1>3. Idle \in Thread /\ ~Buried(Idle) /\ \A x \in Thread : pc[x] \in Busy => arg[x] # Idle
  BY KernelFields, BusyNotIdle
<1>4. CASE Dispatch(Rotate(k))
  <2> DEFINE e == Rotate(k)
  <2>1. KernelInv(e, Limbo) /\ e = [k EXCEPT !.ready = e.ready]
    BY KernelFields, RotateKeeps DEF IInv, RunningPart
  <2>2. Dispatch(e)
    BY <1>4
  <2> HIDE DEF e
  <2>3. /\ e.stat = k.stat /\ e.timer = k.timer /\ e.wait = k.wait /\ e.cur = k.cur
        /\ e.lock = k.lock
    BY <2>1, KernelFields DEF KernelType
  <2>. QED BY <1>1, <1>2, <1>3, <2>1, <2>2, <2>3, InterruptKeeps
<1>5. CASE UNCHANGED <<k, stale>>
  <2>1. Limbo' = Limbo
    BY <1>2 DEF Limbo
  <2>2. TypePart'
    BY <1>1, <1>2, <1>5 DEF IInv, TypePart
  <2>3. KernelPart' /\ RunningPart'
    BY <1>2, <1>5, <2>1 DEF IInv, KernelPart, RunningPart
  <2>4. HighestRuns'
    BY <1>2, <1>5, HighestSame
  <2>5. IInv'
    BY <1>2, <1>3, <1>5, <2>2, <2>3, <2>4, FrameNone
  <2>. QED BY <1>5, <2>5 DEF Kept
<1>. QED BY <1>4, <1>5 DEF Tick

\* A thread timer that is due: nobody else is about to resume or delete that thread
LEMMA ExpireKeeps ==
  ASSUME WellBehaved, IInv, NEW u \in Thread, Expire(u)
  PROVE  Kept
<1>1. k.timer[u] /\ Dispatch(Timeout(k, u)) /\ UNCHANGED <<pc, arg, isr, remaining, freed>>
  BY DEF Expire
<1>2. u \in Calls.sleeps /\ k.stat[u] = "suspend"
  BY <1>1, KernelFields DEF IInv, KernelPart, KernelInv, TimersExact
<1>3. \A x \in Thread : pc[x] \in Busy => arg[x] # u
  <2> SUFFICES ASSUME NEW x \in Thread, pc[x] \in Busy, arg[x] = u PROVE FALSE
    OBVIOUS
  <2>1. CASE pc[x] \in Resuming
    BY <1>1, <2>1 DEF IInv, Resumes
  <2>2. CASE pc[x] \in Deleting
    BY <1>1, <2>2, DeletedFacts
  <2>. QED BY <2>1, <2>2 DEF Busy
<1>4. ~Buried(u)
  BY <1>2 DEF IInv, FreedPart
<1>5. u \in Thread \ Limbo
  BY <1>3, InLimbo DEF Busy, Deleting
<1> DEFINE e == Timeout(k, u)
           c == [k EXCEPT !.err[u] = "ETIMEOUT"]
<1>6. KernelInv(e, Limbo) /\ Woken(c, e, u)
  BY <1>1, <1>5, KernelFields, TimeoutKeeps
<1>7. c.stat = k.stat /\ c.timer = k.timer /\ c.wait = k.wait /\ c.cur = k.cur /\ c.lock = k.lock
  BY KernelFields DEF KernelType
<1>8. Dispatch(e)
  BY <1>1
<1> HIDE DEF e, c
<1>9. /\ e.stat = [k.stat EXCEPT ![u] = "ready"] /\ e.timer = [k.timer EXCEPT ![u] = FALSE]
      /\ \A v : Contains(e.wait["defunct"], v) => Contains(k.wait["defunct"], v)
      /\ e.cur = k.cur /\ e.lock = k.lock
  BY <1>6, <1>7, KernelFields DEF Woken
<1>10. /\ \A v \in Thread \ {u} : e.stat[v] = k.stat[v] /\ (e.timer[v] => k.timer[v])
       /\ e.stat[u] = "ready" /\ ~e.timer[u]
  BY <1>9, KernelFields
<1>11. isr' \in {"none", "schedule"} /\ remaining' \in [Thread -> 1..InitTick]
  BY <1>1 DEF IInv, TypePart
<1>. QED BY <1>1, <1>3, <1>4, <1>6, <1>8, <1>9, <1>10, <1>11, InterruptKeeps

\* A device handler resumes a thread and will call rt_schedule
LEMMA IsrResumeKeeps ==
  ASSUME WellBehaved, IInv, NEW u \in Thread, IsrResume(u)
  PROVE  Kept
<1>1. /\ u \in Calls.isrResumes /\ k.stat[u] = "suspend" /\ k' = Resume(k, u)
      /\ isr' = "schedule" /\ UNCHANGED <<pc, arg, remaining, stale, freed>>
  BY DEF IsrResume
<1>2. \A x \in Thread : pc[x] \in Busy => arg[x] # u
  <2> SUFFICES ASSUME NEW x \in Thread, pc[x] \in Busy, arg[x] = u PROVE FALSE
    OBVIOUS
  <2>1. <<x, u>> \in Calls.starts \cup Calls.resumes \cup Calls.deletes
    BY DEF IInv, Resumes, Deletes, Busy
  <2>2. u \in Targets(Calls.starts \cup Calls.resumes \cup Calls.deletes)
    <3>1. PICK c \in Calls.starts \cup Calls.resumes \cup Calls.deletes : c = <<x, u>>
      BY <2>1
    <3>. QED BY <3>1 DEF Targets
  <2>. QED BY <1>1, <2>2 DEF WellBehaved
<1>3. ~Buried(u) /\ u \in Thread \ Limbo
  BY <1>1, <1>2, InLimbo DEF IInv, FreedPart, Busy, Deleting
<1>4. KernelInv(k', Limbo) /\ Woken(k, k', u)
  BY <1>1, <1>3, KernelFields, ResumeKeeps
<1>5. /\ k'.stat = [k.stat EXCEPT ![u] = "ready"] /\ k'.timer = [k.timer EXCEPT ![u] = FALSE]
      /\ \A v : Contains(k'.wait["defunct"], v) => Contains(k.wait["defunct"], v)
      /\ k'.cur = k.cur /\ k'.lock = k.lock
  BY <1>4, KernelFields DEF Woken
<1>6. k.stat \in [Thread -> Stat] /\ k.timer \in [Thread -> BOOLEAN]
  BY KernelFields
<1>7. \A v \in Thread \ {u} : k'.stat[v] = k.stat[v] /\ (k'.timer[v] => k.timer[v])
  BY <1>5, <1>6
<1>8. Limbo' = Limbo
  BY <1>1 DEF Limbo
<1>9. TypePart'
  BY <1>1 DEF IInv, TypePart
<1>10. KernelPart'
  <2>1. \A v \in Thread : k'.timer[v] => v \in Calls.sleeps
    BY <1>5, <1>6 DEF IInv, KernelPart
  <2>2. \A v \in Thread : Contains(k'.wait["defunct"], v) => k'.stat[v] = "close"
    BY <1>3, <1>5, <1>7 DEF IInv, KernelPart, Buried
  <2>. QED BY <1>4, <1>8, <2>1, <2>2 DEF KernelPart
<1>11. RunningPart'
  BY <1>1, <1>5, <1>6, <1>8, KernelFields DEF IInv, RunningPart
<1>12. HighestRuns'
  BY <1>1 DEF HighestRuns
<1>13. IInv'
  BY <1>1, <1>2, <1>3, <1>5, <1>7, <1>9, <1>10, <1>11, <1>12, FrameNone
<1>. QED BY <1>5, <1>13 DEF Kept

LEMMA IsrScheduleKeeps ==
  ASSUME WellBehaved, IInv, IsrSchedule
  PROVE  Kept
<1>1. Dispatch(k) /\ isr' = "none" /\ UNCHANGED <<pc, arg, remaining, freed>>
  BY DEF IsrSchedule
<1>2. remaining' \in [Thread -> 1..InitTick]
  BY <1>1 DEF IInv, TypePart
<1>. QED BY <1>1, <1>2, KernelFields, BusyNotIdle, InterruptKeeps

-----------------------------------------------------------------------------
(***************************************************************************)
(* The theorems.                                                           *)
(***************************************************************************)

\* The invariant holds when rt_system_scheduler_start runs
LEMMA InitInv == Init => IInv
<1> SUFFICES ASSUME Init PROVE IInv
  OBVIOUS
<1>1. /\ k = BootKernel /\ pc = [t \in Thread |-> "run"] /\ arg = [t \in Thread |-> t]
      /\ isr = "none" /\ remaining = [t \in Thread |-> InitTick] /\ stale = FALSE /\ freed = {}
  BY DEF Init
<1>2. Limbo = {}
  BY <1>1 DEF Limbo
<1>3. /\ KernelInv(k, {}) /\ k.lock = 0 /\ k.stat[k.cur] = "ready"
      /\ k.timer = [t \in Thread |-> FALSE] /\ k.wait["defunct"] = <<>>
  BY <1>1, BootKeeps, CallsAssumption
<1>4. TypePart
  <2>1. InitTick \in 1..InitTick
    BY CallsAssumption
  <2>. QED BY <1>1, <2>1 DEF TypePart, PC
<1>5. \A v : ~Buried(v)
  BY <1>1, <1>3, EmptyList, KernelAssumption DEF Buried
<1>6. KernelPart /\ RunningPart
  BY <1>2, <1>3, EmptyList DEF KernelPart, RunningPart
<1>7. \A t \in Thread : Resumes(t) /\ Deletes(t)
  BY <1>1 DEF Resumes, Deletes, Resuming, Deleting
<1>8. FreedPart
  BY <1>1, <1>5, KernelAssumption DEF FreedPart
<1>9. HighestRuns
  BY <1>1, BootKeeps DEF HighestRuns
<1>. QED BY <1>4, <1>6, <1>7, <1>8, <1>9 DEF IInv

\* Every step keeps it
LEMMA StepKeeps == WellBehaved /\ IInv /\ [Next]_vars => IInv' /\ (k.lock > 0 => k'.cur = k.cur)
<1> SUFFICES ASSUME WellBehaved, IInv, [Next]_vars PROVE Kept
  BY DEF Kept
<1>1. ASSUME NEW t \in Thread, NEW u \in Thread,
             \/ Startup(t, u) \/ ResumeCheck(t, u) \/ DeleteUnlink(t, u)
             \/ \E p \in Prio : SetPriority(t, u, p)
      PROVE  Kept
  BY <1>1, StartupKeeps, ResumeCheckKeeps, DeleteUnlinkKeeps, SetPriorityKeeps
<1>2. ASSUME NEW t \in Thread,
             \/ SuspendSelf(t) \/ Sleep(t) \/ Yield(t) \/ Exit(t)
             \/ EnterCritical(t) \/ ExitCritical(t) \/ ExitUnlocked(t)
      PROVE  Kept
  BY <1>2, SuspendsKeep, YieldKeeps, ExitKeeps, CriticalKeeps
<1>3. ASSUME NEW t \in Thread,
             \/ ResumeUnlink(t) \/ ResumeInsert(t) \/ CallSchedule(t) \/ SleepReturn(t)
             \/ DeleteTimer(t) \/ DeleteClose(t) \/ DeleteBury(t)
      PROVE  Kept
  BY <1>3, ResumeUnlinkKeeps, ResumeInsertKeeps, CallScheduleKeeps, SleepReturnKeeps,
     DeleteTimerKeeps, DeleteCloseKeeps, DeleteBuryKeeps
<1>4. CASE Reap \/ Free \/ Tick \/ IsrSchedule
  BY <1>4, ReapKeeps, FreeKeeps, TickKeeps, IsrScheduleKeeps
<1>5. ASSUME NEW u \in Thread, Expire(u) \/ IsrResume(u) PROVE Kept
  BY <1>5, ExpireKeeps, IsrResumeKeeps
<1>6. CASE UNCHANGED vars
  BY <1>6 DEF vars, Kept, IInv, TypePart, KernelPart, RunningPart, FreedPart, HighestRuns,
              Resumes, Deletes, Buried, Limbo
<1>. QED BY <1>1, <1>2, <1>3, <1>4, <1>5, <1>6 DEF Next, Call, Continue, IdleLoop

\* The invariant, for every use of the thread calls that WellBehaved admits
THEOREM Consistent ==
  ASSUME WellBehaved
  PROVE  Spec => []IInv
<1>1. IInv /\ [Next]_vars => IInv'
  BY StepKeeps
<1>. QED BY <1>1, InitInv, PTL DEF Spec

\* Type correctness of the thread calls, the kernel lists, the bitmap and the timers
THEOREM TypeCorrect ==
  ASSUME WellBehaved
  PROVE  Spec => []TypeOK
<1>1. IInv => TypeOK
  BY KernelFields DEF IInv, TypePart, TypeOK
<1>. QED BY <1>1, Consistent, PTL

\* Every ready thread is queued once, at its own priority; a thread that is suspended,
\* ended or being deleted is on no ready list
THEOREM QueuedOnce ==
  ASSUME WellBehaved
  PROVE  Spec => []ThreadsQueuedOnce
<1>1. IInv => ThreadsQueuedOnce
  BY DEF IInv, KernelPart, KernelInv, ThreadsQueuedOnce
<1>. QED BY <1>1, Consistent, PTL

\* The two words of the bitmap never name an empty list and never miss a ready thread
THEOREM BitmapRight ==
  ASSUME WellBehaved
  PROVE  Spec => []BitmapAgrees
<1>1. IInv => BitmapAgrees
  BY DEF IInv, KernelPart, KernelInv, BitmapAgrees
<1>. QED BY <1>1, Consistent, PTL

\* rt_thread_timeout finds its thread suspended
THEOREM TimersRight ==
  ASSUME WellBehaved
  PROVE  Spec => []TimerOnlyWhileSuspended
<1>1. IInv => TimerOnlyWhileSuspended
  BY DEF IInv, KernelPart, KernelInv, TimerOnlyWhileSuspended
<1>. QED BY <1>1, Consistent, PTL

\* The most urgent ready thread has the processor, whenever no rt_schedule is owed
THEOREM MostUrgentRuns ==
  ASSUME WellBehaved
  PROVE  Spec => []HighestRuns
<1>1. IInv => HighestRuns
  BY DEF IInv
<1>. QED BY <1>1, Consistent, PTL

\* Nothing can run or wake a thread that idle has freed
THEOREM FreedThreadsAreGone ==
  ASSUME WellBehaved
  PROVE  Spec => []FreedIsGone
<1>1. ASSUME IInv, NEW u \in freed
      PROVE  /\ k.cur # u /\ ~k.timer[u] /\ k.stat[u] = "close"
             /\ \A p \in Prio : ~Contains(k.ready[p], u)
             /\ ~Contains(k.wait["defunct"], u)
  <2>1. u \in Thread /\ k.stat[u] = "close" /\ k.cur # u /\ ~Contains(k.wait["defunct"], u)
    BY <1>1 DEF IInv, TypePart, FreedPart, Buried
  <2>2. ~k.timer[u]
    BY <1>1, <2>1, KernelFields DEF KernelInv, TimersExact
  <2>3. \A p \in Prio : ~Contains(k.ready[p], u)
    BY <1>1, <2>1, KernelFields DEF KernelInv, ReadyListsExact
  <2>. QED BY <2>1, <2>2, <2>3
<1>2. IInv => FreedIsGone
  BY <1>1 DEF FreedIsGone
<1>. QED BY <1>2, Consistent, PTL

\* While the scheduler is locked, no step takes the processor from the running thread
THEOREM LockKeepsProcessor ==
  ASSUME WellBehaved
  PROVE  Spec => CriticalKeepsProcessor
<1>1. IInv /\ [Next]_vars => [k.lock > 0 => k'.cur = k.cur]_vars
  BY StepKeeps
<1>. QED BY <1>1, Consistent, PTL DEF Spec, CriticalKeepsProcessor

-----------------------------------------------------------------------------
(***************************************************************************)
(* Whose turn it is.                                                       *)
(***************************************************************************)

\* Steps that leave the ready lists, or move nobody but u, who gives its turn away
LEMMA SameTurn ==
  ASSUME IInv, NEW t \in Thread, k'.ready = k.ready
  PROVE  KeepsTurn(t)
  BY DEF KeepsTurn

LEMMA OthersTurn ==
  ASSUME IInv, NEW t \in Thread, NEW u, NEW e, HeadsKept(k, e, u), k'.ready = e.ready,
         u = t => \/ k.stat[t] # "ready" \/ k'.stat[t] # "ready" \/ t \in Limbo'
                  \/ k.cur = t /\ (remaining[t] = 1 \/ pc'[t] = "schedule")
  PROVE  KeepsTurn(t)
<1>1. k.prio[t] \in Prio
  BY KernelFields
<1>. QED BY <1>1 DEF KeepsTurn, HeadsKept

\* rt_schedule moves nobody
LEMMA DispatchReady ==
  ASSUME NEW e, NEW L, KernelInv(e, L), Dispatch(e)
  PROVE  k'.ready = e.ready /\ k'.stat = e.stat
<1>1. k' = [e EXCEPT !.cur = k'.cur]
  BY ScheduleKeeps DEF Dispatch
<1>. QED BY <1>1 DEF KernelInv, KernelType

\* Calls that leave the ready lists
LEMMA QuietTurn ==
  ASSUME WellBehaved, IInv, NEW t \in Thread, NEW x \in Thread,
         \/ (\E u \in Thread : Startup(x, u) \/ ResumeCheck(x, u))
         \/ ResumeUnlink(x) \/ CallSchedule(x) \/ SleepReturn(x)
         \/ DeleteTimer(x) \/ DeleteClose(x) \/ DeleteBury(x)
         \/ EnterCritical(x) \/ ExitCritical(x) \/ ExitUnlocked(x) \/ Free \/ IsrSchedule
  PROVE  KeepsTurn(t)
<1>1. KernelType(k) /\ KernelInv(k, Limbo)
  BY KernelFields
<1>2. CASE (\E u \in Thread : Startup(x, u)) \/ SleepReturn(x) \/ DeleteTimer(x)
           \/ DeleteClose(x) \/ DeleteBury(x) \/ EnterCritical(x) \/ ExitCritical(x)
           \/ ExitUnlocked(x)
  <2>1. k'.ready = k.ready
    BY <1>1, <1>2 DEF Startup, SleepReturn, DeleteTimer, StopTimer, DeleteClose, DeleteBury,
                      Bury, EnterCritical, ExitCritical, ExitUnlocked, KernelType
  <2>. QED BY <2>1, SameTurn
<1>3. CASE (\E u \in Thread : ResumeCheck(x, u)) \/ ResumeUnlink(x) \/ Free
  <2>1. k' = k
    BY <1>3, ResumedFacts DEF ResumeCheck, ResumeUnlink, Free, At, Resuming
  <2>. QED BY <2>1, SameTurn
<1>4. CASE CallSchedule(x) \/ IsrSchedule
  <2>1. k'.ready = k.ready
    BY <1>1, <1>4, DispatchReady DEF CallSchedule, IsrSchedule
  <2>. QED BY <2>1, SameTurn
<1>. QED BY <1>2, <1>3, <1>4

\* Calls of the running thread x that move x itself
LEMMA OwnTurn ==
  ASSUME WellBehaved, IInv, NEW t \in Thread, NEW x \in Thread,
         SuspendSelf(x) \/ Sleep(x) \/ Yield(x) \/ Exit(x)
  PROVE  KeepsTurn(t)
<1>1. KernelType(k) /\ KernelInv(k, Limbo) /\ x = k.cur /\ pc \in [Thread -> PC]
  BY KernelFields DEF IInv, TypePart, SuspendSelf, Sleep, Yield, Exit, At
<1>2. CASE SuspendSelf(x) \/ Sleep(x)
  <2>1. /\ x # Idle /\ k.stat[x] = "ready" /\ x \in Thread \ Limbo
        /\ (k' = Suspend(k, x) \/ k' = StartTimer(Suspend(k, x), x))
    BY <1>1, <1>2, Runs, CallsAssumption DEF SuspendSelf, Sleep, At
  <2> DEFINE s == Suspend(k, x)
  <2>2. HeadsKept(k, s, x) /\ KernelInv(s, Limbo) /\ Suspended(k, s, x)
    BY <1>1, <2>1, SuspendHeads, SuspendKeeps
  <2>3. k' = s \/ k' = StartTimer(s, x)
    BY <2>1
  <2> HIDE DEF s
  <2>4. k'.ready = s.ready /\ k'.stat = s.stat
    BY <2>2, <2>3 DEF StartTimer, KernelInv, KernelType
  <2>5. k'.stat[x] # "ready"
    BY <2>2, <2>4, KernelFields DEF Suspended
  <2>. QED BY <2>2, <2>4, <2>5, OthersTurn
<1>3. CASE Yield(x)
  <2>1. k' = Rotate(k) /\ pc'[x] = "schedule" /\ HeadsKept(k, Rotate(k), x)
    BY <1>1, <1>3, RotateHeads DEF Yield, Goto
  <2>. QED BY <1>1, <2>1, OthersTurn
<1>4. CASE Exit(x)
  <2> DEFINE r == RemoveReady(k, x)
  <2>1. /\ k' = StopTimer([r EXCEPT !.stat[x] = "close"], x)
           \/ k' = Bury(StopTimer([r EXCEPT !.stat[x] = "close"], x), x)
        /\ x # Idle
    BY <1>4, CallsAssumption DEF Exit
  <2>2. KernelInv(r, Limbo \cup {x}) /\ r.ready = [p \in Prio |-> RemoveFirst(k.ready[p], x)]
    BY <1>1, <2>1, RemoveReadyKeeps, RemoveReadyFields DEF Unready
  <2>3. HeadsKept(k, r, x)
    BY <1>1, <2>2, UnreadyHeads
  <2> HIDE DEF r
  <2>4. k'.ready = r.ready /\ k'.stat[x] = "close"
    <3> DEFINE c == [r EXCEPT !.stat = [r.stat EXCEPT ![x] = "close"]]
    <3>1. [r EXCEPT !.stat[x] = "close"] = c /\ KernelType(r)
      BY <2>2 DEF KernelInv, KernelType
    <3>2. k' = StopTimer(c, x) \/ k' = Bury(StopTimer(c, x), x)
      BY <2>1, <3>1
    <3>3. c.ready = r.ready /\ c.stat[x] = "close"
      BY <3>1 DEF KernelType
    <3>4. \E T : StopTimer(c, x) = [c EXCEPT !.timer = T]
      BY <3>1 DEF StopTimer, KernelType
    <3>5. PICK T : StopTimer(c, x) = [r EXCEPT !.stat = [r.stat EXCEPT ![x] = "close"], !.timer = T]
      BY <3>1, <3>4 DEF KernelType
    <3>6. StopTimer(c, x).ready = c.ready /\ StopTimer(c, x).stat = c.stat
      BY <3>1, <3>5 DEF KernelType
    <3>7. \E W : Bury(StopTimer(c, x), x) = [StopTimer(c, x) EXCEPT !.wait = W]
      BY <3>1, <3>5 DEF Bury, KernelType
    <3>8. Bury(StopTimer(c, x), x).ready = c.ready /\ Bury(StopTimer(c, x), x).stat = c.stat
      BY <3>1, <3>5, <3>7, ZenonT(60) DEF KernelType
    <3> HIDE DEF c
    <3>. QED BY <3>2, <3>3, <3>6, <3>8
  <2>. QED BY <2>3, <2>4, OthersTurn
<1>. QED BY <1>2, <1>3, <1>4

\* Calls and interrupts that move another thread
LEMMA OtherTurn ==
  ASSUME WellBehaved, IInv, NEW t \in Thread, NEW x \in Thread, NEW u \in Thread,
         \/ ResumeInsert(x) \/ DeleteUnlink(x, u) \/ (\E p \in Prio : SetPriority(x, u, p))
         \/ Reap \/ Tick \/ Expire(u) \/ IsrResume(u)
  PROVE  KeepsTurn(t)
<1>1. KernelType(k) /\ KernelInv(k, Limbo)
  BY KernelFields
<1>2. CASE ResumeInsert(x)
  <2>1. k' = InsertReady(k, arg[x]) /\ arg[x] \in Thread /\ k.stat[arg[x]] = "suspend"
    BY <1>2, ResumedFacts DEF ResumeInsert, At, Resuming
  <2>2. HeadsKept(k, InsertReady(k, arg[x]), arg[x])
    BY <1>1, <2>1, InsertReadyHeads
  <2>. QED BY <2>1, <2>2, OthersTurn
<1>3. CASE DeleteUnlink(x, u)
  <2>1. /\ k' = IF k.stat[u] # "init" THEN RemoveReady(k, u) ELSE k
        /\ u # Idle /\ u \in Limbo'
    BY <1>3, CallsAssumption DEF DeleteUnlink, Goto, Limbo, IInv, TypePart
  <2>2. RemoveReady(k, u).ready = [p \in Prio |-> RemoveFirst(k.ready[p], u)]
    BY <1>1, <2>1, RemoveReadyFields DEF Unready
  <2>3. HeadsKept(k, RemoveReady(k, u), u)
    BY <1>1, <2>2, UnreadyHeads
  <2>4. CASE k' = k
    BY <2>4, SameTurn
  <2>5. CASE k' = RemoveReady(k, u)
    BY <2>1, <2>3, <2>5, OthersTurn
  <2>. QED BY <2>1, <2>4, <2>5
<1>4. CASE \E p \in Prio : SetPriority(x, u, p)
  BY <1>4 DEF SetPriority, KeepsTurn
<1>5. CASE Reap
  <2>1. PICK v : v = Head(k.wait["defunct"])
    OBVIOUS
  <2>2. Dispatch(ListRemove(k, v)) /\ v \in Thread /\ k.stat[v] = "close" /\ v # Idle
    <3>1. Dispatch(ListRemove(k, v)) /\ k.wait["defunct"] # <<>>
      BY <1>5, <2>1 DEF Reap
    <3>2. v \in Thread /\ Contains(k.wait["defunct"], v)
      BY <2>1, <3>1, KernelFields, HeadList
    <3>. QED BY <3>1, <3>2, KernelFields DEF IInv, KernelPart
  <2> DEFINE e == ListRemove(k, v)
  <2>3. KernelInv(e, Limbo \cup {v})
    BY <1>1, <2>2, ListRemoveKeeps
  <2>4. e.ready = [p \in Prio |-> RemoveFirst(k.ready[p], v)]
    BY <1>1 DEF ListRemove, KernelType
  <2>5. HeadsKept(k, e, v)
    BY <1>1, <2>4, UnreadyHeads
  <2>6. k'.ready = e.ready
    BY <2>2, <2>3, DispatchReady
  <2> HIDE DEF e
  <2>. QED BY <2>2, <2>5, <2>6, OthersTurn
<1>6. CASE Tick
  <2>1. k' = k \/ (remaining[k.cur] = 1 /\ Dispatch(Rotate(k)))
    BY <1>6 DEF Tick
  <2>2. CASE k' = k
    BY <2>2, SameTurn
  <2>3. CASE remaining[k.cur] = 1 /\ Dispatch(Rotate(k))
    <3>1. KernelInv(Rotate(k), Limbo) /\ HeadsKept(k, Rotate(k), k.cur)
      BY <1>1, RotateKeeps, RotateHeads DEF IInv, RunningPart
    <3>2. k'.ready = Rotate(k).ready
      BY <2>3, <3>1, DispatchReady
    <3>. QED BY <2>3, <3>1, <3>2, OthersTurn
  <2>. QED BY <2>1, <2>2, <2>3
<1>7. CASE Expire(u)
  <2>1. Dispatch(Timeout(k, u)) /\ k.timer[u] /\ k.stat[u] = "suspend" /\ u # Idle
    BY <1>1, <1>7, KernelFields DEF Expire, KernelInv, TimersExact
  <2>2. u \in Thread \ Limbo
    <3>1. ASSUME NEW y \in Thread, pc[y] \in {"untimer", "close"}, arg[y] = u PROVE FALSE
      BY <2>1, <3>1, DeletedFacts DEF Deleting
    <3>. QED BY <3>1, InLimbo
  <2>3. KernelInv(Timeout(k, u), Limbo) /\ HeadsKept(k, Timeout(k, u), u)
    BY <1>1, <2>1, <2>2, TimeoutKeeps, WakeHeads
  <2>4. k'.ready = Timeout(k, u).ready
    BY <2>1, <2>3, DispatchReady
  <2>. QED BY <2>1, <2>3, <2>4, OthersTurn
<1>8. CASE IsrResume(u)
  <2>1. k' = Resume(k, u) /\ k.stat[u] = "suspend" /\ u # Idle
    BY <1>8, KernelFields DEF IsrResume
  <2>2. HeadsKept(k, Resume(k, u), u)
    BY <1>1, <2>1, WakeHeads
  <2>. QED BY <2>1, <2>2, OthersTurn
<1>. QED BY <1>2, <1>3, <1>4, <1>5, <1>6, <1>7, <1>8

\* A ready thread at the head of its list loses its place by its own doing only
THEOREM TurnIsKept ==
  ASSUME WellBehaved
  PROVE  Spec => TurnKept
<1>1. ASSUME IInv, [Next]_vars, NEW t \in Thread PROVE KeepsTurn(t)
  <2>1. ASSUME NEW x \in Thread,
               \/ (\E u \in Thread : Startup(x, u) \/ ResumeCheck(x, u))
               \/ ResumeUnlink(x) \/ CallSchedule(x) \/ SleepReturn(x)
               \/ DeleteTimer(x) \/ DeleteClose(x) \/ DeleteBury(x)
               \/ EnterCritical(x) \/ ExitCritical(x) \/ ExitUnlocked(x) \/ Free \/ IsrSchedule
        PROVE  KeepsTurn(t)
    BY <1>1, <2>1, QuietTurn
  <2>2. ASSUME NEW x \in Thread, SuspendSelf(x) \/ Sleep(x) \/ Yield(x) \/ Exit(x)
        PROVE  KeepsTurn(t)
    BY <1>1, <2>2, OwnTurn
  <2>3. ASSUME NEW x \in Thread, NEW u \in Thread,
               \/ ResumeInsert(x) \/ DeleteUnlink(x, u) \/ (\E p \in Prio : SetPriority(x, u, p))
               \/ Reap \/ Tick \/ Expire(u) \/ IsrResume(u)
        PROVE  KeepsTurn(t)
    BY <1>1, <2>3, OtherTurn
  <2>4. CASE UNCHANGED vars
    <3>1. k'.ready = k.ready
      BY <2>4 DEF vars
    <3>. QED BY <1>1, <3>1, SameTurn
  <2>. QED BY <1>1, <2>1, <2>2, <2>3, <2>4 DEF Next, Call, Continue, IdleLoop
<1>2. IInv /\ [Next]_vars => [\A t \in Thread : KeepsTurn(t)]_vars
  BY <1>1
<1>. QED BY <1>2, Consistent, PTL DEF Spec, TurnKept
=============================================================================
