-------------------------------- MODULE Timer --------------------------------
(***************************************************************************)
(* The timers of timer.c: the hard timers, whose functions run in the tick *)
(* interrupt, the soft timers, whose functions run in the timer thread,    *)
(* and the timer thread itself, which sleeps on a hard timer of its own.   *)
(* A step is what runs with interrupts disabled, or one access to shared   *)
(* state with interrupts enabled.                                          *)
(*                                                                         *)
(* Threads that call are less urgent than the timer thread (its default    *)
(* priority is 0), so they run only while it is suspended.  Timer          *)
(* functions do not block.                                                 *)
(*                                                                         *)
(* The skip list has RT_TIMER_SKIP_LIST_LEVEL = 1 level.                   *)
(***************************************************************************)
EXTENDS Integers, SequencesExt

CONSTANTS
  Hard,      \* hard timers
  Soft,      \* soft timers
  Delay,     \* the thread timer of the timer thread, a hard timer
  Caller,    \* threads that start and stop timers
  TimerThread,
  None,      \* no timer, RT_NULL or a list head
  Uses,      \* the uses of its timers an application may make, see TimerAssumption
  Created,   \* Created[t]: the init_tick and the mode rt_timer_init gives timer t
  Times,     \* values of init_tick
  TickRange, \* number of values of rt_tick_t, 2^32
  FirstTick, \* rt_tick in the initial state
  MaxLate    \* bound: a starter is held up for no more ticks than that past the
             \* timeout it set, and the timer thread from when it wakes until it blocks

Timer == Hard \cup Soft
TickMax == TickRange - 1    \* RT_TICK_MAX
Half == TickMax \div 2

ASSUME TimerAssumption ==
  /\ Hard \cap Soft = {} /\ Delay \in Hard
  /\ None \notin Timer \cup Int
  /\ TimerThread \notin Caller
  \* Which thread controls which timers, what it commands with rt_timer_control, and
  \* which calls the timeout functions make, at most one each time
  /\ Uses \subseteq [ctrl     : [Caller -> SUBSET (Timer \ {Delay})],
                    command  : [Timer -> SUBSET [init : Times, periodic : BOOLEAN]],
                    callback : [Timer -> SUBSET ({"start", "stop"} \X (Timer \ {Delay}))]]
  /\ Created \in [Timer -> [init : Times, periodic : BOOLEAN]]
  /\ ~Created[Delay].periodic
  /\ TickRange \in Nat /\ TickRange >= 4
  /\ FirstTick \in 0..TickMax
  \* rt_timer_start asserts init_tick < RT_TICK_MAX / 2; a periodic timer of 0 ticks
  \* would never leave rt_timer_check
  /\ Times \subseteq 1..(Half - 1) /\ Times # {}
  /\ MaxLate \in Nat \ {0}
  /\ \A n \in Times : n + 2 * MaxLate < Half

VARIABLES
  tick,   \* rt_tick
  m,      \* the timers and the state of the timer thread, see Init
  pc,     \* where the callers and the timer thread are
  arg,    \* the timer their call is about
  isr,    \* "check" and "callback" inside rt_timer_check
  fired,  \* the timer whose function rt_timer_check or rt_soft_timer_check runs
  use,    \* the use the application makes, fixed
  scan    \* local variables of the timer thread: next_timeout, current_tick, n, where
          \* rt_timer_start returns to, and the ticks since it woke

vars == <<tick, m, pc, arg, isr, fired, use, scan>>

Context == Caller \cup {TimerThread}

PC == {"run", "deadline", "insert", "wake", "stop", "clear",
       "look", "measure", "sleep", "suspend", "check", "scan", "callback", "after"}

Init ==
  /\ tick = FirstTick
  /\ m \in [list     : {[x \in {"hard", "soft"} |-> <<>>]},
            deadline : {[t \in Timer |-> 0]},      \* timeout_tick
            active   : {[t \in Timer |-> FALSE]},  \* RT_TIMER_FLAG_ACTIVATED
            init     : {[t \in Timer |-> Created[t].init]},
            periodic : {[t \in Timer |-> Created[t].periodic]}, \* RT_TIMER_FLAG_PERIODIC
            stat     : {"ready"}]                  \* of the timer thread
  /\ pc = [c \in Context |-> IF c = TimerThread THEN "look" ELSE "run"]
  /\ arg = [c \in Context |-> Delay]
  /\ isr = "none"
  /\ use \in Uses
  /\ fired = [hard |-> None, soft |-> None]
  /\ scan = [next |-> 0, now |-> 0, n |-> None, back |-> "after", ticks |-> 0]

-----------------------------------------------------------------------------
(***************************************************************************)
(* Operations on the lists.  Ticks are compared by their difference, which *)
(* wraps as rt_tick_t does.                                                *)
(***************************************************************************)
Diff(a, b) == (a - b) % TickRange

Kind(t) == IF t \in Soft THEN "soft" ELSE "hard"
Linked(t) == Contains(m.list[Kind(t)], t)

Due(t, now) == Diff(now, m.deadline[t]) < Half

BadInsertPos(s, t, deadline) ==
  LET later == {i \in 1..Len(s) : deadline[s[i]] > deadline[t]}
  IN  IF later = {} THEN Len(s) + 1 ELSE Min(later)

\* Before the first timer that is later
InsertPos(s, t, deadline) ==
  LET later == {i \in 1..Len(s) : Diff(deadline[s[i]], deadline[t]) \in 1..(Half - 1)}
  IN  IF later = {} THEN Len(s) + 1 ELSE Min(later)

Unlink(mm, t) == [mm EXCEPT !.list[Kind(t)] = RemoveFirst(@, t)]
Deactivate(mm, t) == [mm EXCEPT !.active[t] = FALSE]
SetDeadline(mm, t) == [mm EXCEPT !.deadline[t] = (tick + mm.init[t]) % TickRange]
Link(mm, t) ==
  [mm EXCEPT !.list[Kind(t)] = InsertAt(@, InsertPos(@, t, mm.deadline), t),
             !.active[t] = TRUE]

\* rt_timer_stop, as one step
Stop(mm, t) == IF mm.active[t] THEN Deactivate(Unlink(mm, t), t) ELSE mm

\* rt_thread_resume(&timer_thread)
ResumeThread(mm) ==
  IF mm.stat = "suspend" THEN [Stop(mm, Delay) EXCEPT !.stat = "ready"] ELSE mm

\* rt_timer_start, as one step
Start(mm, t) ==
  LET s == Link(SetDeadline(Deactivate(Unlink(mm, t), t), t), t)
  IN  IF t \in Soft THEN ResumeThread(s) ELSE s

-----------------------------------------------------------------------------
\* Context c executes at p: the timer thread when it is ready, the others when not
At(c, p) ==
  /\ isr = "none"
  /\ pc[c] = p
  /\ m.stat = IF c = TimerThread THEN "ready" ELSE "suspend"

Goto(c, p) == pc' = [pc EXCEPT ![c] = p]
Return(c) == Goto(c, IF c = TimerThread THEN scan.back ELSE "run")

\* What a thread may call, and what the timeout function in the timer thread may
MayCall(c, op, t) ==
  \/ c \in Caller /\ At(c, "run") /\ t \in use.ctrl[c]
  \/ c = TimerThread /\ At(c, "callback") /\ <<op, t>> \in use.callback[fired.soft]

BadStartUnlink(c, t) ==
  /\ MayCall(c, "start", t)
  /\ m' = Deactivate(m, t)
  /\ Goto(c, "deadline")
  /\ arg' = [arg EXCEPT ![c] = t]
  /\ UNCHANGED <<use, tick, isr, fired, scan>>

\* rt_timer_start, in the sections that run with interrupts disabled
StartUnlink(c, t) ==
  /\ MayCall(c, "start", t)
  /\ m' = Deactivate(Unlink(m, t), t)
  /\ Goto(c, "deadline")
  /\ arg' = [arg EXCEPT ![c] = t]
  /\ UNCHANGED <<use, tick, isr, fired, scan>>

StartDeadline(c) ==
  /\ At(c, "deadline")
  /\ m' = SetDeadline(m, arg[c])
  /\ Goto(c, "insert")
  /\ UNCHANGED <<use, tick, arg, isr, fired, scan>>

StartInsert(c) ==
  /\ At(c, "insert")
  /\ m' = Link(m, arg[c])
  /\ IF arg[c] \in Soft THEN Goto(c, "wake") ELSE Return(c)
  /\ UNCHANGED <<use, tick, arg, isr, fired, scan>>

BadStartWake(c) ==
  /\ At(c, "wake")
  /\ m' = m
  /\ Return(c)
  /\ UNCHANGED <<use, tick, arg, isr, fired, scan>>

\* The new soft timer may be the first: the timer thread has to look again.  The tests of
\* its state here and in rt_thread_resume, made with interrupts enabled, and the effect are
\* one step; that its sleep may end in between is shown in Scheduler (ResumesSuspended)
StartWake(c) ==
  /\ At(c, "wake")
  /\ m' = ResumeThread(m)
  /\ Return(c)
  /\ UNCHANGED <<use, tick, arg, isr, fired, scan>>

\* rt_timer_stop tests and clears ACTIVATED with interrupts enabled; a timer that is
\* not activated is refused
StopTest(c, t) ==
  /\ MayCall(c, "stop", t)
  /\ m.active[t]
  /\ Goto(c, "stop")
  /\ arg' = [arg EXCEPT ![c] = t]
  /\ UNCHANGED <<use, tick, m, isr, fired, scan>>

BadStopUnlink(c) ==
  /\ At(c, "stop")
  /\ m' = m
  /\ Goto(c, "clear")
  /\ UNCHANGED <<use, tick, arg, isr, fired, scan>>

StopUnlink(c) ==
  /\ At(c, "stop")
  /\ m' = Unlink(m, arg[c])
  /\ Goto(c, "clear")
  /\ UNCHANGED <<use, tick, arg, isr, fired, scan>>

StopClear(c) ==
  /\ At(c, "clear")
  /\ m' = Deactivate(m, arg[c])
  /\ Return(c)
  /\ UNCHANGED <<use, tick, arg, isr, fired, scan>>

\* rt_timer_control
Control(c, t) ==
  /\ c \in Caller /\ At(c, "run") /\ t \in use.ctrl[c]
  /\ \E o \in use.command[t] :
       \/ m' = [m EXCEPT !.init[t] = o.init]
       \/ m' = [m EXCEPT !.periodic[t] = o.periodic]
  /\ UNCHANGED <<use, tick, pc, arg, isr, fired, scan>>

\* rt_timer_detach and rt_timer_delete; the object is then initialised anew
Detach(c, t) ==
  /\ c \in Caller /\ At(c, "run") /\ t \in use.ctrl[c]
  /\ m' = [Deactivate(Unlink(m, t), t) EXCEPT !.init[t] = Created[t].init,
                                            !.periodic[t] = Created[t].periodic]
  /\ UNCHANGED <<use, tick, pc, arg, isr, fired, scan>>

-----------------------------------------------------------------------------
(***************************************************************************)
(* rt_tick_increase and rt_timer_check, with interrupts disabled from the  *)
(* tick to the last due timer.  What a timer that is on no list had for a  *)
(* deadline is forgotten unless somebody may still read it.                *)
(***************************************************************************)
Read(t) == Linked(t) \/ t = scan.n \/ \E c \in Context : pc[c] = "insert" /\ arg[c] = t

HeldUp(t) == Diff(tick, m.deadline[t]) \in MaxLate .. Half - 1
Timely ==
  /\ \A c \in Context : pc[c] \in {"insert", "wake"} => ~HeldUp(arg[c])
  /\ m.stat = "ready" => scan.ticks < MaxLate

Tick ==
  /\ isr = "none"
  /\ Timely
  /\ tick' = (tick + 1) % TickRange
  /\ m' = [m EXCEPT !.deadline = [t \in Timer |-> IF Read(t) THEN @[t] ELSE 0]]
  /\ isr' = "check"
  /\ scan' = [scan EXCEPT !.ticks = IF m.stat = "ready" THEN @ + 1 ELSE @]
  /\ UNCHANGED <<use, pc, arg, fired>>

BadHardDue == m.list["hard"] # <<>> /\ Due(Head(m.list["hard"]), tick + 1)

HardDue == m.list["hard"] # <<>> /\ Due(Head(m.list["hard"]), tick)

CheckFire ==
  /\ isr = "check"
  /\ HardDue
  /\ m' = Unlink(m, Head(m.list["hard"]))
  /\ fired' = [fired EXCEPT !.hard = Head(m.list["hard"])]
  /\ isr' = "callback"
  /\ UNCHANGED <<use, tick, pc, arg, scan>>

\* The timeout function of a hard timer; that of Delay is rt_thread_timeout
Ran(t) ==
  IF t = Delay
    THEN {[m EXCEPT !.stat = "ready"]}
    ELSE {m} \cup {Start(m, u) : u \in {x \in Timer : <<"start", x>> \in use.callback[t]}}
             \cup {Stop(m, u) : u \in {x \in Timer : <<"stop", x>> \in use.callback[t]}}

\* A periodic timer is started again unless its function stopped it
After(mm, t) ==
  IF mm.periodic[t] /\ mm.active[t] THEN Start(Deactivate(mm, t), t) ELSE Deactivate(mm, t)

CheckCallback ==
  /\ isr = "callback"
  /\ \E mm \in Ran(fired.hard) : m' = After(mm, fired.hard)
  /\ fired' = [fired EXCEPT !.hard = None]
  /\ isr' = "check"
  /\ UNCHANGED <<use, tick, pc, arg, scan>>

CheckDone ==
  /\ isr = "check"
  /\ ~HardDue
  /\ isr' = "none"
  /\ UNCHANGED <<use, tick, m, pc, arg, fired, scan>>

-----------------------------------------------------------------------------
(***************************************************************************)
(* rt_thread_timer_entry.  rt_timer_list_next_timeout says RT_TICK_MAX for *)
(* an empty list.                                                          *)
(***************************************************************************)
NextTimeout == IF m.list["soft"] = <<>> THEN TickMax ELSE m.deadline[Head(m.list["soft"])]

Look ==
  /\ At(TimerThread, "look")
  /\ scan' = [scan EXCEPT !.next = NextTimeout]
  /\ Goto(TimerThread, IF NextTimeout = TickMax THEN "suspend" ELSE "measure")
  /\ UNCHANGED <<use, tick, m, arg, isr, fired>>

Suspend ==
  /\ At(TimerThread, "suspend")
  /\ m' = [Stop(m, Delay) EXCEPT !.stat = "suspend"]
  /\ scan' = [scan EXCEPT !.next = 0, !.ticks = 0]
  /\ Goto(TimerThread, "check")
  /\ UNCHANGED <<use, tick, arg, isr, fired>>

Measure ==
  /\ At(TimerThread, "measure")
  /\ LET delta == Diff(scan.next, tick)
     IN  /\ scan' = [scan EXCEPT !.next = IF delta < Half THEN delta ELSE 0]
         /\ Goto(TimerThread, IF delta < Half THEN "sleep" ELSE "check")
  /\ UNCHANGED <<use, tick, m, arg, isr, fired>>

BadSleep ==
  /\ At(TimerThread, "sleep")
  /\ m' = [Stop(m, Delay) EXCEPT !.stat = "suspend"]
  /\ scan' = [scan EXCEPT !.next = 0, !.ticks = 0]
  /\ Goto(TimerThread, "check")
  /\ UNCHANGED <<use, tick, arg, isr, fired>>

\* rt_thread_delay
Sleep ==
  /\ At(TimerThread, "sleep")
  /\ m' = Start([Stop(m, Delay) EXCEPT !.stat = "suspend", !.init[Delay] = scan.next], Delay)
  /\ scan' = [scan EXCEPT !.next = 0, !.ticks = 0]
  /\ Goto(TimerThread, "check")
  /\ UNCHANGED <<use, tick, arg, isr, fired>>

(***************************************************************************)
(* rt_soft_timer_check.  n is the node the loop is at, None at the list    *)
(* head.  A node that is on no list points to itself.                      *)
(***************************************************************************)
First == IF m.list["soft"] = <<>> THEN None ELSE Head(m.list["soft"])
Following(t) ==
  LET s == m.list["soft"]
      i == CHOOSE j \in 1..Len(s) : s[j] = t
  IN  IF ~Linked(t) THEN t ELSE IF i = Len(s) THEN None ELSE s[i + 1]

CheckSoft ==
  /\ At(TimerThread, "check")
  /\ scan' = [scan EXCEPT !.n = First, !.now = tick]
  /\ Goto(TimerThread, "scan")
  /\ UNCHANGED <<use, tick, m, arg, isr, fired>>

SoftDue == scan.n # None /\ Due(scan.n, scan.now)

\* n steps on and the timer is unlinked with interrupts enabled; one step, as handlers
\* start and stop no soft timers and no caller runs before the timer thread waits
SoftFire ==
  /\ At(TimerThread, "scan")
  /\ SoftDue
  /\ scan' = [scan EXCEPT !.n = Following(scan.n), !.now = 0, !.back = "after"]
  /\ m' = Unlink(m, scan.n)
  /\ fired' = [fired EXCEPT !.soft = scan.n]
  /\ Goto(TimerThread, "callback")
  /\ UNCHANGED <<use, tick, arg, isr>>

\* The timeout function returns, having called nothing
SoftCallback ==
  /\ At(TimerThread, "callback")
  /\ Goto(TimerThread, "after")
  /\ UNCHANGED <<use, tick, m, arg, isr, fired, scan>>

\* The tick is read again; a periodic timer is started again
SoftAfter ==
  /\ At(TimerThread, "after")
  /\ LET t == fired.soft
         again == m.periodic[t] /\ m.active[t]
     IN  /\ m' = Deactivate(IF again THEN Unlink(m, t) ELSE m, t)
         /\ Goto(TimerThread, IF again THEN "deadline" ELSE "scan")
         /\ scan' = [scan EXCEPT !.now = tick, !.back = IF again THEN "scan" ELSE "after"]
         /\ arg' = [arg EXCEPT ![TimerThread] = t]
  /\ fired' = [fired EXCEPT !.soft = None]
  /\ UNCHANGED <<use, tick, isr>>

SoftDone ==
  /\ At(TimerThread, "scan")
  /\ ~SoftDue
  /\ scan' = [scan EXCEPT !.n = None, !.now = 0, !.back = "after"]
  /\ arg' = [arg EXCEPT ![TimerThread] = Delay]
  /\ Goto(TimerThread, "look")
  /\ UNCHANGED <<use, tick, m, isr, fired>>

-----------------------------------------------------------------------------
Begin(c) ==
  \E t \in Timer : StartUnlink(c, t) \/ StopTest(c, t) \/ Control(c, t) \/ Detach(c, t)

Continue(c) ==
  \/ StartDeadline(c) \/ StartInsert(c) \/ StartWake(c)
  \/ StopUnlink(c) \/ StopClear(c)

ThreadStep ==
  \/ Look \/ Suspend \/ Measure \/ Sleep
  \/ CheckSoft \/ SoftFire \/ SoftCallback \/ SoftAfter \/ SoftDone
  \/ Begin(TimerThread) \/ Continue(TimerThread)

Interrupt == Tick \/ CheckFire \/ CheckCallback \/ CheckDone

Next ==
  \/ \E c \in Caller : Begin(c) \/ Continue(c)
  \/ ThreadStep
  \/ Interrupt

Spec == Init /\ [][Next]_vars

(***************************************************************************)
(* Fairness: the tick interrupt comes and ends, the timer thread executes  *)
(* when it is ready, and a caller ends the call it is in.                  *)
(***************************************************************************)
FairSpec ==
  /\ Spec
  /\ WF_vars(Interrupt)
  /\ SF_vars(ThreadStep)
  /\ \A c \in Caller : SF_vars(Continue(c))

-----------------------------------------------------------------------------
\* Types of the variables; a timer is linked once, on the list of its kind
TypeOK ==
  /\ tick \in 0..TickMax
  /\ m \in [list : [{"hard", "soft"} -> Seq(Timer)], deadline : [Timer -> 0..TickMax],
            active : [Timer -> BOOLEAN], init : [Timer -> 0..(Half - 1)],
            periodic : [Timer -> BOOLEAN], stat : {"ready", "suspend"}]
  /\ ToSet(m.list["hard"]) \subseteq Hard /\ ToSet(m.list["soft"]) \subseteq Soft
  /\ \A x \in {"hard", "soft"} : IsInjective(m.list[x])
  /\ pc \in [Context -> PC]
  /\ arg \in [Context -> Timer]
  /\ isr \in {"none", "check", "callback"}
  /\ fired \in [hard : Hard \cup {None}, soft : Soft \cup {None}]
  /\ scan \in [next : 0..TickMax, now : 0..TickMax, n : Soft \cup {None},
               back : {"after", "scan"}, ticks : 0..MaxLate]

\* Ticks until a timer is due, 0 or less when it is
Left(t) == IF Due(t, tick) THEN - Diff(tick, m.deadline[t]) ELSE Diff(m.deadline[t], tick)

\* No timer has two users: a thread controls timers no other thread does, and a timeout
\* function calls only about timers of its own kind, so that it interrupts no other
\* call about them, and starts neither its own timer nor one a thread controls
Exclusive(u) ==
  /\ \A c, d \in Caller : c # d => u.ctrl[c] \cap u.ctrl[d] = {}
  /\ \A x \in Timer : \A call \in u.callback[x] :
       /\ Kind(call[2]) = Kind(x)
       /\ call[1] = "start" => call[2] # x /\ \A c \in Caller : call[2] \notin u.ctrl[c]

OneUser == \A u \in Uses : Exclusive(u)

\* rt_timer_start's walk keeps both lists in the order of their timeouts, also when
\* the tick wraps or a timer is inserted late. A soft timer whose timeout is
\* RT_TICK_MAX is left aside: it reads as an empty list (rt_timer_list_next_timeout)
\* and may be forgotten until it no longer compares as due.
NoneAtTickMax == \A t \in Soft : m.deadline[t] # TickMax

ListsInOrder ==
  \A x \in {"hard", "soft"} : x = "hard" \/ NoneAtTickMax =>
    \A i, j \in DOMAIN m.list[x] : i < j => Left(m.list[x][i]) <= Left(m.list[x][j])

\* A timer some call or its own timeout function is about
Busy(t) ==
  \/ t \in {fired.hard, fired.soft}
  \/ \E c \in Context : pc[c] \in {"deadline", "insert", "stop", "clear"} /\ arg[c] = t

\* RT_TIMER_FLAG_ACTIVATED, which rt_timer_stop tests and clears with interrupts
\* enabled, says whether the timer is linked; otherwise it could not be stopped
ActiveIffLinked == \A t \in Timer : ~Busy(t) => (m.active[t] <=> Linked(t))

\* rt_thread_timeout's assertion, and the timer thread does not oversleep: suspended,
\* it has a timer that is due when the first soft timer is, or is about to be resumed
SoftAttended ==
  /\ Linked(Delay) => m.stat = "suspend"
  /\ m.stat = "suspend" /\ m.list["soft"] # <<>>
       => \/ ~NoneAtTickMax
          \/ Linked(Delay) /\ Left(Delay) <= Left(Head(m.list["soft"])) + MaxLate
          \/ fired.hard = Delay
          \/ \E c \in Caller : pc[c] = "wake"

\* A soft timer that is linked runs or is unlinked, unless timeouts of RT_TICK_MAX occur
SoftFires ==
  \A t \in Soft : Linked(t) ~> ~Linked(t) \/ ~NoneAtTickMax

Promise == INSTANCE AbstractTimers
  WITH Timers <- Hard, Longest <- Half - 1, Latest <- MaxLate, None <- None,
       left <- [t \in Hard |-> IF Linked(t) THEN Left(t) ELSE None],
       phase <- IF isr = "none" THEN "wait" ELSE "fire",
       running <- fired.hard

\* rt_timer_check runs each hard timer when it is due, and only then
ImplementsTimers == Promise!Spec

-----------------------------------------------------------------------------
\* rt_timer_stop "will stop the timer": the timeout function that runs next is that
\* of a timer that is linked (violated: rt_soft_timer_check keeps a pointer to the
\* next timer while a timeout function stops it)
StoppedNeverFires ==
  [][\A t \in Soft : fired'.soft = t /\ fired.soft # t => Linked(t)]_vars
=============================================================================
