-------------------------------- MODULE Event --------------------------------
(***************************************************************************)
(* The event sets of ipc.c: a thread waits for all or for any of some      *)
(* bits, and may ask for the bits it receives to be cleared.  One          *)
(* rt_event_send may wake many threads; each sees the bits that those      *)
(* before it in the list have left.                                        *)
(***************************************************************************)
EXTENDS Caller

CONSTANTS
  EvBit,   \* the bits of event->set in use
  EvWants  \* the receptions in use: [want, all, clear]

EvWish == [want : (SUBSET EvBit) \ {{}}, all : BOOLEAN, clear : BOOLEAN]

ASSUME EventAssumption == EvWants \subseteq EvWish /\ "ev" \in WaitList

VARIABLE ev  \* event->set; thread->event_set and event_info are in the thread's call

EvInit == ev = {}

RecvEvent == Calls({"ev_recv"}, EvWants)

\* RT_EVENT_FLAG_AND: all the bits of want are in set; RT_EVENT_FLAG_OR: one is
Satisfied(want, all, set) == IF all THEN want \subseteq set ELSE want \cap set # {}

\* The loop's body in rt_event_send for the waiting thread t; s is the kernel, the calls
\* and the event's set so far
EvServe(s, t) ==
  LET c == s.call[t].arg
      received == IF c.all THEN c.want ELSE c.want \cap s.set
  IN  IF Satisfied(c.want, c.all, s.set)
        THEN [k |-> Resume(s.k, t),
              call |-> [s.call EXCEPT ![t].arg.want = received],
              set |-> IF c.clear THEN s.set \ received ELSE s.set]
        ELSE s

Raised(set) == [k |-> k, call |-> call, set |-> ev \cup set]

BadEvPassLate(set) ==
  LET full == ev \cup set
      s == FoldLeft(LAMBDA x, t : [EvServe(x, t) EXCEPT !.set = full], Raised(set), k.wait["ev"])
      cleared == UNION {s.call[t].arg.want : t \in
                   {u \in ToSet(k.wait["ev"]) : call[u].arg.clear /\ s.k.stat[u] = "ready"}}
  IN  [s EXCEPT !.set = full \ cleared]

\* The pass of rt_event_send over the whole list
EvPass(set) == FoldLeft(EvServe, Raised(set), k.wait["ev"])

EvSend(t, set) ==
  /\ Starts(t, "ev_send", "ev")
  /\ LET s == EvPass(set)
     IN  /\ k' = s.k /\ call' = s.call /\ ev' = s.set
         /\ Goto(t, IF s.k # k THEN "post" ELSE "run")
  /\ UNCHANGED <<got, alive, use>>

\* rt_event_send in an interrupt handler
EvIsrSend(set) ==
  /\ "ev_send" \in use.handler /\ "ev" \in alive
  /\ LET s == EvPass(set)
     IN  /\ k' = IF s.k # k THEN Schedule(s.k) ELSE k
         /\ call' = s.call /\ ev' = s.set
  /\ UNCHANGED <<pc, got, alive, use>>

\* rt_event_recv
EvRecv(t, c) ==
  /\ Enters(t, c, "ev")
  /\ Satisfied(c.arg.want, c.arg.all, ev)
  /\ ev' = IF c.arg.clear THEN ev \ c.arg.want ELSE ev
  /\ UNCHANGED k
  /\ Finish(t, FALSE, [from |-> "ev", value |-> ev \cap c.arg.want])

EvRecvWait(t, c) ==
  /\ Enters(t, c, "ev")
  /\ ~Satisfied(c.arg.want, c.arg.all, ev) /\ c.time # "none"
  /\ WaitOn(t, c, "ev")
  /\ UNCHANGED ev

EvRecvRefused(t, c) ==
  /\ Enters(t, c, "ev")
  /\ ~Satisfied(c.arg.want, c.arg.all, ev) /\ c.time = "none"
  /\ Refuse(t)
  /\ UNCHANGED ev

\* ... running again with what the sender left in thread->event_set
EvReceived(t) ==
  /\ At(t, "again") /\ call[t].op = "ev_recv" /\ k.err[t] = "EOK"
  /\ UNCHANGED <<k, ev>>
  /\ Finish(t, FALSE, [from |-> "ev", value |-> call[t].arg.want])

EvFail(t) ==
  /\ Failed(t) /\ call[t].op = "ev_recv"
  /\ Fail(t)
  /\ UNCHANGED ev

\* rt_event_control(RT_IPC_CMD_RESET)
EvReset(t) ==
  /\ Starts(t, "ev_reset", "ev")
  /\ k' = WakeAllFailed(k, "ev")
  /\ ev' = {}
  /\ Goto(t, "post")
  /\ UNCHANGED <<call, got, alive, use>>

\* rt_event_detach, rt_event_delete
EvDetach(t) == Detach(t, "ev_detach", "ev", <<"ev">>) /\ UNCHANGED ev

\* Sends of bits that somebody may wait for
EvSets == SUBSET (UNION {w.want : w \in EvWants}) \ {{}}

EvNext ==
  \/ \E t \in Running :
       \/ \E c \in RecvEvent : EvRecv(t, c) \/ EvRecvWait(t, c) \/ EvRecvRefused(t, c)
       \/ \E set \in EvSets : EvSend(t, set)
       \/ EvReceived(t) \/ EvFail(t) \/ EvReset(t) \/ EvDetach(t)
  \/ \E set \in EvSets : EvIsrSend(set)

-----------------------------------------------------------------------------
EvType == ev \subseteq EvBit

\* rt_event_send looks at every waiter: none is left in the list whose bits are set
EvNobodySatisfiedWaits ==
  \A t \in ToSet(k.wait["ev"]) : ~Satisfied(call[t].arg.want, call[t].arg.all, ev)

\* The threads that this step takes off the list with what they asked for, and what
\* it is
EvServed ==
  {t \in ToSet(k.wait["ev"]) : ~Contains(k'.wait["ev"], t) /\ k'.err[t] = "EOK"}

EvReceives(t) == call'[t].arg.want

\* What the pass of one rt_event_send gives to the threads it wakes
EvHanded ==
  \A t \in EvServed :
    /\ EvReceives(t) # {} /\ EvReceives(t) \subseteq call[t].arg.want
    /\ call[t].arg.clear =>
         \A u \in EvServed \ {t} : call[u].arg.clear => EvReceives(t) \cap EvReceives(u) = {}

\* rt_event_send: a thread it wakes receives some bits it asked for, and no bit goes to two
\* threads of which both asked for it to be cleared (RT_EVENT_FLAG_CLEAR)
EvBitsHandedOnce == [][EvHanded]_<<k, call, ev>>
=============================================================================
