-------------------------------- MODULE OneNet --------------------------------
(***************************************************************************)
(* The OneNET client of the port (src/ports/onenet/nb_onenet.c): an        *)
(* application thread asks the vendor's CIS library to register, update,   *)
(* notify or unregister, and waits with rt_event_recv for the bits that    *)
(* the library's callbacks send.  The library answers when it likes, also  *)
(* after the wait has timed out; bits stay in the event until some         *)
(* reception clears them.                                                  *)
(*                                                                         *)
(* The library is binary: it takes or refuses a request, owes answers to   *)
(* those it took, asks for each object once a registration succeeds, and   *)
(* may report a registration ended by the platform.  Its callbacks run in  *)
(* a thread of its own whose priority the repository does not tell: they   *)
(* come at any time, in two parts, the assignments and the rt_event_send.  *)
(***************************************************************************)
EXTENDS Event

CONSTANTS
  Objects,  \* the number of objects the application has set up
  MaxOwed,  \* how many requests of a kind the library takes before it answers
  MaxTroubled  \* how many calls in a row the application makes with answers to earlier
               \* ones outstanding, use.left of them at most

RegFailures == {"bootstrap_fail", "connect_fail", "reg_fail"}
RegBit == RegFailures \cup {"reg_success", "reg_timeout"}
UpdateBit == {"update_success", "update_fail", "update_timeout"}
NotifyBit == {"notify_success", "notify_fail"}
OnBit == RegBit \cup UpdateBit \cup NotifyBit
           \cup {"unreg_done", "observer_success", "discover_success"}

ASSUME OneNetAssumption ==
  /\ Objects \in Nat \ {0} /\ MaxOwed \in Nat \ {0}
  /\ MaxTroubled \in Nat /\ \A u \in Uses : u.left \in Nat
  /\ OnBit \subseteq EvBit

VARIABLES
  on,   \* onenet_device_table, as far as something reads it: objcount, observercount,
        \* discovercount; failed, event_status is failure; discovered, discover_status is
        \* success; closing, close_status is close_start; connected, connect_status is
        \* success; far, initstep is above 5
  cis,  \* the library: inst, an instance exists; reg, the platform has the device
        \* registered; owes, the answers it has not given; sending, the bits that the
        \* callback it is in has still to send
  seen  \* about the call under way: calm, it began with nothing outstanding, and troubled,
        \* how many in a row did not; mistaken, it took two failures for success; said, what
        \* the library has reported since it began

onenet == <<on, cis, seen>>

Kind == {"reg", "observe", "discover", "update", "notify", "unreg"}

NothingOwed == [r \in Kind |-> 0]

ClearedDevice ==
  [objcount |-> 0, observercount |-> 0, discovercount |-> 0, failed |-> FALSE,
   discovered |-> FALSE, closing |-> FALSE, connected |-> FALSE, far |-> FALSE]

OnInit ==
  /\ on = ClearedDevice
  /\ cis = [inst |-> FALSE, reg |-> FALSE, owes |-> NothingOwed, sending |-> {}]
  /\ seen = [calm |-> FALSE, troubled |-> 0, mistaken |-> FALSE, said |-> {}]

\* The answers, bits and counts left over from earlier calls
Outstanding ==
  Cardinality(ev \cap OnBit) + Cardinality(cis.sending) + MapThenSumSet(LAMBDA r : cis.owes[r], Kind)
    + on.observercount + on.discovercount + (IF on.closing THEN 1 ELSE 0)

NothingOutstanding == Outstanding = 0

-----------------------------------------------------------------------------
\* The reception of each call: RT_EVENT_FLAG_CLEAR always, AND where it is one bit
Wish(bits) == [want |-> bits, all |-> Cardinality(bits) = 1, clear |-> TRUE]

OnOps == {"on_start", "on_open", "on_close", "on_update", "on_notify"}

OnCall(op, bits) == [op |-> op, arg |-> Wish(bits), time |-> "timed"]

\* Failures received at once, which nb_onenet_open compares with each by itself: it goes on
\* as if registered
Mistaken(bits) == bits \subseteq RegFailures \cup {"reg_timeout"} /\ Cardinality(bits) > 1

\* A call is troubled if answers to earlier ones are outstanding when it begins
Begun ==
  [calm |-> NothingOutstanding, mistaken |-> FALSE, said |-> {},
   troubled |-> IF NothingOutstanding THEN 0 ELSE seen.troubled + 1]

OnBegins(t, op) ==
  Starts(t, op, "ev") /\ Begun.troubled <= MaxTroubled /\ Outstanding <= use.left

\* t goes on to p inside a call
OnGoes(t, c, p) ==
  /\ call' = [call EXCEPT ![t] = c]
  /\ Goto(t, p)
  /\ UNCHANGED <<k, got, alive, use>>
  /\ seen' = IF At(t, "run") THEN Begun
             ELSE [seen EXCEPT !.mistaken = @ \/ (pc[t] = "on_got" /\ Mistaken(call[t].arg.want))]

\* ... returns; what has been reported to it goes with the value it returns, unless the
\* library refused or its wait timed out
OnReturns(t, op, result) ==
  /\ Finish(t, FALSE,
            [from |-> "on",
             value |-> [op |-> op, result |-> result, said |-> seen.said,
                        calm |-> seen.calm /\ ~At(t, "run") /\ ~Failed(t),
                        mistaken |-> seen.mistaken]])
  /\ seen' = [IF At(t, "run") THEN Begun ELSE seen
                EXCEPT !.calm = FALSE, !.mistaken = FALSE, !.said = {}]
  /\ UNCHANGED k

\* A request r to the library, which takes it or not; a device that is registered is not
\* registered again
Accepts(r) ==
  /\ cis.inst /\ cis.owes[r] < MaxOwed /\ (r = "reg" => ~cis.reg)
  /\ cis' = [cis EXCEPT !.owes[r] = @ + 1]

\* nb_onenet_open gives up; nb_onenet_quick_start then closes what got far enough, going
\* by initstep, and returns an error
OnOpenFails(t, op, far) ==
  IF op = "on_start" /\ far
    THEN OnGoes(t, OnCall(op, {"unreg_done"}), "on_close")
    ELSE OnReturns(t, op, "ERROR")

\* nb_onenet_quick_start: onenet_create_instance ...
OnStart(t) ==
  /\ OnBegins(t, "on_start")
  /\ \/ /\ ~cis.inst
        /\ cis' = [cis EXCEPT !.inst = TRUE]
        /\ on' = [on EXCEPT !.far = FALSE]
        /\ OnGoes(t, OnCall("on_start", RegBit), "on_objects")
     \/ /\ OnOpenFails(t, "on_start", on.far)
        /\ UNCHANGED <<on, cis>>
  /\ UNCHANGED ev

\* ... and, a second later, onenet_create_object
OnObjects(t) ==
  /\ At(t, "on_objects")
  /\ on' = [on EXCEPT !.objcount = Objects]
  /\ OnGoes(t, call[t], "on_open")
  /\ UNCHANGED <<ev, cis>>

\* nb_onenet_open, qs_cis_reg
OnOpen(t, op) ==
  /\ \/ op = "on_open" /\ OnBegins(t, "on_open")
     \/ At(t, "on_open") /\ op = "on_start"
  /\ \/ Accepts("reg") /\ OnGoes(t, OnCall(op, RegBit), "on_asked")
     \/ OnOpenFails(t, op, on.far) /\ UNCHANGED cis
  /\ UNCHANGED <<ev, on>>

\* ... a callback may have come by now and have its event_status overwritten
OnAsked(t) ==
  /\ At(t, "on_asked")
  /\ on' = [on EXCEPT !.far = FALSE, !.failed = FALSE]
  /\ OnGoes(t, call[t], "on_recv")
  /\ UNCHANGED <<ev, cis>>

\* nb_onenet_close
OnClose(t, op) ==
  /\ \/ op = "on_close" /\ OnBegins(t, "on_close")
     \/ At(t, "on_close") /\ op = "on_start"
  /\ on' = [on EXCEPT !.closing = TRUE]
  /\ \/ Accepts("unreg") /\ OnGoes(t, OnCall(op, {"unreg_done"}), "on_recv")
     \/ OnReturns(t, op, "ERROR") /\ UNCHANGED cis
  /\ UNCHANGED ev

\* nb_onenet_update_time, nb_onenet_notify_with_ack
OnRequest(t, op, r, bits) ==
  /\ OnBegins(t, op)
  /\ \/ Accepts(r) /\ OnGoes(t, OnCall(op, bits), "on_recv")
     \/ OnReturns(t, op, "ERROR") /\ UNCHANGED cis
  /\ UNCHANGED <<ev, on>>

\* nb_onenet_delete_instance: what is gone with the library's instance is not answered
OnDelete(t) ==
  /\ Starts(t, "on_delete", "ev")
  /\ cis.inst /\ cis.sending = {}
  /\ cis' = [cis EXCEPT !.inst = FALSE, !.reg = FALSE, !.owes = NothingOwed]
  /\ on' = ClearedDevice
  /\ UNCHANGED <<ev, seen, k, pc, call, got, alive, use>>

-----------------------------------------------------------------------------
\* rt_event_recv in a call of the client
OnRecv(t) ==
  LET wish == call[t].arg
      received == ev \cap wish.want
  IN  /\ At(t, "on_recv") /\ Satisfied(wish.want, wish.all, ev)
      /\ ev' = ev \ wish.want
      /\ OnGoes(t, [call[t] EXCEPT !.arg.want = received], "on_got")
      /\ UNCHANGED <<on, cis>>

OnRecvWait(t) ==
  /\ At(t, "on_recv") /\ ~Satisfied(call[t].arg.want, call[t].arg.all, ev)
  /\ WaitOn(t, call[t], "ev")
  /\ UNCHANGED <<ev, onenet>>

OnReceived(t) ==
  /\ At(t, "again") /\ k.err[t] = "EOK" /\ call[t].op \in OnOps
  /\ OnGoes(t, call[t], "on_got")
  /\ UNCHANGED <<ev, on, cis>>

\* The wait timed out.  nb_onenet_notify_with_ack does not look at what rt_event_recv
\* returns: its status is still 0, which is not event_notify_fail
OnTimeout(t) ==
  /\ Failed(t) /\ call[t].op \in OnOps
  /\ \/ call[t].op \in {"on_start", "on_open"} /\ call[t].arg.want # {"unreg_done"}
        /\ OnOpenFails(t, call[t].op, on.far)
     \/ call[t].arg.want = {"unreg_done"} /\ OnReturns(t, call[t].op, "ERROR")
     \/ call[t].op = "on_update" /\ OnReturns(t, call[t].op, "ERROR")
     \/ call[t].op = "on_notify" /\ OnReturns(t, call[t].op, "EOK")
  /\ UNCHANGED <<ev, on, cis>>

\* What a call does with the bits it received: status is compared with single bits, so
\* that two at once count as success
Received(t, bits) == At(t, "on_got") /\ call[t].arg.want \subseteq bits

OnRegistered(t) ==
  LET c == call[t]
  IN  /\ Received(t, RegBit)
      /\ IF c.arg.want \in {{b} : b \in RegFailures \cup {"reg_timeout"}}
           THEN OnOpenFails(t, c.op, on.far)
           ELSE OnGoes(t, OnCall(c.op, {"observer_success"}), "on_recv")
      /\ UNCHANGED <<ev, on, cis>>

OnObserved(t) ==
  /\ Received(t, {"observer_success"})
  /\ on' = [on EXCEPT !.far = TRUE]
  /\ OnGoes(t, OnCall(call[t].op, {"discover_success"}), "on_recv")
  /\ UNCHANGED <<ev, cis>>

OnDiscovered(t) ==
  /\ Received(t, {"discover_success"})
  /\ IF on.discovered THEN OnReturns(t, call[t].op, "EOK") ELSE OnOpenFails(t, call[t].op, on.far)
  /\ UNCHANGED <<ev, on, cis>>

OnClosed(t) ==
  /\ Received(t, {"unreg_done"})
  /\ on' = [on EXCEPT !.connected = FALSE]
  /\ OnReturns(t, call[t].op, IF call[t].op = "on_start" THEN "ERROR" ELSE "EOK")
  /\ UNCHANGED <<ev, cis>>

OnUpdated(t) ==
  /\ Received(t, UpdateBit)
  /\ OnReturns(t, call[t].op, IF call[t].arg.want \in {{"update_fail"}, {"update_timeout"}}
                    THEN "ERROR" ELSE "EOK")
  /\ UNCHANGED <<ev, on, cis>>

OnNotified(t) ==
  /\ Received(t, NotifyBit)
  /\ OnReturns(t, call[t].op, IF call[t].arg.want = {"notify_fail"} THEN "ERROR" ELSE "EOK")
  /\ UNCHANGED <<ev, on, cis>>

-----------------------------------------------------------------------------
\* The library reports: onenet_event_callback, onenet_observer_rsp, onenet_discover_rsp
\* up to their rt_event_send
Reports(r) == cis.inst /\ cis.sending = {} /\ cis.owes[r] > 0

Said(what) == seen' = IF seen.calm THEN [seen EXCEPT !.said = @ \cup what] ELSE seen

Sends(bits, owes, reg) == cis' = [cis EXCEPT !.owes = owes, !.reg = reg, !.sending = bits]

\* A registration goes on: cases 1, 2 and 4
CisProgress ==
  /\ Reports("reg")
  /\ on' = [on EXCEPT !.failed = FALSE]
  /\ UNCHANGED <<cis, seen>>

\* Cases 3, 5 and 8; after a failed bootstrap or connect the library may try again or
\* give up
CisRegFails(bit) ==
  /\ Reports("reg")
  /\ on' = [on EXCEPT !.failed = TRUE]
  /\ \/ Sends({bit}, [cis.owes EXCEPT !["reg"] = @ - 1], cis.reg)
     \/ bit \in {"bootstrap_fail", "connect_fail"} /\ Sends({bit}, cis.owes, cis.reg)
  /\ UNCHANGED seen

\* Case 7, unless a failure has been reported already
CisRegRefused ==
  /\ Reports("reg")
  /\ on' = [on EXCEPT !.failed = TRUE]
  /\ Sends(IF on.failed THEN {} ELSE {"reg_fail"},
           [cis.owes EXCEPT !["reg"] = @ - 1], cis.reg)
  /\ UNCHANGED seen

\* Case 6: the library goes on to ask for each object
CisRegistered ==
  /\ Reports("reg")
  /\ on' = [on EXCEPT !.failed = FALSE]
  /\ Sends({"reg_success"},
           [cis.owes EXCEPT !["reg"] = @ - 1, !["observe"] = on.objcount,
                            !["discover"] = on.objcount],
           TRUE)
  /\ Said({"registered"})

BadObserveCount(n) == n + 1

\* observercount++, back to 0 when the last object is observed; discovercount likewise
ObserveCount(n) == IF n + 1 = on.objcount THEN 0 ELSE n + 1

\* onenet_observer_rsp; qs_cis_observer_rsp may refuse the answer
CisObserve ==
  LET owes == [cis.owes EXCEPT !["observe"] = @ - 1]
      last == on.observercount + 1 = on.objcount
  IN  /\ Reports("observe")
      /\ \/ /\ on' = [on EXCEPT !.observercount = ObserveCount(@)]
            /\ Sends(IF last THEN {"observer_success"} ELSE {}, owes, cis.reg)
            /\ Said(IF owes["observe"] = 0 THEN {"observed"} ELSE {})
         \/ Sends({}, owes, cis.reg) /\ UNCHANGED <<on, seen>>

\* onenet_discover_rsp, likewise
CisDiscover ==
  LET owes == [cis.owes EXCEPT !["discover"] = @ - 1]
      last == on.discovercount + 1 = on.objcount
  IN  /\ Reports("discover")
      /\ \/ /\ on' = [on EXCEPT !.discovercount = ObserveCount(@),
                                !.discovered = last,
                                !.connected = last \/ @]
            /\ Sends(IF last THEN {"discover_success"} ELSE {}, owes, cis.reg)
            /\ Said(IF owes["discover"] = 0 THEN {"discovered"} ELSE {})
         \/ Sends({}, owes, cis.reg) /\ UNCHANGED <<on, seen>>

\* Cases 11, 12, 13 and 25, 26
CisAnswers(r, bit) ==
  /\ Reports(r)
  /\ Sends({bit}, [cis.owes EXCEPT ![r] = @ - 1], cis.reg)
  /\ Said({bit} \cap {"update_success", "notify_success"})
  /\ UNCHANGED on

\* Case 15, for a request or since the platform ended the registration; without a
\* request nb_onenet_close_callback, which changes nothing
CisUnregistered ==
  /\ cis.inst /\ cis.sending = {} /\ (cis.reg \/ cis.owes["unreg"] > 0)
  /\ on' = [on EXCEPT !.connected = FALSE, !.closing = FALSE]
  /\ Sends(IF on.closing THEN {"unreg_done"} ELSE {},
           [cis.owes EXCEPT !["unreg"] = 0, !["observe"] = 0, !["discover"] = 0], FALSE)
  /\ Said({"unregistered"})

\* rt_event_send at the end of a callback, and who it makes run
CisSend ==
  /\ cis.sending # {}
  /\ LET s == EvPass(cis.sending)
     IN  /\ k' = IF s.k # k THEN Schedule(s.k) ELSE k
         /\ call' = s.call /\ ev' = s.set
  /\ cis' = [cis EXCEPT !.sending = {}]
  /\ UNCHANGED <<pc, got, alive, use, on, seen>>

CisNext ==
  \/ /\ \/ CisProgress \/ CisRegRefused \/ CisRegistered \/ CisObserve \/ CisDiscover
        \/ CisUnregistered
        \/ \E bit \in {"bootstrap_fail", "connect_fail", "reg_timeout"} : CisRegFails(bit)
        \/ \E bit \in UpdateBit : CisAnswers("update", bit)
        \/ \E bit \in NotifyBit : CisAnswers("notify", bit)
     /\ UNCHANGED <<ev, caller>>
  \/ CisSend

OnNext ==
  \/ CisNext
  \/ \E t \in Running :
       \/ OnStart(t) \/ OnObjects(t) \/ OnAsked(t) \/ OnDelete(t)
       \/ OnOpen(t, "on_open") \/ OnOpen(t, "on_start")
       \/ OnClose(t, "on_close") \/ OnClose(t, "on_start")
       \/ OnRequest(t, "on_update", "update", UpdateBit)
       \/ OnRequest(t, "on_notify", "notify", NotifyBit)
       \/ OnRecv(t) \/ OnRecvWait(t) \/ OnReceived(t) \/ OnTimeout(t)
       \/ OnRegistered(t) \/ OnObserved(t) \/ OnDiscovered(t)
       \/ OnClosed(t) \/ OnUpdated(t) \/ OnNotified(t)

-----------------------------------------------------------------------------
OnType ==
  /\ on.objcount \in 0..Objects /\ on.observercount \in Nat /\ on.discovercount \in Nat
  /\ \A r \in Kind : cis.owes[r] \in 0..(MaxOwed + Objects)
  /\ cis.sending \subseteq OnBit

\* What the library must have reported for a call to return RT_EOK
Required(op) ==
  CASE op \in {"on_start", "on_open"} -> {"registered", "observed", "discovered"}
    [] op = "on_close" -> {"unregistered"}
    [] op = "on_update" -> {"update_success"}
    [] op = "on_notify" -> {"notify_success"}

\* A call of the client that finds nothing left over from earlier ones and whose waits do
\* not time out returns RT_EOK only for what the platform answered to that very call, and
\* then, or if it is an update or a notification, leaves nothing over either: no bit, count
\* or close_status that the next call would take for its own answer (nb_onenet_open, _close,
\* _update_time, _notify_with_ack and onenet_event_callback share them).  Of what is left
\* over, a call is excluded that took two failures for success (mistaken, nb_onenet.c:802):
\* the registration it went on from may still come, and its bit with it.  And
\* nb_onenet_get_connect says connected only of a device that the platform has registered
OnAnswersMatch ==
  /\ on.connected => cis.reg
  /\ \A t \in Thread :
       pc[t] = "ret" /\ got[t].from = "on" /\ got[t].value.calm =>
         LET v == got[t].value
         IN  /\ v.result = "EOK" => Required(v.op) \subseteq v.said
             /\ (v.result = "EOK" /\ ~v.mistaken) \/ v.op \in {"on_update", "on_notify"}
                  => NothingOutstanding
=============================================================================
