------------------------------ MODULE ServicesMC ------------------------------
(***************************************************************************)
(* Instances of Services for TLC: an urgent thread hi, two threads a and b *)
(* of equal priority and idle.  Each behaviour takes one of the scenarios: *)
(* what each of the three calls, what interrupt handlers do, and how long  *)
(* a call may wait.                                                        *)
(***************************************************************************)
EXTENDS Services, TLC

CONSTANTS idle, hi, a, b, v1, v2, b1, b2, p1, p2, w1, w2, e1, e2

MCThread == {idle, hi, a, b}
MCPrio == {3, 20, 255}
MCInitPrio == [t \in MCThread |-> CASE t = idle -> 255 [] t = hi -> 3 [] OTHER -> 20]
MCBoot == [p \in MCPrio |-> CASE p = 255 -> <<idle>> [] p = 3 -> <<hi>> [] OTHER -> <<a, b>>]
MCWait == {"mb.recv", "mb.send", "mq", "ev", "mp", "dq.push", "dq.pop", "cp", "pp"}
MCBlock == <<b1, b2>>
MCEvBit == {e1, e2} \cup OnBit
MCWants ==
  {[want |-> {e1}, all |-> FALSE, clear |-> TRUE],
   [want |-> {e1, e2}, all |-> TRUE, clear |-> TRUE],
   [want |-> {e1, e2}, all |-> FALSE, clear |-> FALSE]}

Scenario(ofHi, ofA, ofB, handler, times, flag) ==
  [calls |-> [t \in MCThread |->
                CASE t = hi -> ofHi [] t = a -> ofA [] t = b -> ofB [] OTHER -> {}],
   handler |-> handler, times |-> times, flag |-> flag, left |-> 1]

\* The OneNET client is not called with answers to earlier calls outstanding
Calm(scenario) == [scenario EXCEPT !.left = 0]

\* What a thread does that has no part: it waits for a completion nobody signals
Away == {"cp_wait"}

MCUses ==
  {\* mailbox
   Scenario({"mb_send", "mb_reset"}, {"mb_recv"}, {"mb_recv", "mb_send"}, {}, {"timed"}, "FIFO"),
   Scenario({"mb_recv"}, {"mb_send"}, {"mb_recv", "mb_detach"}, {"mb_send"}, {"none", "forever"}, "PRIO"),
   \* message queue
   Scenario({"mq_recv"}, {"mq_send", "mq_recv"}, {"mq_urgent"}, {"mq_send"}, {"none", "forever"}, "FIFO"),
   Scenario({"mq_urgent", "mq_reset", "sleep"}, {"mq_send"}, {"mq_recv", "mq_detach"}, {}, {"timed"}, "FIFO"),
   \* event
   Scenario({"ev_recv"}, {"ev_recv"}, {"sleep"}, {"ev_send"}, {"none", "forever"}, "PRIO"),
   Scenario({"ev_recv"}, {"ev_send"}, {"ev_recv", "ev_reset", "ev_detach"}, {}, {"timed"}, "FIFO"),
   \* memory pool
   Scenario({"mp_alloc"}, {"mp_alloc"}, {"mp_alloc"}, {"mp_free"}, {"timed"}, "FIFO"),
   Scenario({"mp_alloc", "sleep"}, {"mp_free"}, {"mp_alloc", "mp_detach"}, {},
            {"none", "timed"}, "FIFO"),
   \* data queue
   Scenario({"dq_push"}, {"dq_push"}, {"dq_pop"}, {}, {"timed"}, "FIFO"),
   Scenario({"dq_push", "dq_pop"}, {"dq_pop", "dq_push"}, {"dq_pop", "dq_push"}, {}, {"none", "forever"}, "FIFO"),
   Scenario({"dq_push"}, {"dq_pop"}, {"dq_pop", "dq_reset"}, {"dq_push", "dq_pop"}, {"timed"}, "FIFO"),
   \* completion
   Scenario({"cp_wait", "sleep"}, {"cp_done"}, {"cp_done"}, {"cp_done"}, {"none", "timed"}, "FIFO"),
   Scenario({"sleep"}, {"cp_wait"}, {"cp_done"}, {"cp_done"}, {"timed", "forever"}, "FIFO"),
   \* pipe and ring buffer
   Scenario(Away, {"pp_read", "pp_open", "pp_close"}, {"pp_write", "pp_open"}, {}, {"forever"}, "FIFO"),
   Scenario(Away, {"pp_read", "pp_open"}, {"pp_write", "pp_open", "pp_close"}, {}, {"forever"}, "FIFO"),
   Scenario(Away, {}, {}, {"rb_put", "rb_force", "rb_char_force"}, {"forever"}, "FIFO"),
   \* work queue
   Scenario({"wk_work"}, {"wk_submit"}, {"wk_submit", "wk_cancel"}, {"wk_submit"}, {"forever"}, "FIFO"),
   Scenario({"wk_submit", "sleep"}, {"wk_work"}, {"wk_submit", "wk_cancel"}, {"wk_submit"}, {"forever"}, "FIFO"),
   Scenario({"wk_work"}, {"wk_submit", "wk_critical"}, {"wk_cancel_all"}, {}, {"forever"}, "FIFO"),
   \* heap
   Scenario({"hp_malloc"}, {}, {}, {}, {"forever"}, "FIFO"),
   Scenario(Away, {"hp_malloc", "hp_realloc"}, {"hp_malloc"}, {}, {"forever"}, "FIFO"),
   \* OneNET client
   Calm(Scenario({"on_start", "on_open"}, {}, {}, {}, {"forever"}, "FIFO")),
   Scenario({"on_start", "on_close"}, {}, {}, {}, {"forever"}, "FIFO"),
   Calm(Scenario({"on_start", "on_delete"}, {}, {}, {}, {"forever"}, "FIFO")),
   Calm(Scenario({"on_start", "on_update"}, {}, {}, {}, {"forever"}, "FIFO")),
   Calm(Scenario({"on_start", "on_notify"}, {}, {}, {}, {"forever"}, "FIFO")),
   \* serial device and ring of blocks
   Scenario({"sr_read"}, {}, {"sr_flush"}, {"sr_rx"}, {"forever"}, "FIFO"),
   Scenario({"sr_write"}, {}, {"sr_flush"}, {"sr_rx"}, {"forever"}, "FIFO"),
   Scenario(Away, {"sr_read"}, {"sleep", "sr_flush"}, {"sr_idle"}, {"forever"}, "FIFO"),
   Scenario(Away, {}, {}, {"rbb"}, {"forever"}, "FIFO"),
   \* several objects: the same threads wait in each
   Scenario({"cp_wait"}, {"mb_send", "cp_done"}, {"mb_recv"}, {}, {"timed"}, "FIFO"),
   Scenario({"mb_recv"}, {"mp_alloc", "ev_send"}, {"mb_send", "ev_recv", "mp_free"}, {}, {"forever"}, "FIFO"),
   Scenario({"mq_recv"}, {"mq_send", "dq_pop"}, {"dq_push"}, {}, {"forever"}, "FIFO")}

\* What a theorem of Queues_proofs asks of a use
ASSUME MCUsesWriteAlone == \A u \in MCUses : WritesAlone(u)

\* Two threads submit works, and the work thread runs them
MCSubmitters == {Scenario({"wk_work"}, {"wk_submit"}, {"wk_submit"}, {}, {"forever"}, "FIFO")}

Symmetry == Permutations({v1, v2})
=============================================================================
