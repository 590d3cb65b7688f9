------------------------------ MODULE WaitQueue ------------------------------
(***************************************************************************)
(* The wait queues of the drivers (waitqueue.c).  A thread in              *)
(* rt_wqueue_wait is suspended but on no kernel list; a node on its stack  *)
(* is in the queue and stays there until the thread runs again.  The flag  *)
(* remembers a wakeup that comes before the wait.  Only waits without a    *)
(* time are modelled: no caller in the repository gives one.               *)
(***************************************************************************)
EXTENDS Caller

CONSTANT WaitQueueName

VARIABLE wq  \* of each queue: flag is RT_WQ_FLAG_WAKEUP, nodes the threads of waiting_list

WqInit == wq = [q \in WaitQueueName |-> [flag |-> FALSE, nodes |-> <<>>]]

BadWqWoken(q) ==
  IF wq[q].nodes = <<>> THEN wq[q] ELSE [flag |-> TRUE, nodes |-> Tail(wq[q].nodes)]

\* rt_wqueue_wakeup on queue q: the flag is set, the first node comes off the list and its
\* thread, if it is suspended, is resumed; __wqueue_default_wake accepts every key
WqWoken(q) == [flag |-> TRUE, nodes |-> IF wq[q].nodes = <<>> THEN <<>> ELSE Tail(wq[q].nodes)]

WqResumed(kk, q) == IF wq[q].nodes = <<>> THEN kk ELSE Resume(kk, Head(wq[q].nodes))

\* rt_wqueue_wait with no condition finds the flag set: "already wakeup"
WqPass(t, q, next) ==
  /\ wq[q].flag
  /\ wq' = [wq EXCEPT ![q].flag = FALSE]
  /\ Goto(t, next)
  /\ UNCHANGED <<k, call, got, alive, use>>

WqBlock(t, q) ==
  /\ ~wq[q].flag
  /\ wq' = [wq EXCEPT ![q].nodes = Append(@, t)]
  /\ Block(t, call[t], Suspend(k, t))

\* ... running again: the flag is cleared, then the node taken off if it is still on
WqReturn(t, q) ==
  /\ At(t, "again")
  /\ wq' = [wq EXCEPT ![q].flag = FALSE]
  /\ Goto(t, "unqueue")
  /\ UNCHANGED <<k, call, got, alive, use>>

WqUnqueue(t, q, next) ==
  /\ At(t, "unqueue")
  /\ wq' = [wq EXCEPT ![q].nodes = RemoveFirst(@, t)]
  /\ Goto(t, next)
  /\ UNCHANGED <<k, call, got, alive, use>>

WqType ==
  /\ wq \in [WaitQueueName -> [flag : BOOLEAN, nodes : Seq(Thread)]]
  /\ \A q \in WaitQueueName : Distinct(wq[q].nodes)
=============================================================================
