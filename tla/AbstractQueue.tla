---------------------------- MODULE AbstractQueue ----------------------------
(***************************************************************************)
(* What the mailbox, the message queue and the data queue promise: values  *)
(* leave in the order they came, urgent ones first, each to one thread,    *)
(* never more than Capacity of them wait, and none is lost except by a     *)
(* reset, where there is one.                                              *)
(***************************************************************************)
EXTENDS Naturals, Sequences

CONSTANTS
  Actor, Item, Nothing, Capacity,
  Ways  \* what else there is: "urgent" values, a "reset", a "handler" that takes values

VARIABLES
  queue,  \* the values that wait, oldest first
  taken   \* the value each thread has taken and not yet returned with

Init == queue = <<>> /\ taken = [t \in Actor |-> Nothing]

Put(v) ==
  /\ Len(queue) < Capacity
  /\ queue' = Append(queue, v)
  /\ UNCHANGED taken

PutFirst(v) ==
  /\ "urgent" \in Ways
  /\ Len(queue) < Capacity
  /\ queue' = <<v>> \o queue
  /\ UNCHANGED taken

Get(t) ==
  /\ queue # <<>> /\ taken[t] = Nothing
  /\ taken' = [taken EXCEPT ![t] = Head(queue)]
  /\ queue' = Tail(queue)

Deliver(t) ==
  /\ taken[t] # Nothing
  /\ taken' = [taken EXCEPT ![t] = Nothing]
  /\ UNCHANGED queue

\* A handler is done with a value in the step that takes it
Handle ==
  /\ "handler" \in Ways /\ queue # <<>>
  /\ queue' = Tail(queue)
  /\ UNCHANGED taken

Clear ==
  /\ "reset" \in Ways /\ queue # <<>>
  /\ queue' = <<>>
  /\ UNCHANGED taken

Next ==
  \/ \E v \in Item : Put(v) \/ PutFirst(v)
  \/ \E t \in Actor : Get(t) \/ Deliver(t)
  \/ Handle \/ Clear

Spec == Init /\ [][Next]_<<queue, taken>>
=============================================================================
