------------------------------ MODULE DataQueue ------------------------------
(***************************************************************************)
(* The data queues of the drivers (dataqueue.c): a ring of data pointers   *)
(* indexed by two counters that only grow.  A pop wakes a waiting pusher   *)
(* only at or below the low water mark, and a wait that has to be repeated *)
(* is repeated with its full time.  The evt_notify callback is left out.   *)
(***************************************************************************)
EXTENDS Caller

CONSTANTS
  Datum,       \* the data pushed
  DqSize,      \* queue->size
  Lwm,         \* queue->lwm
  IndexRange,  \* number of values of put_index and get_index, 2^16
  MaxPush      \* bound: nothing is pushed when put_index is here

ASSUME DataQueueAssumption ==
  /\ DqSize \in Nat \ {0} /\ Lwm \in Nat /\ IndexRange \in Nat
  /\ MaxPush \in 0..(IndexRange - 1)
  /\ None \notin Datum \cup [from : {"dq"}, value : Datum]
  /\ {"dq.push", "dq.pop"} \subseteq WaitList

VARIABLE dq  \* put_index, get_index, and the ring

DqInit == dq = [put |-> 0, get |-> 0, ring |-> [i \in 0..(DqSize - 1) |-> None]]

PushDatum == Calls({"dq_push"}, Datum)
PopDatum  == Calls({"dq_pop"}, {None})

\* The loop's test; unlike the ipc.c objects the queue does not shorten the time
DqTests(t, c) ==
  \/ Enters(t, c, "dq")
  \/ At(t, "again") /\ k.err[t] = "EOK" /\ c = call[t]

Filled == dq.put - dq.get

\* rt_data_queue_push
DqPush(t, c) ==
  /\ DqTests(t, c)
  /\ Filled # DqSize /\ dq.put < MaxPush
  /\ dq' = [dq EXCEPT !.ring[dq.put % DqSize] = c.arg, !.put = (@ + 1) % IndexRange]
  /\ k' = WakeOne(k, "dq.pop")
  /\ Finish(t, k.wait["dq.pop"] # <<>>, None)

DqPushWait(t, c) ==
  /\ DqTests(t, c)
  /\ Filled = DqSize /\ c.time # "none"
  /\ Block(t, c, ListSuspend([k EXCEPT !.err[t] = "EOK"], "dq.push", t, "FIFO"))
  /\ UNCHANGED dq

DqPushRefused(t, c) ==
  /\ DqTests(t, c)
  /\ Filled = DqSize /\ c.time = "none"
  /\ Refuse(t)
  /\ UNCHANGED dq

\* rt_data_queue_push in an interrupt handler
DqIsrPush(v) ==
  /\ "dq_push" \in use.handler
  /\ Filled # DqSize /\ dq.put < MaxPush
  /\ dq' = [dq EXCEPT !.ring[dq.put % DqSize] = v, !.put = (@ + 1) % IndexRange]
  /\ k' = IF k.wait["dq.pop"] # <<>> THEN Schedule(WakeOne(k, "dq.pop")) ELSE k
  /\ UNCHANGED <<pc, call, got, alive, use>>

\* What a pop sees at the low water mark
WakesPusher == Filled - 1 <= Lwm /\ k.wait["dq.push"] # <<>>

\* rt_data_queue_pop
DqPop(t, c) ==
  /\ DqTests(t, c)
  /\ dq.get # dq.put
  /\ dq' = [dq EXCEPT !.get = (@ + 1) % IndexRange]
  /\ k' = IF WakesPusher THEN WakeOne(k, "dq.push") ELSE k
  /\ Finish(t, WakesPusher, [from |-> "dq", value |-> dq.ring[dq.get % DqSize]])

DqPopWait(t, c) ==
  /\ DqTests(t, c)
  /\ dq.get = dq.put /\ c.time # "none"
  /\ Block(t, c, ListSuspend([k EXCEPT !.err[t] = "EOK"], "dq.pop", t, "FIFO"))
  /\ UNCHANGED dq

DqPopRefused(t, c) ==
  /\ DqTests(t, c)
  /\ dq.get = dq.put /\ c.time = "none"
  /\ Refuse(t)
  /\ UNCHANGED dq

\* rt_data_queue_pop in an interrupt handler, as a transmit-complete handler does
DqIsrPop ==
  /\ "dq_pop" \in use.handler
  /\ dq.get # dq.put
  /\ dq' = [dq EXCEPT !.get = (@ + 1) % IndexRange]
  /\ k' = IF WakesPusher THEN Schedule(WakeOne(k, "dq.push")) ELSE k
  /\ UNCHANGED <<pc, call, got, alive, use>>

DqFail(t) ==
  /\ Failed(t) /\ call[t].op \in {"dq_push", "dq_pop"}
  /\ Fail(t)
  /\ UNCHANGED dq

(***************************************************************************)
(* rt_data_queue_reset: with the scheduler locked the waiters of both      *)
(* lists are woken as a detach wakes them; the data stay in the queue.     *)
(* The rt_schedule of rt_exit_critical and the one after it are one.       *)
(***************************************************************************)
DqReset(t) ==
  /\ Starts(t, "dq_reset", "dq")
  /\ k' = [k EXCEPT !.lock = @ + 1]
  /\ call' = [call EXCEPT ![t] = [op |-> "dq_reset", arg |-> <<"dq.pop", "dq.push">>,
                                  time |-> "none"]]
  /\ Goto(t, "detach")
  /\ UNCHANGED <<got, alive, use, dq>>

DqResetEnd(t) ==
  /\ At(t, "detach") /\ call[t].op = "dq_reset" /\ Left(t) = <<>>
  /\ k' = [k EXCEPT !.lock = @ - 1]
  /\ call' = [call EXCEPT ![t] = None]
  /\ Goto(t, "post")
  /\ UNCHANGED <<got, alive, use, dq>>

DqNext ==
  \/ \E t \in Running :
       \/ \E c \in PushDatum : DqPush(t, c) \/ DqPushWait(t, c) \/ DqPushRefused(t, c)
       \/ \E c \in PopDatum : DqPop(t, c) \/ DqPopWait(t, c) \/ DqPopRefused(t, c)
       \/ DqFail(t) \/ DqReset(t) \/ DqResetEnd(t)
  \/ \E v \in Datum : DqIsrPush(v)
  \/ DqIsrPop

-----------------------------------------------------------------------------
DqType ==
  /\ dq.put \in 0..MaxPush /\ dq.get \in 0..dq.put
  /\ dq.ring \in [0..(DqSize - 1) -> Datum \cup {None}]

DqCalls == {"dq_push", "dq_pop"}

\* Who waits to pop waits for an empty queue, or one whose data woken threads will
\* take; with a popper asleep a pusher may sleep only if some thread is on its way.  Not
\* claimed is that a pusher is never asleep beside a free place: a pop wakes one pusher at
\* most, and none above the low water mark
DqNobodyStranded ==
  /\ k.wait["dq.pop"] # <<>> => Filled <= Cardinality(Underway({"dq_pop"}))
  /\ k.wait["dq.pop"] # <<>> /\ k.wait["dq.push"] # <<>> => Underway(DqCalls) # {}

DqContents == [i \in 1..Filled |-> dq.ring[(dq.get + i - 1) % DqSize]]

DqQueue == INSTANCE AbstractQueue
  WITH Actor <- Thread, Item <- Datum, Nothing <- None, Capacity <- DqSize,
       Ways <- {"handler"}, queue <- DqContents, taken <- Taken("dq")
=============================================================================
