------------------------------- MODULE Services -------------------------------
(***************************************************************************)
(* The blocking objects of ipc.c and mempool.c, the queues and the buffers *)
(* of the drivers, a serial device, the heap and the OneNET client, over   *)
(* one kernel: the threads of one system call them in any order, wait in   *)
(* them on one node and with one timer each, and are interrupted by        *)
(* handlers that call them too.  A step is a step of one object's          *)
(* functions, or one that no object has a part in.                         *)
(***************************************************************************)
EXTENDS Mailbox, MessageQueue, Event, MemPool, DataQueue, Completion, Pipe, WorkQueue,
        SmallMem, OneNet, Serial, RingBlock

Object == {"mb", "mq", "ev", "mp", "dq", "cp", "pp", "wk", "heap", "sr"}

vars == <<caller, mb, mq, hand, ev, mp, dq, cp, pipe, wk, heap, onenet, serial, rbb>>

Init ==
  /\ CallerInit(Object)
  /\ MbInit /\ MqInit /\ EvInit /\ MpInit /\ DqInit /\ CpInit
  /\ RbInit /\ WqInit /\ PpInit /\ WkInit /\ HpInit /\ OnInit /\ SrInit /\ RbbInit

Next ==
  \/ CallerStep /\ UNCHANGED <<mb, mq, hand, ev, mp, dq, cp, pipe, wk, heap, onenet, serial, rbb>>
  \/ MbNext /\ UNCHANGED <<mq, hand, ev, mp, dq, cp, pipe, wk, heap, onenet, serial, rbb>>
  \/ MqNext /\ UNCHANGED <<mb, ev, mp, dq, cp, pipe, wk, heap, onenet, serial, rbb>>
  \/ EvNext /\ UNCHANGED <<mb, mq, hand, mp, dq, cp, pipe, wk, heap, onenet, serial, rbb>>
  \/ MpNext /\ UNCHANGED <<mb, mq, hand, ev, dq, cp, pipe, wk, heap, onenet, serial, rbb>>
  \/ DqNext /\ UNCHANGED <<mb, mq, hand, ev, mp, cp, pipe, wk, heap, onenet, serial, rbb>>
  \/ CpNext /\ UNCHANGED <<mb, mq, hand, ev, mp, dq, pipe, wk, heap, onenet, serial, rbb>>
  \/ RbNext /\ UNCHANGED <<mb, mq, hand, ev, mp, dq, cp, pp, wq, wk, heap, onenet, serial, rbb>>
  \/ PpNext /\ UNCHANGED <<mb, mq, hand, ev, mp, dq, cp, wk, heap, onenet, serial, rbb>>
  \/ WkNext /\ UNCHANGED <<mb, mq, hand, ev, mp, dq, cp, pipe, heap, onenet, serial, rbb>>
  \/ HpNext /\ UNCHANGED <<mb, mq, hand, ev, mp, dq, cp, pipe, wk, onenet, serial, rbb>>
  \/ OnNext /\ UNCHANGED <<mb, mq, hand, mp, dq, cp, pipe, wk, heap, serial, rbb>>
  \/ SrNext /\ UNCHANGED <<mb, mq, hand, ev, mp, dq, pp, ring, kept, wk, heap, onenet, rbb>>
  \/ RbbNext /\ UNCHANGED <<mb, mq, hand, ev, mp, dq, cp, pipe, wk, heap, onenet, serial>>

Spec == Init /\ [][Next]_vars

-----------------------------------------------------------------------------
Labels ==
  {"link", "copy", "done", "lock", "locked", "release", "signal", "wait", "unqueue", "rouse",
   "unlock", "last", "wk_suspend", "wk_pick", "wk_do", "wk_resume", "hp_grow", "hp_move",
   "on_objects", "on_open", "on_asked", "on_close", "on_recv", "on_got",
   "sr_length", "sr_wake", "sr_get", "sr_wait", "sr_put", "sr_busy"}

(***************************************************************************)
(* The calls a thread can be in, by where it is.  Those in WaitCall wait;  *)
(* rt_event_send replaces what a waiting thread wants by what it receives. *)
(***************************************************************************)
EventCall == [op : {"ev_recv"}, arg : EvWish, time : AllTimes]
ClientCall == [op : OnOps, arg : EvWish, time : {"timed"}]
PipeCall == [op : PpOp, arg : Nat, time : {"forever"}, wakeup : BOOLEAN]
SerialCall(ops) == [op : ops, arg : Nat, time : {"forever"}, some : BOOLEAN]

WaitCall ==
  [op : {"mb_send"}, arg : Mail, time : AllTimes] \cup [op : {"dq_push"}, arg : Datum, time : AllTimes]
    \cup [op : {"mb_recv", "mq_recv", "mp_alloc", "dq_pop", "cp_wait", "wk_work"},
         arg : {None}, time : AllTimes]
    \cup EventCall \cup ClientCall \cup PipeCall \cup SerialCall({"sr_read", "sr_write"})

DetachCall == [op : Object \cup {"dq_reset"}, arg : Seq(WaitList), time : {"none"}]

CallFits(p, c) ==
  /\ p \in {"run", "post", "ret", "done", "wk_suspend", "wk_pick", "wk_do", "wk_resume",
           "sr_length", "sr_wake"} => c = None
  /\ p \in {"schedule", "again"} => c \in WaitCall
  /\ p \in {"detach", "wake"} => c \in DetachCall
  /\ p = "wake" => c.arg # <<>>
  /\ p = "link" => c \in [op : {"mq_send", "mq_urgent"}, arg : Message, time : {"none"}]
  /\ p = "copy" => c \in [op : {"mq_recv"}, arg : {None}, time : AllTimes]
  /\ p \in {"lock", "locked", "release", "signal", "wait", "rouse", "unlock", "last"}
       => c \in PipeCall
  /\ p = "unqueue" => c \in PipeCall \cup SerialCall({"sr_read"})
  /\ p \in {"on_objects", "on_open", "on_asked", "on_close", "on_recv", "on_got"} => c \in ClientCall
  /\ p \in {"sr_get", "sr_wait"} => c \in SerialCall({"sr_read"})
  /\ p \in {"sr_put", "sr_busy"} => c \in SerialCall({"sr_write"})

(***************************************************************************)
(* The type of every object's state, and the invariant of the kernel they  *)
(* share: whatever mix of calls is made, every thread is on one list at    *)
(* most, the one its state says, and its timer runs only while it waits.   *)
(***************************************************************************)
TypeOK ==
  /\ CallerType(Labels)
  /\ \A t \in Thread : CallFits(pc[t], call[t])
  /\ MbType /\ MqType /\ EvType /\ MpType /\ DqType /\ CpType /\ PpType /\ WkType /\ OnType
  /\ SrType

(***************************************************************************)
(* No thread sleeps on an object that has what it waits for, unless a      *)
(* thread already woken is on its way to take it: of the resume that a     *)
(* send, receive, free, push or done owes the other side (ipc.c,           *)
(* mempool.c, dataqueue.c, completion.c, serial.c), none is forgotten,     *)
(* whatever timeouts, resets and detaches come in between.  Narrower than  *)
(* that are three parts: threads that wait to push to a data queue may     *)
(* sleep beside free places, but not while a popper sleeps too; of the     *)
(* count of a pool's waiters it says that it is never too low; and the     *)
(* serial device is claimed for a single reader.                           *)
(***************************************************************************)
NobodyStranded ==
  /\ MbNobodyStranded /\ MqNobodyStranded /\ EvNobodySatisfiedWaits
  /\ MpNobodyStranded /\ DqNobodyStranded /\ CpNobodyStranded /\ SrNobodyStranded

(***************************************************************************)
(* The mailbox's and the data queue's ring and the message queue's linked  *)
(* blocks are first-in first-out queues, with a front door for             *)
(* rt_mq_urgent: no value is lost, doubled or overtaken, across wrapped    *)
(* indices, concurrent copies, resets and retries.                         *)
(***************************************************************************)
QueuesInOrder == MbQueue!Spec /\ MqQueue!Spec /\ DqQueue!Spec

(***************************************************************************)
(* The buffers of the drivers (ringbuffer.c, the FIFO of serial.c,         *)
(* ringblk_buf.c): bytes come out as they went in, the oldest lost first   *)
(* where one is full, and no two blocks in use share a byte.  A ring       *)
(* buffer that rt_ringbuffer_put_force has emptied by mistake (emptied)    *)
(* is left aside until its next reset.                                     *)
(***************************************************************************)
BuffersSound == RbKeepsBytes /\ SrKeepsBytes /\ RbbBlocksApart
=============================================================================
