--------------------------------- MODULE Pipe ---------------------------------
(***************************************************************************)
(* A named pipe opened through DFS (pipe.c): a ring buffer, a mutex around *)
(* it, and a wait queue for each side.  A side that cannot go on releases  *)
(* the mutex, wakes the other side and only then waits.  An rt_schedule    *)
(* that ends a call made here is part of that call's step, and pipe->lock  *)
(* is a mutex without its inheritance: the threads of an instance that use *)
(* the pipe have one priority, among which rt_schedule does not switch and *)
(* nothing is inherited.                                                   *)
(***************************************************************************)
EXTENDS RingBuffer, WaitQueue

CONSTANT PipeByte  \* what is written: no property of a pipe depends on it

ASSUME PipeAssumption ==
  /\ PipeByte \in Byte
  /\ {"reader", "writer"} \subseteq WaitQueueName /\ "pp" \in WaitList

VARIABLE pp  \* the owner of pipe->lock, and the threads that have the pipe open to read
             \* and to write (pipe->readers and pipe->writers count them)

pipe == <<pp, ring, kept, wq>>

PpInit == pp = [lock |-> None, readers |-> {}, writers |-> {}]

PpOp == {"pp_open", "pp_close", "pp_read", "pp_write"}

\* t calls op with a count of bytes; what it tests before it takes the lock
PpCall(t, op, count) ==
  /\ Starts(t, op, "pp")
  /\ \/ op = "pp_open" /\ t \notin pp.readers \cup pp.writers
     \/ op = "pp_close" /\ t \in pp.readers \cup pp.writers
     \/ op = "pp_read" /\ t \in pp.readers /\ pp.writers # {}
     \/ op = "pp_write" /\ t \in pp.writers /\ pp.readers # {}
  /\ call' = [call EXCEPT ![t] =
                [op |-> op, arg |-> count, time |-> "forever", wakeup |-> FALSE]]
  /\ Goto(t, "lock")
  /\ UNCHANGED <<k, got, alive, use, pipe>>

In(t, p, op) == At(t, p) /\ call[t].op = op

\* rt_mutex_take on pipe->lock
PpLock(t) ==
  /\ At(t, "lock")
  /\ pp.lock = None
  /\ pp' = [pp EXCEPT !.lock = t]
  /\ Goto(t, "locked")
  /\ UNCHANGED <<k, call, got, alive, use, ring, kept, wq>>

PpLockWait(t) ==
  /\ At(t, "lock")
  /\ pp.lock # None
  /\ Block(t, call[t], ListSuspend(k, "pp", t, "FIFO"))
  /\ UNCHANGED pipe

PpLocked(t) ==
  /\ At(t, "again") /\ call[t].op \in PpOp /\ pp.lock = t
  /\ Goto(t, "locked")
  /\ UNCHANGED <<k, call, got, alive, use, pipe>>

\* rt_mutex_release: the first waiter is the next owner
Release == pp' = [pp EXCEPT !.lock = IF k.wait["pp"] # <<>> THEN Head(k.wait["pp"]) ELSE None]

Unlock(t, next) ==
  /\ Release
  /\ k' = WakeOne(k, "pp")
  /\ Goto(t, next)
  /\ UNCHANGED <<got, alive, use, ring, kept, wq>>

-----------------------------------------------------------------------------
\* pipe_fops_open: the first one creates the ring buffer
PpOpen(t) ==
  /\ In(t, "locked", "pp_open")
  /\ IF pp.readers \cup pp.writers = {} THEN ring' = EmptyRing /\ kept' = NothingKept
                                       ELSE UNCHANGED <<ring, kept>>
  /\ pp' = IF "pp_read" \in use.calls[t] THEN [pp EXCEPT !.readers = @ \cup {t}]
                                         ELSE [pp EXCEPT !.writers = @ \cup {t}]
  /\ Goto(t, "unlock")
  /\ UNCHANGED <<k, call, got, alive, use, wq>>

\* The queues whose threads have nobody left to wait for
HungUp(p) == {q \in {"reader", "writer"} : IF q = "reader" THEN p.writers = {} ELSE p.readers = {}}

\* rt_wqueue_wakeup of queue q if it is one of them
HungUpWoken(kk, q) == IF q \in HungUp(pp') THEN WqResumed(kk, q) ELSE kk

\* pipe_fops_close: the last of a side wakes the other; the last of all destroys the
\* ring buffer, and with it what was not read
PpClose(t) ==
  /\ In(t, "locked", "pp_close")
  /\ pp' = [pp EXCEPT !.readers = @ \ {t}, !.writers = @ \ {t}]
  /\ wq' = [q \in DOMAIN wq |-> IF q \in HungUp(pp') THEN WqWoken(q) ELSE wq[q]]
  /\ k' = HungUpWoken(HungUpWoken(k, "reader"), "writer")
  /\ IF pp'.readers \cup pp'.writers = {} THEN ring' = EmptyRing /\ kept' = NothingKept
                                          ELSE UNCHANGED <<ring, kept>>
  /\ Goto(t, "unlock")
  /\ UNCHANGED <<call, got, alive, use>>

\* pipe_fops_read under the lock: end of file, some bytes, or none
PpReadEnd(t) ==
  /\ In(t, "locked", "pp_read")
  /\ pp.writers = {}
  /\ Goto(t, "unlock")
  /\ UNCHANGED <<k, call, got, alive, use, pipe>>

PpReadSome(t) ==
  /\ In(t, "locked", "pp_read")
  /\ pp.writers # {} /\ DataLen(ring) > 0
  /\ LET n == Min({call[t].arg, DataLen(ring)})
     IN  ring' = RbGet(ring, n) /\ kept' = KeptGot(kept, n)
  /\ Goto(t, "rouse")
  /\ UNCHANGED <<k, call, got, alive, use, pp, wq>>

\* pipe_fops_write under the lock: nobody to read, or as many bytes as fit
PpWriteEnd(t) ==
  /\ In(t, "locked", "pp_write")
  /\ pp.readers = {}
  /\ Goto(t, "unlock")
  /\ UNCHANGED <<k, call, got, alive, use, pipe>>

PpWriteSome(t) ==
  /\ In(t, "locked", "pp_write")
  /\ pp.readers # {}
  /\ LET s == [i \in 1..call[t].arg |-> PipeByte]
         n == Min({Len(s), SpaceLen(ring)})
     IN  /\ ring' = RbPut(ring, s) /\ kept' = KeptPut(kept, s)
         /\ call' = [call EXCEPT ![t].arg = @ - n, ![t].wakeup = TRUE]
         /\ Goto(t, IF n = Len(s) THEN "unlock" ELSE "release")
  /\ UNCHANGED <<k, got, alive, use, pp, wq>>

PpReadNone(t) ==
  /\ In(t, "locked", "pp_read")
  /\ pp.writers # {} /\ DataLen(ring) = 0
  /\ Unlock(t, "signal")
  /\ UNCHANGED call

PpRelease(t) ==
  /\ At(t, "release")
  /\ Unlock(t, "signal")
  /\ UNCHANGED call

Own(t) == IF call[t].op = "pp_read" THEN "reader" ELSE "writer"
Other(t) == IF call[t].op = "pp_read" THEN "writer" ELSE "reader"

\* rt_wqueue_wakeup of the other side, then on to next
Wakeup(t, next) ==
  /\ wq' = [wq EXCEPT ![Other(t)] = WqWoken(Other(t))]
  /\ k' = WqResumed(k, Other(t))
  /\ Goto(t, next)
  /\ UNCHANGED <<got, alive, use, pp, ring, kept>>

PpSignal(t) == At(t, "signal") /\ Wakeup(t, "wait") /\ UNCHANGED call

PpWait(t) ==
  /\ At(t, "wait")
  /\ WqPass(t, Own(t), "lock") \/ WqBlock(t, Own(t))
  /\ UNCHANGED <<pp, ring, kept>>

PpWaited(t) ==
  /\ call[t] # None /\ call[t].op \in PpOp /\ pp.lock # t
  /\ WqReturn(t, Own(t)) \/ WqUnqueue(t, Own(t), "lock")
  /\ UNCHANGED <<pp, ring, kept>>

\* A read that has bytes wakes the writer before it unlocks, a write that put some
\* wakes the reader after (wakeup)
PpRouse(t) == At(t, "rouse") /\ Wakeup(t, "unlock") /\ UNCHANGED call

PpUnlock(t) ==
  /\ At(t, "unlock")
  /\ IF call[t].wakeup
       THEN Unlock(t, "last") /\ UNCHANGED call
       ELSE Unlock(t, "run") /\ call' = [call EXCEPT ![t] = None]

PpLast(t) == At(t, "last") /\ Wakeup(t, "run") /\ call' = [call EXCEPT ![t] = None]

PpNext ==
  \E t \in Running :
    \/ \E op \in PpOp, n \in Burst : PpCall(t, op, n)
    \/ PpLock(t) \/ PpLockWait(t) \/ PpLocked(t)
    \/ PpOpen(t) \/ PpClose(t)
    \/ PpReadEnd(t) \/ PpReadSome(t) \/ PpReadNone(t)
    \/ PpWriteEnd(t) \/ PpWriteSome(t)
    \/ PpRelease(t) \/ PpSignal(t) \/ PpWait(t) \/ PpWaited(t)
    \/ PpRouse(t) \/ PpUnlock(t) \/ PpLast(t)

-----------------------------------------------------------------------------
PpType ==
  /\ RbType /\ WqType
  /\ pp.lock \in Thread \cup {None}
  /\ pp.readers \subseteq Thread /\ pp.writers \subseteq Thread

\* The threads asleep in rt_wqueue_wait for op, and those in op that will call
\* rt_wqueue_wakeup for the other side
Asleep(op) ==
  {t \in Thread : /\ k.stat[t] = "suspend" /\ call[t] # None /\ call[t].op = op
                  /\ ~Contains(k.wait["pp"], t)}

Waking(op) ==
  {t \in Thread : /\ call[t] # None /\ call[t].op = op
                  /\ pc[t] \in {"release", "signal", "rouse", "unlock", "last"}}

Sides(op) == {t \in Thread : op \in use.calls[t]}

\* pipe_fops_read and pipe_fops_write unlock before they sleep: with one reader and one
\* writer neither is asleep in rt_wqueue_wait while it could go on, or has nobody left to
\* wait for, unless the other is about to call rt_wqueue_wakeup
PpNobodyOversleeps ==
  /\ Cardinality(Sides("pp_read")) = 1 /\ Asleep("pp_read") # {}
       => (DataLen(ring) = 0 /\ pp.writers # {}) \/ Waking("pp_write") # {}
  /\ Cardinality(Sides("pp_write")) = 1 /\ Asleep("pp_write") # {}
       => (SpaceLen(ring) = 0 /\ pp.readers # {}) \/ Waking("pp_read") # {}
=============================================================================
