------------------------------- MODULE MemPool -------------------------------
(***************************************************************************)
(* The memory pools of mempool.c: equal blocks on a free list and a list   *)
(* of threads that wait for one, the last to come first.  The pool counts  *)
(* its waiters by hand, and rt_mp_free looks at the count, not at the      *)
(* list: when the count is too high it "resumes" what it reads in the list *)
(* head's place.  The model takes that resume as refused.                  *)
(***************************************************************************)
EXTENDS Caller

CONSTANTS
  PoolBlock,  \* the blocks of the pool
  MaxPended   \* bound: a thread does not begin to wait when the count is here

ASSUME MemPoolAssumption ==
  IsFiniteSet(PoolBlock) /\ MaxPended \in Nat /\ "mp" \in WaitList

VARIABLE mp  \* block_list (block_free_count is its length), suspend_thread_count, and
             \* the blocks the program holds

MpInit == mp = [free |-> SetToSeq(PoolBlock), pended |-> 0, held |-> {}]

AllocBlock == Calls({"mp_alloc"}, {None})

\* rt_mp_alloc
MpAlloc(t, c) ==
  /\ Tests(t, c, "mp")
  /\ mp.free # <<>>
  /\ mp' = [mp EXCEPT !.free = Tail(@), !.held = @ \cup {Head(mp.free)}]
  /\ UNCHANGED k
  /\ Finish(t, FALSE, None)

MpAllocWait(t, c) ==
  /\ Tests(t, c, "mp")
  /\ mp.free = <<>> /\ c.time # "none" /\ mp.pended < MaxPended
  /\ Block(t, c, [Suspend([k EXCEPT !.err[t] = "EOK"], t) EXCEPT !.wait["mp"] = <<t>> \o @])
  /\ mp' = [mp EXCEPT !.pended = @ + 1]

MpAllocRefused(t, c) ==
  /\ Tests(t, c, "mp")
  /\ mp.free = <<>> /\ c.time = "none"
  /\ Refuse(t)
  /\ UNCHANGED mp

BadMpFail(t) ==
  /\ Failed(t) /\ call[t].op = "mp_alloc"
  /\ Fail(t)
  /\ mp' = [mp EXCEPT !.pended = IF @ > 0 THEN @ - 1 ELSE 0]

\* A wait that a timeout or a detach ended; the count stays as it is
MpFail(t) ==
  /\ Failed(t) /\ call[t].op = "mp_alloc"
  /\ Fail(t)
  /\ UNCHANGED mp

\* The pool with block b back on its list and, if it counts a waiter, one less
Freed(b) ==
  [mp EXCEPT !.free = <<b>> \o @, !.held = @ \ {b}, !.pended = IF @ > 0 THEN @ - 1 ELSE 0]

\* rt_mp_free, by any thread
MpFree(t, b) ==
  /\ Starts(t, "mp_free", "mp") /\ b \in mp.held
  /\ mp' = Freed(b)
  /\ k' = IF mp.pended > 0 THEN WakeOne(k, "mp") ELSE k
  /\ Goto(t, IF mp.pended > 0 THEN "post" ELSE "run")
  /\ UNCHANGED <<call, got, alive, use>>

\* rt_mp_free in an interrupt handler
MpIsrFree(b) ==
  /\ "mp_free" \in use.handler /\ "mp" \in alive /\ b \in mp.held
  /\ mp' = Freed(b)
  /\ k' = IF mp.pended > 0 THEN Schedule(WakeOne(k, "mp")) ELSE k
  /\ UNCHANGED <<pc, call, got, alive, use>>

\* rt_mp_detach, rt_mp_delete: like the detach of the other objects, but the count
\* goes down with each waiter
MpDetach(t) == Detach(t, "mp_detach", "mp", <<"mp">>) /\ UNCHANGED mp

MpDetachWake(t) ==
  /\ ListWake(t) /\ call[t].op = "mp"
  /\ mp' = [mp EXCEPT !.pended = @ - 1]

MpNext ==
  \/ \E t \in Running :
       \/ \E c \in AllocBlock : MpAlloc(t, c) \/ MpAllocWait(t, c) \/ MpAllocRefused(t, c)
       \/ \E b \in PoolBlock : MpFree(t, b)
       \/ MpFail(t) \/ MpDetach(t) \/ MpDetachWake(t)
  \/ \E b \in PoolBlock : MpIsrFree(b)

-----------------------------------------------------------------------------
MpType ==
  /\ mp.free \in Seq(PoolBlock) /\ mp.pended \in 0..MaxPended
  /\ mp.held \subseteq PoolBlock
  /\ Distinct(mp.free) /\ ToSet(mp.free) = PoolBlock \ mp.held

\* rt_mp_free wakes one waiter for each block, and by the count it keeps: the count is
\* never too low, so a thread is in the list only if woken threads will take what is free
MpNobodyStranded ==
  /\ k.wait["mp"] # <<>> => Len(mp.free) <= Cardinality(Underway({"mp_alloc"}))
  /\ mp.pended >= Len(k.wait["mp"])
=============================================================================
