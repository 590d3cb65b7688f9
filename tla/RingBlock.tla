------------------------------- MODULE RingBlock -------------------------------
(***************************************************************************)
(* The ring buffer of blocks (ringblk_buf.c): descriptors in an array, of  *)
(* which those in use are on a list in the order of allocation, and one    *)
(* buffer from which each takes a piece behind the last one's, around the  *)
(* end.  Threads and handlers allocate a block, fill it and put it; others *)
(* get it and free it.  Each function is one critical section, or one      *)
(* store by the block's owner.  The block queues are left out.             *)
(***************************************************************************)
EXTENDS Caller

CONSTANTS
  RbbSize,  \* buf_size
  RbbMax,   \* blk_max_num
  RbbLen    \* the sizes asked for

\* An empty buffer does not compare the size asked for with its own
ASSUME RingBlockAssumption ==
  RbbMax \in Nat \ {0} /\ RbbSize \in Nat /\ RbbLen \subseteq 1..RbbSize

VARIABLE rbb  \* blk: of each descriptor status, buf (an offset) and size; list: blk_list

RbbUnused == [status |-> "UNUSED", buf |-> 0, size |-> 0]

RbbInit == rbb = [blk |-> [i \in 1..RbbMax |-> RbbUnused], list |-> <<>>]

RbbEnd(i) == rbb.blk[i].buf + rbb.blk[i].size

BadRbbPlace(n) ==
  IF rbb.list = <<>> THEN {0}
  ELSE LET head == rbb.blk[Head(rbb.list)].buf
           end  == RbbEnd(Last(rbb.list))
       IN  IF RbbSize - end >= n THEN {end}
           ELSE IF head >= n /\ head <= rbb.blk[Last(rbb.list)].buf THEN {0}
           ELSE {}

(***************************************************************************)
(* Where a block of size n goes, if anywhere: at the start of an empty     *)
(* buffer; else behind the tail, up to the end of the buffer or, when the  *)
(* tail has gone around, up to the head; or at the start, before the head. *)
(***************************************************************************)
RbbPlace(n) ==
  IF rbb.list = <<>> THEN {0}
  ELSE LET head == rbb.blk[Head(rbb.list)].buf
           tail == rbb.blk[Last(rbb.list)].buf
           end  == RbbEnd(Last(rbb.list))
       IN  IF head > tail THEN {x \in {end} : head - end >= n}
           ELSE IF RbbSize - end >= n THEN {end}
           ELSE {x \in {0} : head >= n}

RbbFree == {i \in DOMAIN rbb.blk : rbb.blk[i].status = "UNUSED"}

\* rt_rbb_blk_alloc: find_empty_blk_in_set takes the first
RbbAlloc(n) ==
  /\ RbbFree # {}
  /\ \E buf \in RbbPlace(n) :
       LET i == Min(RbbFree)
       IN  rbb' = [rbb EXCEPT !.blk[i] = [status |-> "INITED", buf |-> buf, size |-> n],
                              !.list = Append(@, i)]

\* rt_rbb_blk_put, by the block's owner
RbbPut(i) ==
  /\ rbb.blk[i].status = "INITED"
  /\ rbb' = [rbb EXCEPT !.blk[i].status = "PUT"]

\* rt_rbb_blk_get: the oldest that is put; it stays on the list
RbbGet ==
  \E n \in DOMAIN rbb.list :
    /\ rbb.blk[rbb.list[n]].status = "PUT"
    /\ \A m \in 1..(n - 1) : rbb.blk[rbb.list[m]].status # "PUT"
    /\ rbb' = [rbb EXCEPT !.blk[rbb.list[n]].status = "GET"]

\* rt_rbb_blk_free, of a block that was got, or that its owner gives up
RbbFreed(i) ==
  /\ rbb.blk[i].status \in {"INITED", "GET"}
  /\ rbb' = [rbb EXCEPT !.blk[i].status = "UNUSED", !.list = RemoveFirst(@, i)]

RbbNext ==
  /\ "rbb" \in use.handler
  /\ \/ \E n \in RbbLen : RbbAlloc(n)
     \/ \E i \in DOMAIN rbb.blk : RbbPut(i) \/ RbbFreed(i)
     \/ RbbGet
  /\ UNCHANGED caller

-----------------------------------------------------------------------------
\* rt_rbb_blk_alloc never gives out bytes of a block in use, in whatever order blocks are
\* put, got and freed; the list has each block in use once, within the buffer
RbbBlocksApart ==
  /\ Distinct(rbb.list)
  /\ ToSet(rbb.list) = DOMAIN rbb.blk \ RbbFree
  /\ \A i \in ToSet(rbb.list) :
       /\ RbbEnd(i) <= RbbSize
       /\ \A j \in ToSet(rbb.list) \ {i} :
            RbbEnd(i) <= rbb.blk[j].buf \/ RbbEnd(j) <= rbb.blk[i].buf
=============================================================================
