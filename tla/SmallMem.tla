------------------------------- MODULE SmallMem -------------------------------
(***************************************************************************)
(* The heap of RT_USING_SMALL_MEM (mem.c): headers that tile one area,     *)
(* each with the offsets of its neighbours, a first-fit search from the    *)
(* lowest free header, and holes merged with their neighbours when they    *)
(* appear.  Offsets and sizes are in words of RT_ALIGN_SIZE.  heap_sem is  *)
(* held through each function, so each is one step but for an rt_realloc   *)
(* that must move its block: it allocates, copies and frees under three    *)
(* separate takes.                                                         *)
(***************************************************************************)
EXTENDS Caller

CONSTANTS
  HeapSize,  \* mem_size_aligned
  Header,    \* SIZEOF_STRUCT_MEM
  MinSize,   \* MIN_SIZE_ALIGNED
  Request    \* the sizes asked for

ASSUME SmallMemAssumption ==
  /\ Header \in Nat \ {0} /\ MinSize \in Nat \ {0} /\ HeapSize \in Nat
  /\ HeapSize > MinSize
  /\ Request \subseteq 1..HeapSize

VARIABLE heap  \* blk: the headers by their offsets; lfree; history, held: the blocks the
               \* threads have, each with its header and the size it was asked with

HeapEnd == HeapSize + Header

\* rt_system_heap_init
HpInit ==
  heap = [blk |-> [m \in {0, HeapEnd} |->
                     IF m = 0 THEN [used |-> FALSE, next |-> HeapEnd, prev |-> 0]
                     ELSE [used |-> TRUE, next |-> HeapEnd, prev |-> HeapEnd]],
          lfree |-> 0, held |-> {}]

Room(h, m) == h.blk[m].next - (m + Header)

\* The header after m is told that m is before it
TellNext(blk, m) == [blk EXCEPT ![blk[m].next].prev = m]

BadJoin(h, m, n) ==
  LET blk == [x \in DOMAIN h.blk \ {n} |->
                IF x = m THEN [h.blk[m] EXCEPT !.next = h.blk[n].next] ELSE h.blk[x]]
  IN  [h EXCEPT !.blk = TellNext(blk, m)]

\* m takes in n, the hole after it
Join(h, m, n) ==
  LET blk == [x \in DOMAIN h.blk \ {n} |->
                IF x = m THEN [h.blk[m] EXCEPT !.next = h.blk[n].next] ELSE h.blk[x]]
  IN  [h EXCEPT !.blk = TellNext(blk, m), !.lfree = IF @ = n THEN m ELSE @]

\* plug_holes: forward, then backward
PlugHoles(h, m) ==
  LET n == h.blk[m].next
      f == IF ~h.blk[n].used /\ n # HeapEnd THEN Join(h, m, n) ELSE h
      p == f.blk[m].prev
  IN  IF p # m /\ ~f.blk[p].used THEN Join(f, p, m) ELSE f

\* A free header after size words of m; the end of the heap is not told
Split(h, m, size) ==
  LET n == m + Header + size
      blk == [x \in DOMAIN h.blk \cup {n} |->
                IF x = n THEN [used |-> FALSE, next |-> h.blk[m].next, prev |-> m]
                ELSE IF x = m THEN [h.blk[m] EXCEPT !.next = n] ELSE h.blk[x]]
  IN  [h EXCEPT !.blk = IF h.blk[m].next = HeapEnd THEN blk ELSE TellNext(blk, n)]

-----------------------------------------------------------------------------
\* rt_malloc: where a request fits, searched from lfree on and short of the last words
AtLeast(size) == Max({size, MinSize})

Fits(size) ==
  {m \in DOMAIN heap.blk :
     /\ m >= heap.lfree /\ m < HeapSize - AtLeast(size)
     /\ ~heap.blk[m].used /\ Room(heap, m) >= AtLeast(size)}

Allocated(m, size) ==
  LET s == IF Room(heap, m) >= size + Header + MinSize THEN Split(heap, m, size) ELSE heap
      u == [s EXCEPT !.blk[m].used = TRUE]
      free == {x \in DOMAIN u.blk : x >= m /\ (~u.blk[x].used \/ x = HeapEnd)}
  IN  [u EXCEPT !.lfree = IF @ = m THEN Min(free) ELSE @]

\* rt_free of the block at m
HpFreed(h, m) ==
  PlugHoles([h EXCEPT !.blk[m].used = FALSE, !.lfree = Min({@, m})], m)

Hold(h, m, size) == [h EXCEPT !.held = @ \cup {[at |-> m, size |-> size]}]
Drop(h, b) == [h EXCEPT !.held = @ \ {b}]

\* A request that fits nowhere returns RT_NULL and changes nothing
HpMalloc(t, size) ==
  /\ Starts(t, "hp_malloc", "heap") /\ Fits(size) # {}
  /\ LET m == Min(Fits(size)) IN heap' = Hold(Allocated(m, AtLeast(size)), m, size)
  /\ UNCHANGED caller

HpFree(t, b) ==
  /\ Starts(t, "hp_malloc", "heap") /\ b \in heap.held
  /\ heap' = Drop(HpFreed(heap, b.at), b)
  /\ UNCHANGED caller

\* rt_realloc to less: what is left over becomes a hole, if it is large enough
HpShrink(t, b, size) ==
  /\ Starts(t, "hp_realloc", "heap") /\ b \in heap.held
  /\ size + Header + MinSize < Room(heap, b.at)
  /\ heap' = Hold(Drop(PlugHoles(Split(heap, b.at, size), b.at + Header + size), b), b.at, size)
  /\ UNCHANGED caller

\* ... to anything else but the size it has
HpGrow(t, b, size) ==
  /\ Starts(t, "hp_realloc", "heap") /\ b \in heap.held
  /\ size # Room(heap, b.at) /\ size + Header + MinSize >= Room(heap, b.at)
  /\ heap' = Drop(heap, b)
  /\ call' = [call EXCEPT ![t] = [op |-> "hp_realloc", arg |-> <<b, size>>, time |-> "none"]]
  /\ Goto(t, "hp_grow")
  /\ UNCHANGED <<k, got, alive, use>>

\* ... a new block, or RT_NULL and the old one stays
HpGrowMalloc(t) ==
  /\ At(t, "hp_grow")
  /\ LET old == call[t].arg[1]
         size == call[t].arg[2]
         m == Min(Fits(size))
     IN  IF Fits(size) = {}
           THEN /\ heap' = Hold(heap, old.at, old.size)
                /\ call' = [call EXCEPT ![t] = None]
                /\ Goto(t, "run")
           ELSE /\ heap' = Allocated(m, AtLeast(size))
                /\ call' = [call EXCEPT ![t].arg = <<old, [at |-> m, size |-> size]>>]
                /\ Goto(t, "hp_move")
  /\ UNCHANGED <<k, got, alive, use>>

HpGrowFree(t) ==
  /\ At(t, "hp_move")
  /\ LET n == call[t].arg[2]
     IN  heap' = Hold(HpFreed(heap, call[t].arg[1].at), n.at, n.size)
  /\ call' = [call EXCEPT ![t] = None]
  /\ Goto(t, "run")
  /\ UNCHANGED <<k, got, alive, use>>

HpNext ==
  \E t \in Running :
    \/ \E s \in Request : HpMalloc(t, s)
    \/ \E b \in heap.held : HpFree(t, b) \/ \E s \in Request : HpShrink(t, b, s) \/ HpGrow(t, b, s)
    \/ HpGrowMalloc(t) \/ HpGrowFree(t)

-----------------------------------------------------------------------------
\* The blocks in the hands of a thread, those in an rt_realloc included
Blocks ==
  heap.held \cup {call[t].arg[1] : t \in {x \in Thread : pc[x] \in {"hp_grow", "hp_move"}}}
            \cup {call[t].arg[2] : t \in {x \in Thread : pc[x] = "hp_move"}}

Headers == DOMAIN heap.blk \ {HeapEnd}

\* The headers tile the heap and know their neighbours
HeapTiled ==
  /\ {0, HeapEnd} \subseteq DOMAIN heap.blk
  /\ \A m \in Headers :
       LET n == heap.blk[m].next
       IN  /\ n \in DOMAIN heap.blk
           /\ \A x \in DOMAIN heap.blk : x > m => x >= n
           /\ n # HeapEnd => heap.blk[n].prev = m
           /\ n > m

\* plug_holes leaves no two holes side by side
HolesMerged ==
  \A m \in Headers : ~heap.blk[m].used => heap.blk[heap.blk[m].next].used

\* The used headers are the blocks in the threads' hands, each at least as large as asked
BlocksApart ==
  /\ {m \in Headers : heap.blk[m].used} = {b.at : b \in Blocks}
  /\ \A b, c \in Blocks : b.at = c.at => b = c
  /\ \A b \in Blocks : Room(heap, b.at) >= b.size

\* lfree is free or the end, and where rt_realloc is not used nothing free is below it: a
\* shrinking rt_realloc leaves a hole there (mem.c:458-485), against "pointer to the lowest
\* free block" (mem.c:118), so that the uses with it are excluded
LfreeLowest ==
  /\ heap.lfree \in DOMAIN heap.blk
  /\ heap.lfree = HeapEnd \/ ~heap.blk[heap.lfree].used
  /\ \A m \in Headers :
       m < heap.lfree => heap.blk[m].used \/ \E t \in Thread : "hp_realloc" \in use.calls[t]

\* rt_malloc, rt_free and rt_realloc keep the heap sound, whichever order blocks come and
\* go in and whatever happens between the steps of an rt_realloc that moves its block; that
\* no hole is below lfree, only where there is no rt_realloc (LfreeLowest)
HeapSound == HeapTiled /\ HolesMerged /\ BlocksApart /\ LfreeLowest
=============================================================================
