--------------------------- MODULE Drivers_proofs ---------------------------
(***************************************************************************)
(* Proofs about the drivers of Services that keep more than a queue: the   *)
(* heap, whose headers always tile it, and the work queue, beside whose    *)
(* works the thread does not sleep.  First the heap by itself, then that   *)
(* no other object has a part in it; then the work queue and its thread.   *)
(***************************************************************************)
EXTENDS Queues_proofs

-----------------------------------------------------------------------------
(***************************************************************************)
(* The heap.  First the headers: what joining two holes and splitting off  *)
(* a free header do to each of them.                                       *)
(***************************************************************************)
HpEntry == [used : BOOLEAN, next : Nat, prev : Nat]

HpShape(h) ==
  /\ h = [blk |-> h.blk, lfree |-> h.lfree, held |-> h.held]
  /\ h.blk \in [DOMAIN h.blk -> HpEntry]
  /\ DOMAIN h.blk \subseteq 0..HeapEnd /\ {0, HeapEnd, h.lfree} \subseteq DOMAIN h.blk
  /\ h.blk[HeapEnd].used /\ h.blk[0].prev = 0

\* Every header but the last has its successor next to it, and knows who is before it
NextTo(h, m, n) == n \in DOMAIN h.blk /\ n > m /\ \A x \in DOMAIN h.blk : x > m => x >= n

HpLinked(h) ==
  /\ \A m \in DOMAIN h.blk \ {HeapEnd} :
       /\ NextTo(h, m, h.blk[m].next)
       /\ h.blk[m].next # HeapEnd => h.blk[h.blk[m].next].prev = m
  /\ \A n \in DOMAIN h.blk \ {0, HeapEnd} :
       h.blk[n].prev \in DOMAIN h.blk \ {HeapEnd} /\ h.blk[h.blk[n].prev].next = n

HpHeap(h) == HpShape(h) /\ HpLinked(h)

\* r has the headers D, which are those of h but for what is said of each
HpLike(r, h, D) ==
  /\ DOMAIN r.blk = D /\ r.blk \in [D -> HpEntry]
  /\ r = [blk |-> r.blk, lfree |-> r.lfree, held |-> r.held] /\ r.held = h.held

\* r is h with m and the hole n after it joined, or with a free header n split off m
IsJoin(r, h, m, n) ==
  /\ HpLike(r, h, DOMAIN h.blk \ {n})
  /\ r.lfree = IF h.lfree = n THEN m ELSE h.lfree
  /\ \A x \in DOMAIN h.blk \ {n} :
       /\ r.blk[x].used = h.blk[x].used
       /\ r.blk[x].next = IF x = m THEN h.blk[n].next ELSE h.blk[x].next
       /\ r.blk[x].prev = IF x = h.blk[n].next THEN m ELSE h.blk[x].prev

IsSplit(r, h, m, n) ==
  /\ n \in Nat \ DOMAIN h.blk
  /\ HpLike(r, h, DOMAIN h.blk \cup {n}) /\ r.lfree = h.lfree
  /\ \A x \in DOMAIN h.blk \cup {n} :
       /\ r.blk[x].used = IF x = n THEN FALSE ELSE h.blk[x].used
       /\ r.blk[x].next = IF x = n THEN h.blk[m].next ELSE IF x = m THEN n ELSE h.blk[x].next
       /\ r.blk[x].prev = IF x = n THEN m
                          ELSE IF x = h.blk[m].next /\ x # HeapEnd THEN n ELSE h.blk[x].prev

LEMMA HeapEnds == HeapEnd \in Nat /\ HeapEnd > 0 /\ Header \in Nat \ {0} /\ MinSize \in Nat \ {0}
BY SmallMemAssumption DEF HeapEnd

LEMMA JoinIs ==
  ASSUME NEW h, HpHeap(h), NEW m \in DOMAIN h.blk \ {HeapEnd}, NEW n, n = h.blk[m].next, n # HeapEnd,
         NEW r, r = Join(h, m, n)
  PROVE  IsJoin(r, h, m, n)
<1> DEFINE D == DOMAIN h.blk
           o == h.blk[n].next
           blk == [x \in D \ {n} |-> IF x = m THEN [h.blk[m] EXCEPT !.next = o] ELSE h.blk[x]]
<1>1. /\ n \in D /\ n > m /\ o \in D /\ o > n /\ m \in Nat /\ n \in Nat /\ o \in Nat
      /\ h.blk \in [D -> HpEntry] /\ h = [blk |-> h.blk, lfree |-> h.lfree, held |-> h.held]
  BY DEF HpHeap, HpShape, HpLinked, NextTo, HpEntry
<1>0. /\ h.blk[m] \in HpEntry /\ [h.blk[m] EXCEPT !.next = o] \in HpEntry
      /\ [h.blk[m] EXCEPT !.next = o].next = o
  BY <1>1 DEF HpEntry
<1>2. blk \in [D \ {n} -> HpEntry] /\ blk[m].next = o /\ m \in D \ {n} /\ o \in D \ {n}
  BY <1>0, <1>1
<1>3. r.blk = [blk EXCEPT ![o].prev = m]
        /\ r = [blk |-> r.blk, lfree |-> IF h.lfree = n THEN m ELSE h.lfree, held |-> h.held]
  <2>1. TellNext(blk, m) = [blk EXCEPT ![o].prev = m]
    BY <1>2 DEF TellNext
  <2>2. r = [h EXCEPT !.blk = TellNext(blk, m), !.lfree = IF @ = n THEN m ELSE @]
    BY DEF Join
  <2> HIDE DEF blk
  <2>. QED BY <1>1, <2>1, <2>2
<1>4. r = [blk |-> r.blk, lfree |-> IF h.lfree = n THEN m ELSE h.lfree, held |-> h.held]
  BY <1>3
<1>5. r.blk \in [D \ {n} -> HpEntry]
  <2>1. blk[o] \in HpEntry
    BY <1>2
  <2>2. [blk[o] EXCEPT !.prev = m] \in HpEntry
    <3> HIDE DEF blk
    <3>. QED BY <1>1, <2>1 DEF HpEntry
  <2> HIDE DEF blk
  <2>. QED BY <1>2, <1>3, <2>2
<1>6. ASSUME NEW x \in D \ {n}
      PROVE  /\ r.blk[x].used = h.blk[x].used
             /\ r.blk[x].next = IF x = m THEN h.blk[n].next ELSE h.blk[x].next
             /\ r.blk[x].prev = IF x = h.blk[n].next THEN m ELSE h.blk[x].prev
  <2>1. h.blk[x] \in HpEntry /\ h.blk[m] \in HpEntry /\ blk[x] \in HpEntry
    BY <1>1, <1>2
  <2>2. blk[x].used = h.blk[x].used /\ blk[x].prev = h.blk[x].prev
        /\ blk[x].next = IF x = m THEN o ELSE h.blk[x].next
    BY <2>1 DEF HpEntry
  <2>3. r.blk[x] = IF x = o THEN [blk[x] EXCEPT !.prev = m] ELSE blk[x]
    BY <1>2, <1>3
  <2>. QED BY <2>1, <2>2, <2>3 DEF HpEntry
<1>7. HpLike(r, h, D \ {n})
  <2>1. DOMAIN r.blk = D \ {n}
    BY <1>5
  <2>. QED BY <1>4, <1>5, <2>1 DEF HpLike
<1>8. r.lfree = IF h.lfree = n THEN m ELSE h.lfree
  <2>. QED BY <1>4
<1>. QED BY <1>6, <1>7, <1>8 DEF IsJoin

LEMMA SplitIs ==
  ASSUME NEW h, HpHeap(h), NEW m \in DOMAIN h.blk \ {HeapEnd}, NEW size \in Nat,
         NEW n, n = m + Header + size, n < h.blk[m].next, NEW r, r = Split(h, m, size)
  PROVE  IsSplit(r, h, m, n)
<1> DEFINE D == DOMAIN h.blk
           o == h.blk[m].next
           E == D \cup {n}
           blk == [x \in E |-> IF x = n THEN [used |-> FALSE, next |-> o, prev |-> m]
                               ELSE IF x = m THEN [h.blk[m] EXCEPT !.next = n] ELSE h.blk[x]]
<1>1. /\ n > m /\ o \in D /\ m \in Nat /\ n \in Nat /\ o \in Nat /\ n < o
      /\ h.blk \in [D -> HpEntry] /\ h = [blk |-> h.blk, lfree |-> h.lfree, held |-> h.held]
  BY SmallMemAssumption DEF HpHeap, HpShape, HpLinked, NextTo, HpEntry
<1>2. n \notin D
  BY <1>1 DEF HpHeap, HpLinked, NextTo
<1>0. /\ h.blk[m] \in HpEntry /\ [h.blk[m] EXCEPT !.next = n] \in HpEntry
      /\ [used |-> FALSE, next |-> o, prev |-> m] \in HpEntry
  BY <1>1 DEF HpEntry
<1>3. blk \in [E -> HpEntry] /\ blk[n].next = o /\ n \in E /\ o \in E
  BY <1>0, <1>1
<1>4. r.blk = (IF o = HeapEnd THEN blk ELSE [blk EXCEPT ![o].prev = n])
        /\ r = [blk |-> r.blk, lfree |-> h.lfree, held |-> h.held]
  <2>1. TellNext(blk, n) = [blk EXCEPT ![o].prev = n]
    BY <1>3 DEF TellNext
  <2>2. r = [h EXCEPT !.blk = IF o = HeapEnd THEN blk ELSE TellNext(blk, n)]
    BY DEF Split
  <2> HIDE DEF blk
  <2>. QED BY <1>1, <2>1, <2>2
<1>5. r = [blk |-> r.blk, lfree |-> h.lfree, held |-> h.held]
  BY <1>4
<1>6. r.blk \in [E -> HpEntry]
  <2>1. blk[o] \in HpEntry
    BY <1>3
  <2>2. [blk[o] EXCEPT !.prev = n] \in HpEntry
    <3> HIDE DEF blk
    <3>. QED BY <1>1, <2>1 DEF HpEntry
  <2> HIDE DEF blk
  <2>. QED BY <1>3, <1>4, <2>2
<1>7. ASSUME NEW x \in E
      PROVE  /\ r.blk[x].used = IF x = n THEN FALSE ELSE h.blk[x].used
             /\ r.blk[x].next = IF x = n THEN h.blk[m].next ELSE IF x = m THEN n ELSE h.blk[x].next
             /\ r.blk[x].prev = IF x = n THEN m
                                ELSE IF x = h.blk[m].next /\ x # HeapEnd THEN n ELSE h.blk[x].prev
  <2>1. (x # n => h.blk[x] \in HpEntry) /\ h.blk[m] \in HpEntry /\ blk[x] \in HpEntry
    BY <1>1, <1>3
  <2>2. /\ blk[x].used = IF x = n THEN FALSE ELSE h.blk[x].used
        /\ blk[x].prev = IF x = n THEN m ELSE h.blk[x].prev
        /\ blk[x].next = IF x = n THEN o ELSE IF x = m THEN n ELSE h.blk[x].next
    <3>1. CASE x = n
      BY <3>1
    <3>2. CASE x # n
      <4>1. blk[x] = IF x = m THEN [h.blk[m] EXCEPT !.next = n] ELSE h.blk[x]
        BY <3>2
      <4> HIDE DEF blk
      <4>. QED BY <2>1, <3>2, <4>1 DEF HpEntry
    <3>. QED BY <3>1, <3>2
  <2>3. r.blk[x] = IF x = o /\ o # HeapEnd THEN [blk[x] EXCEPT !.prev = n] ELSE blk[x]
    <3> HIDE DEF blk
    <3>. QED BY <1>3, <1>4
  <2>4. o # n
    BY <1>1
  <2> HIDE DEF blk
  <2>5. CASE x = o /\ o # HeapEnd
    BY <2>1, <2>2, <2>3, <2>4, <2>5 DEF HpEntry
  <2>6. CASE ~(x = o /\ o # HeapEnd)
    BY <2>2, <2>3, <2>6
  <2>. QED BY <2>5, <2>6
<1>8. HpLike(r, h, E)
  <2>1. DOMAIN r.blk = E
    BY <1>6
  <2>. QED BY <1>5, <1>6, <2>1 DEF HpLike
<1>9. r.lfree = h.lfree
  <2>. QED BY <1>5
<1>. QED BY <1>1, <1>2, <1>7, <1>8, <1>9 DEF IsSplit

-----------------------------------------------------------------------------
\* What joins and splits keep: the headers still tile the heap
LEMMA JoinKeeps ==
  ASSUME NEW h, HpHeap(h), NEW m \in DOMAIN h.blk \ {HeapEnd}, NEW n, n = h.blk[m].next, n # HeapEnd
  PROVE  HpHeap(Join(h, m, n))
<1> DEFINE D == DOMAIN h.blk
           o == h.blk[n].next
<1>1. PICK r : r = Join(h, m, n)
  OBVIOUS
<1>2. /\ n \in D /\ n > m /\ o \in D /\ o > n /\ m \in Nat /\ n \in Nat /\ o \in Nat
      /\ D \subseteq 0..HeapEnd /\ HeapEnd \in Nat
  BY HeapEnds DEF HpHeap, HpShape, HpLinked, NextTo, HpEntry
<1>3. /\ HpLike(r, h, D \ {n})
      /\ r.lfree = IF h.lfree = n THEN m ELSE h.lfree
      /\ \A x \in D \ {n} :
           /\ r.blk[x].used = h.blk[x].used
           /\ r.blk[x].next = IF x = m THEN o ELSE h.blk[x].next
           /\ r.blk[x].prev = IF x = o THEN m ELSE h.blk[x].prev
  <2>1. IsJoin(r, h, m, n)
    BY <1>1, JoinIs
  <2>. QED BY <2>1 DEF IsJoin
<1>4. HpShape(r)
  BY <1>2, <1>3 DEF HpHeap, HpShape, HpLike
<1>5. ASSUME NEW x \in DOMAIN r.blk \ {HeapEnd}
      PROVE  /\ NextTo(r, x, r.blk[x].next)
             /\ r.blk[x].next # HeapEnd => r.blk[r.blk[x].next].prev = x
  <2>1. x \in D \ {n, HeapEnd} /\ DOMAIN r.blk = D \ {n} /\ x \in Nat
    BY <1>2, <1>3 DEF HpLike
  <2>2. NextTo(h, x, h.blk[x].next) /\ NextTo(h, n, o)
    BY <1>2, <2>1 DEF HpHeap, HpLinked
  <2>3. CASE x = m
    <3>1. r.blk[x].next = o /\ r.blk[o].prev = m /\ o \in DOMAIN r.blk
      BY <1>2, <1>3, <2>1, <2>3
    <3>2. ASSUME NEW y \in DOMAIN r.blk, y > x PROVE y >= o
      <4>1. y >= n /\ y # n /\ y \in D /\ y \in Nat
        BY <1>2, <2>1, <2>2, <2>3, <3>2 DEF NextTo
      <4>. QED BY <1>2, <4>1, <2>2 DEF NextTo
    <3>. QED BY <1>2, <2>3, <3>1, <3>2 DEF NextTo
  <2>4. CASE x # m
    <3>1. r.blk[x].next = h.blk[x].next
      BY <1>3, <2>1, <2>4
    <3>2. h.blk[x].next # n
      <4>1. h.blk[n].prev = m
        BY <1>2 DEF HpHeap, HpLinked
      <4>. QED BY <2>1, <2>4, <4>1 DEF HpHeap, HpLinked
    <3>3. h.blk[x].next # o \/ o = HeapEnd
      <4>1. o # HeapEnd => h.blk[o].prev = n
        BY <1>2 DEF HpHeap, HpLinked
      <4>. QED BY <2>1, <4>1 DEF HpHeap, HpLinked
    <3>4. h.blk[x].next \in D \ {n}
      BY <2>2, <3>2 DEF NextTo
    <3>5. h.blk[x].next # HeapEnd => r.blk[h.blk[x].next].prev = x
      BY <1>3, <2>1, <3>3, <3>4 DEF HpHeap, HpLinked
    <3>. QED BY <2>1, <2>2, <3>1, <3>4, <3>5 DEF NextTo
  <2>. QED BY <2>3, <2>4
<1>6. ASSUME NEW y \in DOMAIN r.blk \ {0, HeapEnd}
      PROVE  r.blk[y].prev \in DOMAIN r.blk \ {HeapEnd} /\ r.blk[r.blk[y].prev].next = y
  <2>1. y \in D \ {n, 0, HeapEnd} /\ DOMAIN r.blk = D \ {n}
    BY <1>3 DEF HpLike
  <2>2. CASE y = o
    BY <1>2, <1>3, <2>1, <2>2
  <2>3. CASE y # o
    <3>1. r.blk[y].prev = h.blk[y].prev /\ h.blk[y].prev \in D \ {HeapEnd} /\ h.blk[h.blk[y].prev].next = y
      BY <1>3, <2>1, <2>3 DEF HpHeap, HpLinked
    <3>2. h.blk[y].prev # n /\ h.blk[y].prev # m
      BY <2>1, <2>3, <3>1
    <3>. QED BY <1>3, <2>1, <3>1, <3>2
  <2>. QED BY <2>2, <2>3
<1>7. HpLinked(r)
  BY <1>5, <1>6 DEF HpLinked
<1>. QED BY <1>1, <1>4, <1>7 DEF HpHeap

LEMMA SplitKeeps ==
  ASSUME NEW h, HpHeap(h), NEW m \in DOMAIN h.blk \ {HeapEnd}, NEW size \in Nat,
         NEW n, n = m + Header + size, n < h.blk[m].next
  PROVE  HpHeap(Split(h, m, size))
<1> DEFINE D == DOMAIN h.blk
           o == h.blk[m].next
<1>1. PICK r : r = Split(h, m, size)
  OBVIOUS
<1>2. /\ n > m /\ o \in D /\ o > n /\ m \in Nat /\ n \in Nat /\ o \in Nat
      /\ D \subseteq 0..HeapEnd /\ HeapEnd \in Nat
  <2>1. o \in D /\ m \in Nat /\ D \subseteq 0..HeapEnd
    BY HeapEnds DEF HpHeap, HpShape, HpLinked, NextTo
  <2>. QED BY <2>1, HeapEnds
<1>3. /\ n \in Nat \ D
      /\ HpLike(r, h, D \cup {n}) /\ r.lfree = h.lfree
      /\ \A x \in D \cup {n} :
           /\ r.blk[x].used = IF x = n THEN FALSE ELSE h.blk[x].used
           /\ r.blk[x].next = IF x = n THEN o ELSE IF x = m THEN n ELSE h.blk[x].next
           /\ r.blk[x].prev = IF x = n THEN m ELSE IF x = o /\ x # HeapEnd THEN n ELSE h.blk[x].prev
  <2>1. IsSplit(r, h, m, n)
    BY <1>1, SplitIs
  <2>. QED BY <2>1 DEF IsSplit
<1>4. HpShape(r)
  <2>1. n \in 0..HeapEnd /\ n # HeapEnd /\ n # 0 /\ o # 0
    BY <1>2
  <2>2. {0, HeapEnd, h.lfree} \subseteq D /\ h.blk[HeapEnd].used /\ h.blk[0].prev = 0
    BY DEF HpHeap, HpShape
  <2>3. r.blk[HeapEnd].used /\ r.blk[0].prev = 0
    BY <1>3, <2>1, <2>2
  <2>4. DOMAIN r.blk \subseteq 0..HeapEnd /\ {0, HeapEnd, r.lfree} \subseteq DOMAIN r.blk
    BY <1>2, <1>3, <2>1, <2>2 DEF HpLike
  <2>. QED BY <1>3, <2>3, <2>4 DEF HpShape, HpLike
<1>5. ASSUME NEW x \in DOMAIN r.blk \ {HeapEnd}
      PROVE  /\ NextTo(r, x, r.blk[x].next)
             /\ r.blk[x].next # HeapEnd => r.blk[r.blk[x].next].prev = x
  <2>1. x \in D \cup {n} /\ DOMAIN r.blk = D \cup {n} /\ x \in Nat /\ x # HeapEnd
    BY <1>2, <1>3 DEF HpLike
  <2>2. (x # n => NextTo(h, x, h.blk[x].next)) /\ NextTo(h, m, o)
    BY <1>2, <2>1 DEF HpHeap, HpLinked
  <2>3. CASE x = m
    <3>1. r.blk[x].next = n /\ r.blk[n].prev = m /\ n \in DOMAIN r.blk
      BY <1>2, <1>3, <2>1, <2>3
    <3>2. ASSUME NEW y \in DOMAIN r.blk, y > x PROVE y >= n
      BY <1>2, <2>1, <2>2, <2>3, <3>2 DEF NextTo
    <3>. QED BY <1>2, <2>3, <3>1, <3>2 DEF NextTo
  <2>4. CASE x = n
    <3>1. r.blk[x].next = o /\ (o # HeapEnd => r.blk[o].prev = n) /\ o \in DOMAIN r.blk
      BY <1>2, <1>3, <2>1, <2>4
    <3>2. ASSUME NEW y \in DOMAIN r.blk, y > x PROVE y >= o
      BY <1>2, <2>1, <2>2, <2>4, <3>2 DEF NextTo
    <3>. QED BY <1>2, <2>4, <3>1, <3>2 DEF NextTo
  <2>5. CASE x \notin {m, n}
    <3>1. r.blk[x].next = h.blk[x].next /\ h.blk[x].next \in D /\ x \in D
      BY <1>3, <2>1, <2>2, <2>5 DEF NextTo
    <3>2. h.blk[x].next # o \/ o = HeapEnd
      BY <1>2, <2>1, <2>5 DEF HpHeap, HpLinked
    <3>3. h.blk[x].next # HeapEnd => r.blk[h.blk[x].next].prev = x
      BY <1>3, <2>1, <3>1, <3>2 DEF HpHeap, HpLinked
    <3>4. n > x => n >= h.blk[x].next
      <4>1. x > m => x >= o
        BY <2>2, <3>1 DEF NextTo
      <4>2. x < m \/ x > m
        BY <1>2, <2>1, <2>5
      <4>3. x < m => m >= h.blk[x].next
        BY <1>2, <2>2, <2>5 DEF NextTo
      <4>4. h.blk[x].next \in Nat
        BY <1>2, <3>1
      <4>. QED BY <1>2, <2>1, <4>1, <4>2, <4>3, <4>4
    <3>. QED BY <2>1, <2>2, <2>5, <3>1, <3>3, <3>4 DEF NextTo
  <2>. QED BY <2>3, <2>4, <2>5
<1>6. ASSUME NEW y \in DOMAIN r.blk \ {0, HeapEnd}
      PROVE  r.blk[y].prev \in DOMAIN r.blk \ {HeapEnd} /\ r.blk[r.blk[y].prev].next = y
  <2>1. y \in (D \cup {n}) \ {0, HeapEnd} /\ DOMAIN r.blk = D \cup {n} /\ n # HeapEnd
    BY <1>2, <1>3 DEF HpLike
  <2>2. CASE y \in {o, n}
    BY <1>2, <1>3, <2>1, <2>2
  <2>3. CASE y \notin {o, n}
    <3>1. r.blk[y].prev = h.blk[y].prev /\ h.blk[y].prev \in D \ {HeapEnd} /\ h.blk[h.blk[y].prev].next = y
      BY <1>3, <2>1, <2>3 DEF HpHeap, HpLinked
    <3>2. h.blk[y].prev # n /\ h.blk[y].prev # m
      BY <1>3, <2>1, <2>3, <3>1
    <3>. QED BY <1>3, <2>1, <3>1, <3>2
  <2>. QED BY <2>2, <2>3
<1>7. HpLinked(r)
  BY <1>5, <1>6 DEF HpLinked
<1>. QED BY <1>1, <1>4, <1>7 DEF HpHeap

-----------------------------------------------------------------------------
(***************************************************************************)
(* The heap h with the blocks B in use is sound.  With rt_realloc in use,  *)
(* loose, a hole may be below lfree.                                       *)
(***************************************************************************)
HpBlock == [at : Nat, size : Nat]

HpMerged(h) ==
  \A m \in DOMAIN h.blk \ {HeapEnd} : h.blk[m].used \/ h.blk[h.blk[m].next].used

HpUses(h, B) ==
  /\ B \subseteq HpBlock
  /\ {m \in DOMAIN h.blk \ {HeapEnd} : h.blk[m].used} = {b.at : b \in B}
  /\ \A b, c \in B : b.at = c.at => b = c
  /\ \A b \in B : Room(h, b.at) >= b.size

HpLowest(h, loose) ==
  /\ h.lfree = HeapEnd \/ ~h.blk[h.lfree].used
  /\ loose \/ \A m \in DOMAIN h.blk \ {HeapEnd} : m < h.lfree => h.blk[m].used

HpRight(h, B, loose) == HpHeap(h) /\ HpUses(h, B) /\ HpLowest(h, loose)

HpSound(h, B, loose) == HpRight(h, B, loose) /\ HpMerged(h)

\* No holes are side by side, but for m and its neighbours
HpMergedBut(h, m) ==
  \A x \in DOMAIN h.blk \ {HeapEnd} :
    h.blk[x].used \/ h.blk[h.blk[x].next].used \/ x = m \/ h.blk[x].next = m

LEMMA JoinRight ==
  ASSUME NEW h, NEW B, NEW loose \in BOOLEAN, HpRight(h, B, loose),
         NEW m \in DOMAIN h.blk \ {HeapEnd}, NEW n, n = h.blk[m].next, n # HeapEnd,
         ~h.blk[m].used, ~h.blk[n].used
  PROVE  HpRight(Join(h, m, n), B, loose)
<1> DEFINE D == DOMAIN h.blk
<1>1. PICK r : r = Join(h, m, n)
  OBVIOUS
<1>2. HpHeap(h) /\ HpHeap(r) /\ IsJoin(r, h, m, n)
  BY <1>1, JoinIs, JoinKeeps DEF HpRight
<1>3. /\ DOMAIN r.blk = D \ {n} /\ n \in D /\ m \in D /\ n > m /\ n \in Nat /\ m \in Nat
      /\ \A x \in D : x \in Nat
  BY <1>2, HeapEnds DEF IsJoin, HpLike, HpHeap, HpShape, HpLinked, NextTo
<1>4. \A x \in D \ {n} : r.blk[x].used = h.blk[x].used
  BY <1>2 DEF IsJoin
<1>5. HpUses(r, B)
  <2>1. {x \in DOMAIN r.blk \ {HeapEnd} : r.blk[x].used} = {x \in D \ {HeapEnd} : h.blk[x].used}
    BY <1>3, <1>4
  <2>2. ASSUME NEW b \in B PROVE Room(r, b.at) >= b.size
    <3>1. b.at \in {x \in D \ {HeapEnd} : h.blk[x].used} /\ Room(h, b.at) >= b.size
      BY DEF HpRight, HpUses
    <3>2. r.blk[b.at].next = h.blk[b.at].next
      BY <1>2, <1>3, <3>1 DEF IsJoin
    <3>. QED BY <3>1, <3>2 DEF Room
  <2>. QED BY <2>1, <2>2 DEF HpRight, HpUses
<1>6. HpLowest(r, loose)
  <2>1. r.lfree = (IF h.lfree = n THEN m ELSE h.lfree) /\ h.lfree \in D
    BY <1>2 DEF IsJoin, HpHeap, HpShape
  <2>2. r.lfree = HeapEnd \/ ~r.blk[r.lfree].used
    BY <1>3, <1>4, <2>1 DEF HpRight, HpLowest
  <2>3. ASSUME ~loose, NEW x \in DOMAIN r.blk \ {HeapEnd}, x < r.lfree PROVE r.blk[x].used
    <3>1. x < h.lfree
      BY <1>3, <2>1, <2>3
    <3>. QED BY <1>3, <1>4, <2>3, <3>1 DEF HpRight, HpLowest
  <2>. QED BY <2>2, <2>3 DEF HpLowest
<1>. QED BY <1>1, <1>2, <1>5, <1>6 DEF HpRight

\* plug_holes merges m, a hole, with the holes beside it
LEMMA PlugSound ==
  ASSUME NEW h, NEW B, NEW loose \in BOOLEAN, HpRight(h, B, loose),
         NEW m \in DOMAIN h.blk \ {HeapEnd}, ~h.blk[m].used, HpMergedBut(h, m)
  PROVE  HpSound(PlugHoles(h, m), B, loose)
<1> DEFINE n == h.blk[m].next
<1>0. /\ HpHeap(h) /\ n \in DOMAIN h.blk /\ n > m /\ m \in Nat /\ n \in Nat
      /\ h.blk[HeapEnd].used /\ \A x \in DOMAIN h.blk : x \in Nat
  BY HeapEnds DEF HpRight, HpHeap, HpShape, HpLinked, NextTo
<1>1. PICK f : f = IF ~h.blk[n].used /\ n # HeapEnd THEN Join(h, m, n) ELSE h
  OBVIOUS
<1>2. PICK p : p = f.blk[m].prev
  OBVIOUS
<1>3. PlugHoles(h, m) = IF p # m /\ ~f.blk[p].used THEN Join(f, p, m) ELSE f
  BY <1>1, <1>2 DEF PlugHoles
<1>4. /\ HpRight(f, B, loose) /\ m \in DOMAIN f.blk /\ ~f.blk[m].used
      /\ \A x \in DOMAIN f.blk \ {HeapEnd} :
           f.blk[x].used \/ f.blk[f.blk[x].next].used \/ f.blk[x].next = m
  <2>1. CASE ~h.blk[n].used /\ n # HeapEnd
    <3>1. f = Join(h, m, n) /\ IsJoin(f, h, m, n) /\ HpRight(f, B, loose)
      BY <1>0, <1>1, <2>1, JoinIs, JoinRight
    <3>2. m # n /\ DOMAIN f.blk = DOMAIN h.blk \ {n} /\ ~f.blk[m].used
      BY <1>0, <3>1 DEF IsJoin, HpLike
    <3>3. ASSUME NEW x \in DOMAIN f.blk \ {HeapEnd}, ~f.blk[x].used, ~f.blk[f.blk[x].next].used
          PROVE  f.blk[x].next = m
      <4>1. x \in DOMAIN h.blk \ {HeapEnd, n} /\ ~h.blk[x].used
        BY <3>1, <3>2, <3>3 DEF IsJoin
      <4>2. f.blk[x].next \in DOMAIN f.blk
        BY <3>1, <3>3 DEF HpRight, HpHeap, HpLinked, NextTo
      <4>3. ~h.blk[f.blk[x].next].used
        BY <3>1, <3>2, <3>3, <4>2 DEF IsJoin
      <4>4. CASE x = m
        <5>1. f.blk[x].next = h.blk[n].next
          BY <3>1, <4>1, <4>4 DEF IsJoin
        <5>2. h.blk[n].used \/ h.blk[h.blk[n].next].used \/ h.blk[n].next = m
          BY <1>0, <2>1, <3>2 DEF HpMergedBut
        <5>. QED BY <2>1, <4>3, <5>1, <5>2
      <4>5. CASE x # m
        <5>1. f.blk[x].next = h.blk[x].next
          BY <3>1, <4>1, <4>5 DEF IsJoin
        <5>. QED BY <4>1, <4>3, <4>5, <5>1 DEF HpMergedBut
      <4>. QED BY <4>4, <4>5
    <3>. QED BY <3>1, <3>2, <3>3
  <2>2. CASE h.blk[n].used \/ n = HeapEnd
    <3>1. f = h /\ h.blk[n].used
      BY <1>0, <1>1, <2>2
    <3>. QED BY <3>1 DEF HpMergedBut
  <2>. QED BY <2>1, <2>2
<1>5. HpHeap(f) /\ m \in DOMAIN f.blk \ {HeapEnd}
  BY <1>4 DEF HpRight
<1>6. CASE p # m /\ ~f.blk[p].used
  <2>1. m # 0
    BY <1>2, <1>5, <1>6 DEF HpHeap, HpShape
  <2>2. p \in DOMAIN f.blk \ {HeapEnd} /\ f.blk[p].next = m
    BY <1>2, <1>5, <2>1 DEF HpHeap, HpLinked
  <2>3. PICK r : r = Join(f, p, m)
    OBVIOUS
  <2>4. HpRight(r, B, loose) /\ IsJoin(r, f, p, m)
    BY <1>4, <1>5, <1>6, <2>2, <2>3, JoinIs, JoinRight
  <2>5. HpMerged(r)
    <3>1. ASSUME NEW x \in DOMAIN r.blk \ {HeapEnd}, ~r.blk[x].used, ~r.blk[r.blk[x].next].used
          PROVE  FALSE
      <4>1. x \in DOMAIN f.blk \ {HeapEnd, m} /\ ~f.blk[x].used
        BY <2>4, <3>1 DEF IsJoin, HpLike
      <4>2. r.blk[x].next \in DOMAIN r.blk /\ DOMAIN r.blk = DOMAIN f.blk \ {m}
        BY <2>4, <3>1 DEF HpRight, HpHeap, HpLinked, NextTo, IsJoin, HpLike
      <4>3. ~f.blk[r.blk[x].next].used
        BY <2>4, <3>1, <4>2 DEF IsJoin
      <4>4. CASE x = p
        <5>1. r.blk[x].next = f.blk[m].next
          BY <2>4, <4>1, <4>4 DEF IsJoin
        <5>2. f.blk[m].next > m
          BY <1>5 DEF HpHeap, HpLinked, NextTo
        <5>3. f.blk[m].used \/ f.blk[f.blk[m].next].used \/ f.blk[m].next = m
          BY <1>4, <1>5
        <5>. QED BY <1>0, <1>4, <4>3, <5>1, <5>2, <5>3
      <4>5. CASE x # p
        <5>1. r.blk[x].next = f.blk[x].next
          BY <2>4, <4>1, <4>5 DEF IsJoin
        <5>2. f.blk[x].next = m
          BY <1>4, <4>1, <4>3, <5>1
        <5>. QED BY <4>2, <5>1, <5>2
      <4>. QED BY <4>4, <4>5
    <3>. QED BY <3>1 DEF HpMerged
  <2>. QED BY <1>3, <1>6, <2>3, <2>4, <2>5 DEF HpSound
<1>7. CASE ~(p # m /\ ~f.blk[p].used)
  <2>1. HpMerged(f)
    <3>1. ASSUME NEW x \in DOMAIN f.blk \ {HeapEnd}, ~f.blk[x].used, ~f.blk[f.blk[x].next].used
          PROVE  FALSE
      <4>1. f.blk[x].next = m /\ m # HeapEnd
        BY <1>4, <1>5, <3>1
      <4>2. p = x
        BY <1>2, <1>5, <3>1, <4>1 DEF HpHeap, HpLinked
      <4>3. x # m
        BY <1>0, <1>5, <3>1, <4>1 DEF HpHeap, HpLinked, NextTo
      <4>. QED BY <1>7, <3>1, <4>2, <4>3
    <3>. QED BY <3>1 DEF HpMerged
  <2>. QED BY <1>3, <1>4, <1>7, <2>1 DEF HpSound
<1>. QED BY <1>6, <1>7

\* rt_free: a used header becomes a hole, and lfree is not above it
LEMMA FreeSound ==
  ASSUME NEW h, NEW B, NEW loose \in BOOLEAN, HpSound(h, B, loose), NEW b \in B
  PROVE  HpSound(HpFreed(h, b.at), B \ {b}, loose)
<1> DEFINE D == DOMAIN h.blk
<1>0. PICK m : m = b.at
  OBVIOUS
<1>1. /\ HpHeap(h) /\ HpUses(h, B) /\ HpLowest(h, loose) /\ HpMerged(h)
      /\ h.blk \in [D -> HpEntry] /\ h = [blk |-> h.blk, lfree |-> h.lfree, held |-> h.held]
      /\ D \subseteq 0..HeapEnd /\ HeapEnd \in Nat /\ {0, HeapEnd, h.lfree} \subseteq D
      /\ h.blk[HeapEnd].used /\ h.blk[0].prev = 0
  BY HeapEnds DEF HpSound, HpRight, HpHeap, HpShape
<1>2. m \in D \ {HeapEnd} /\ h.blk[m].used /\ m \in Nat
  <2>1. m \in {x \in D \ {HeapEnd} : h.blk[x].used}
    BY <1>0, <1>1 DEF HpUses
  <2>. QED BY <1>1, <2>1
<1>3. PICK l : l = Min({h.lfree, m})
  OBVIOUS
<1>4. l \in {h.lfree, m} /\ l <= h.lfree /\ l <= m
  <2>1. h.lfree \in Nat
    BY <1>1
  <2>. QED BY <1>2, <1>3, <2>1, MinNat
<1>5. PICK g : g = [h EXCEPT !.blk[m].used = FALSE, !.lfree = Min({@, m})]
  OBVIOUS
<1>6. g = [blk |-> [h.blk EXCEPT ![m].used = FALSE], lfree |-> l, held |-> h.held]
  BY <1>1, <1>3, <1>5
<1>7. /\ DOMAIN g.blk = D /\ g.blk \in [D -> HpEntry] /\ g.lfree = l
      /\ g = [blk |-> g.blk, lfree |-> g.lfree, held |-> g.held]
      /\ \A x \in D : /\ g.blk[x].next = h.blk[x].next /\ g.blk[x].prev = h.blk[x].prev
                      /\ g.blk[x].used = IF x = m THEN FALSE ELSE h.blk[x].used
  <2>1. g.blk = [h.blk EXCEPT ![m].used = FALSE]
    BY <1>6
  <2>2. \A x \in D : h.blk[x] \in HpEntry
    BY <1>1
  <2>3. \A x \in D : g.blk[x] = IF x = m THEN [h.blk[x] EXCEPT !.used = FALSE] ELSE h.blk[x]
    BY <1>1, <2>1
  <2>4. ASSUME NEW x \in D
        PROVE  /\ g.blk[x] \in HpEntry
               /\ g.blk[x].next = h.blk[x].next /\ g.blk[x].prev = h.blk[x].prev
               /\ g.blk[x].used = IF x = m THEN FALSE ELSE h.blk[x].used
    BY <2>2, <2>3 DEF HpEntry
  <2>5. DOMAIN g.blk = D /\ g.blk \in [D -> HpEntry]
    BY <1>1, <2>1, <2>4
  <2>. QED BY <1>6, <2>4, <2>5
<1>8. HpHeap(g)
  <2>1. HpShape(g)
    BY <1>1, <1>2, <1>4, <1>7 DEF HpShape
  <2>2. HpLinked(g)
    <3>1. HpLinked(h)
      BY <1>1 DEF HpHeap
    <3>2. ASSUME NEW x \in D \ {HeapEnd}
          PROVE  NextTo(g, x, g.blk[x].next)
                 /\ (g.blk[x].next # HeapEnd => g.blk[g.blk[x].next].prev = x)
      <4>1. /\ NextTo(h, x, h.blk[x].next)
            /\ h.blk[x].next # HeapEnd => h.blk[h.blk[x].next].prev = x
        BY <3>1 DEF HpLinked
      <4>2. g.blk[x].next = h.blk[x].next /\ h.blk[x].next \in D
        BY <1>7, <4>1 DEF NextTo
      <4>3. g.blk[h.blk[x].next].prev = h.blk[h.blk[x].next].prev
        BY <1>7, <4>2
      <4>. QED BY <1>7, <4>1, <4>2, <4>3 DEF NextTo
    <3>3. ASSUME NEW x \in D \ {0, HeapEnd}
          PROVE  g.blk[x].prev \in D \ {HeapEnd} /\ g.blk[g.blk[x].prev].next = x
      BY <1>7, <3>1, <3>3 DEF HpLinked
    <3>. QED BY <1>7, <3>2, <3>3 DEF HpLinked
  <2>. QED BY <2>1, <2>2 DEF HpHeap
<1>9. HpUses(g, B \ {b})
  <2>1. {x \in DOMAIN g.blk \ {HeapEnd} : g.blk[x].used} = {c.at : c \in B \ {b}}
    <3>1. ASSUME NEW x \in D \ {HeapEnd}, g.blk[x].used PROVE \E c \in B \ {b} : x = c.at
      <4>1. x # m /\ h.blk[x].used
        BY <1>7, <3>1
      <4>. QED BY <1>0, <1>1, <4>1 DEF HpUses
    <3>2. ASSUME NEW c \in B \ {b} PROVE c.at \in D \ {HeapEnd} /\ g.blk[c.at].used
      <4>1. c.at # m
        BY <1>0, <1>1 DEF HpUses
      <4>2. c.at \in {x \in D \ {HeapEnd} : h.blk[x].used}
        BY <1>1 DEF HpUses
      <4>. QED BY <1>7, <4>1, <4>2
    <3>. QED BY <1>7, <3>1, <3>2
  <2>2. \A c \in B \ {b} : Room(g, c.at) >= c.size
    <3>1. \A c \in B : c.at \in D
      BY <1>1 DEF HpUses
    <3>. QED BY <1>1, <1>7, <3>1 DEF HpUses, Room
  <2>3. B \ {b} \subseteq HpBlock /\ \A c, e \in B \ {b} : c.at = e.at => c = e
    BY <1>1 DEF HpUses
  <2>. QED BY <1>7, <2>1, <2>2, <2>3 DEF HpUses
<1>10. HpLowest(g, loose)
  <2>1. g.lfree = HeapEnd \/ ~g.blk[g.lfree].used
    <3>1. CASE l = m
      BY <1>2, <1>7, <3>1
    <3>2. CASE l # m
      BY <1>1, <1>4, <1>7, <3>2 DEF HpLowest
    <3>. QED BY <3>1, <3>2
  <2>2. ASSUME ~loose, NEW x \in D \ {HeapEnd}, x < g.lfree PROVE g.blk[x].used
    <3>1. x < h.lfree /\ x # m
      BY <1>1, <1>2, <1>4, <1>7, <2>2
    <3>. QED BY <1>1, <1>7, <2>2, <3>1 DEF HpLowest
  <2>. QED BY <1>7, <2>1, <2>2 DEF HpLowest
<1>11. HpMergedBut(g, m)
  <2>1. \A x \in D \ {HeapEnd} : h.blk[x].next \in D
    BY <1>1 DEF HpHeap, HpLinked, NextTo
  <2>. QED BY <1>1, <1>7, <2>1 DEF HpMerged, HpMergedBut
<1>12. HpSound(PlugHoles(g, m), B \ {b}, loose)
  BY <1>2, <1>7, <1>8, <1>9, <1>10, <1>11, PlugSound DEF HpRight
<1>. QED BY <1>0, <1>5, <1>12 DEF HpFreed

\* A header split off a used block that keeps size words, and merged with the hole after it
LEMMA SplitSound ==
  ASSUME NEW h, NEW B, HpSound(h, B, TRUE), NEW b \in B, NEW size \in Nat,
         NEW n, n = b.at + Header + size, n < h.blk[b.at].next,
         NEW r, r = Split(h, b.at, size)
  PROVE  HpSound(PlugHoles(r, n), (B \ {b}) \cup {[at |-> b.at, size |-> size]}, TRUE)
<1> DEFINE D == DOMAIN h.blk
           m == b.at
           d == [at |-> m, size |-> size]
           C == (B \ {b}) \cup {d}
<1>1. /\ HpHeap(h) /\ HpUses(h, B) /\ HpLowest(h, TRUE) /\ HpMerged(h)
      /\ D \subseteq 0..HeapEnd /\ HeapEnd \in Nat /\ h.lfree \in D
  BY HeapEnds DEF HpSound, HpRight, HpHeap, HpShape
<1>2. m \in D \ {HeapEnd} /\ h.blk[m].used /\ m \in Nat /\ b \in HpBlock
  <2>1. m \in {x \in D \ {HeapEnd} : h.blk[x].used} /\ b \in HpBlock
    BY <1>1 DEF HpUses
  <2>. QED BY <1>1, <2>1
<1>3. IsSplit(r, h, m, n) /\ HpHeap(r)
  BY <1>1, <1>2, SplitIs, SplitKeeps
<1>4. n \notin D /\ n \in Nat /\ DOMAIN r.blk = D \cup {n} /\ n # HeapEnd /\ ~r.blk[n].used
      /\ \A x \in D : r.blk[x].used = h.blk[x].used
  <2>1. HeapEnd \in D
    BY <1>1 DEF HpHeap, HpShape
  <2>. QED BY <1>3, <2>1 DEF IsSplit, HpLike
<1>5. HpUses(r, C)
  <2>0. d \in HpBlock /\ d.at = m /\ d.size = size
    BY <1>2 DEF HpBlock
  <2>1. {x \in DOMAIN r.blk \ {HeapEnd} : r.blk[x].used} = {x \in D \ {HeapEnd} : h.blk[x].used}
    BY <1>4
  <2>2. {c.at : c \in C} = {c.at : c \in B}
    BY <2>0
  <2>3. \A c \in B \ {b} : c.at # m /\ c.at \in D
    BY <1>1 DEF HpUses
  <2>4. \A c, e \in C : c.at = e.at => c = e
    <3> HIDE DEF d
    <3>. QED BY <1>1, <2>0, <2>3 DEF HpUses
  <2>5. ASSUME NEW c \in C PROVE Room(r, c.at) >= c.size
    <3>1. CASE c = d
      <4>1. r.blk[m].next = n
        BY <1>2, <1>3, <1>4 DEF IsSplit
      <4>2. Room(r, m) = size
        BY <1>2, <4>1, HeapEnds DEF Room
      <4>. QED BY <2>0, <3>1, <4>2
    <3>2. CASE c \in B \ {b}
      <4>1. r.blk[c.at].next = h.blk[c.at].next
        BY <1>3, <1>4, <2>3, <3>2 DEF IsSplit
      <4>. QED BY <1>1, <3>2, <4>1 DEF HpUses, Room
    <3>. QED BY <3>1, <3>2
  <2>6. C \subseteq HpBlock
    BY <1>1, <2>0 DEF HpUses
  <2> HIDE DEF C
  <2>. QED BY <1>1, <2>1, <2>2, <2>4, <2>5, <2>6 DEF HpUses
<1>6. HpLowest(r, TRUE)
  BY <1>1, <1>3, <1>4 DEF HpLowest, IsSplit
<1>7. HpMergedBut(r, n)
  <2>1. ASSUME NEW x \in D \ {HeapEnd}, ~r.blk[x].used, ~r.blk[r.blk[x].next].used, r.blk[x].next # n
        PROVE  FALSE
    <3>1. x # m /\ x # n
      BY <1>2, <1>4, <2>1
    <3>2. r.blk[x].next = h.blk[x].next
      BY <1>3, <1>4, <3>1 DEF IsSplit
    <3>3. h.blk[x].next \in D
      BY <1>1 DEF HpHeap, HpLinked, NextTo
    <3>. QED BY <1>1, <1>4, <2>1, <3>2, <3>3 DEF HpMerged
  <2>. QED BY <1>4, <2>1 DEF HpMergedBut
<1>8. HpRight(r, C, TRUE) /\ n \in DOMAIN r.blk \ {HeapEnd}
  BY <1>3, <1>4, <1>5, <1>6 DEF HpRight
<1>. QED BY <1>4, <1>7, <1>8, PlugSound

\* rt_realloc to less
LEMMA ShrinkSound ==
  ASSUME NEW h, NEW B, HpSound(h, B, TRUE), NEW b \in B, NEW size \in Nat,
         size + Header + MinSize < Room(h, b.at)
  PROVE  HpSound(PlugHoles(Split(h, b.at, size), b.at + Header + size),
                 (B \ {b}) \cup {[at |-> b.at, size |-> size]}, TRUE)
<1>1. PICK n : n = b.at + Header + size
  OBVIOUS
<1>2. n < h.blk[b.at].next
  <2>1. b.at \in Nat /\ b.at \in DOMAIN h.blk \ {HeapEnd}
    BY DEF HpSound, HpRight, HpUses, HpBlock
  <2>2. h.blk[b.at].next \in Nat
    BY <2>1 DEF HpSound, HpRight, HpHeap, HpShape, HpEntry
  <2>. QED BY <1>1, <2>1, <2>2, HeapEnds DEF Room
<1>. QED BY <1>1, <1>2, SplitSound

\* rt_malloc: a hole at m, not below lfree, is used for w words, and what is left over is
\* split off if it is large enough
LEMMA AllocatedSound ==
  ASSUME NEW B, NEW loose \in BOOLEAN, HpSound(heap, B, loose),
         NEW m \in DOMAIN heap.blk \ {HeapEnd}, ~heap.blk[m].used, m >= heap.lfree,
         NEW w \in Nat, Room(heap, m) >= w, NEW size \in Nat, size <= w
  PROVE  HpSound(Allocated(m, w), B \cup {[at |-> m, size |-> size]}, loose)
<1> DEFINE D == DOMAIN heap.blk
           d == [at |-> m, size |-> size]
           C == B \cup {d}
<1>1. /\ HpHeap(heap) /\ HpUses(heap, B) /\ HpLowest(heap, loose) /\ HpMerged(heap)
      /\ D \subseteq 0..HeapEnd /\ HeapEnd \in D /\ heap.lfree \in D /\ heap.blk[HeapEnd].used
  BY DEF HpSound, HpRight, HpHeap, HpShape
<1>2. /\ m \in Nat /\ HeapEnd \in Nat /\ m < HeapEnd /\ heap.blk[m].next \in D
      /\ heap.blk[m].next \in Nat /\ heap.blk[heap.blk[m].next].used
  <2>1. heap.blk[m].next \in D
    BY <1>1 DEF HpHeap, HpLinked, NextTo
  <2>. QED BY <1>1, <2>1, HeapEnds DEF HpMerged
<1>3. PICK s : s = IF Room(heap, m) >= w + Header + MinSize THEN Split(heap, m, w) ELSE heap
  OBVIOUS
<1>4. /\ HpHeap(s) /\ s.lfree = heap.lfree /\ D \subseteq DOMAIN s.blk
      /\ \A x \in D : s.blk[x].used = heap.blk[x].used /\ (x # m => s.blk[x].next = heap.blk[x].next)
      /\ \A x \in DOMAIN s.blk \ D : x > m /\ ~s.blk[x].used /\ s.blk[s.blk[x].next].used
      /\ Room(s, m) >= w
  <2>1. CASE Room(heap, m) >= w + Header + MinSize
    <3>1. PICK n : n = m + Header + w
      OBVIOUS
    <3>2. n < heap.blk[m].next /\ n > m /\ n \in Nat
      BY <1>2, <2>1, <3>1, HeapEnds DEF Room
    <3>3. s = Split(heap, m, w)
      BY <1>3, <2>1
    <3>4. IsSplit(s, heap, m, n) /\ HpHeap(s)
      BY <1>1, <3>1, <3>2, <3>3, SplitIs, SplitKeeps
    <3>5. s.blk[m].next = n /\ s.blk[n].next = heap.blk[m].next /\ ~s.blk[n].used
          /\ DOMAIN s.blk = D \cup {n} /\ n \notin D /\ s.lfree = heap.lfree
      BY <3>4 DEF IsSplit, HpLike
    <3>6. Room(s, m) >= w
      BY <1>2, <3>1, <3>5, HeapEnds DEF Room
    <3>7. \A x \in D : s.blk[x].used = heap.blk[x].used /\ (x # m => s.blk[x].next = heap.blk[x].next)
      BY <3>4, <3>5 DEF IsSplit
    <3>. QED BY <1>2, <3>2, <3>4, <3>5, <3>6, <3>7
  <2>2. CASE ~(Room(heap, m) >= w + Header + MinSize)
    BY <1>1, <1>3, <2>2
  <2>. QED BY <2>1, <2>2
<1>5. PICK u : u = [s EXCEPT !.blk[m].used = TRUE]
  OBVIOUS
<1>6. PICK l : l = IF u.lfree = m
                     THEN Min({x \in DOMAIN u.blk : x >= m /\ (~u.blk[x].used \/ x = HeapEnd)})
                     ELSE u.lfree
  OBVIOUS
<1>7. PICK r : r = [u EXCEPT !.lfree = l]
  OBVIOUS
<1>8. Allocated(m, w) = r
  BY <1>3, <1>5, <1>6, <1>7 DEF Allocated
<1>9. /\ s.blk \in [DOMAIN s.blk -> HpEntry] /\ s = [blk |-> s.blk, lfree |-> s.lfree, held |-> s.held]
      /\ m \in DOMAIN s.blk /\ DOMAIN s.blk \subseteq 0..HeapEnd
      /\ {0, HeapEnd} \subseteq DOMAIN s.blk /\ s.blk[HeapEnd].used /\ s.blk[0].prev = 0
  BY <1>4 DEF HpHeap, HpShape
<1>10. u = [blk |-> [s.blk EXCEPT ![m].used = TRUE], lfree |-> s.lfree, held |-> s.held]
  BY <1>5, <1>9
<1>11. /\ DOMAIN u.blk = DOMAIN s.blk /\ u.blk \in [DOMAIN s.blk -> HpEntry]
       /\ \A x \in DOMAIN s.blk :
            /\ u.blk[x].next = s.blk[x].next /\ u.blk[x].prev = s.blk[x].prev
            /\ u.blk[x].used = IF x = m THEN TRUE ELSE s.blk[x].used
  <2>1. u.blk = [s.blk EXCEPT ![m].used = TRUE]
    BY <1>10
  <2>2. \A x \in DOMAIN s.blk : s.blk[x] \in HpEntry
    BY <1>9
  <2>3. \A x \in DOMAIN s.blk : u.blk[x] = IF x = m THEN [s.blk[x] EXCEPT !.used = TRUE] ELSE s.blk[x]
    BY <1>9, <2>1
  <2>4. ASSUME NEW x \in DOMAIN s.blk
        PROVE  /\ u.blk[x] \in HpEntry
               /\ u.blk[x].next = s.blk[x].next /\ u.blk[x].prev = s.blk[x].prev
               /\ u.blk[x].used = IF x = m THEN TRUE ELSE s.blk[x].used
    BY <2>2, <2>3 DEF HpEntry
  <2>5. DOMAIN u.blk = DOMAIN s.blk /\ u.blk \in [DOMAIN s.blk -> HpEntry]
    BY <1>9, <2>1, <2>4
  <2>. QED BY <2>4, <2>5
<1>12. r = [blk |-> u.blk, lfree |-> l, held |-> s.held] /\ u.lfree = heap.lfree
  <2>1. u = [blk |-> u.blk, lfree |-> u.lfree, held |-> u.held] /\ u.lfree = s.lfree /\ u.held = s.held
    BY <1>10
  <2>. QED BY <1>4, <1>7, <2>1
<1>13. /\ DOMAIN r.blk = DOMAIN s.blk /\ r.blk \in [DOMAIN s.blk -> HpEntry] /\ r.lfree = l
       /\ r = [blk |-> r.blk, lfree |-> r.lfree, held |-> r.held]
       /\ \A x \in DOMAIN s.blk :
            /\ r.blk[x].next = s.blk[x].next /\ r.blk[x].prev = s.blk[x].prev
            /\ r.blk[x].used = IF x = m THEN TRUE ELSE s.blk[x].used
  <2>1. r.blk = u.blk
    BY <1>12
  <2>. QED BY <1>11, <1>12, <2>1
<1>0. /\ ~loose => \A x \in D \ {HeapEnd} : x < heap.lfree => heap.blk[x].used
      /\ heap.lfree = HeapEnd \/ ~heap.blk[heap.lfree].used
  BY <1>1 DEF HpLowest
<1>14. /\ l \in DOMAIN s.blk /\ (l = HeapEnd \/ ~r.blk[l].used)
       /\ loose \/ \A x \in DOMAIN s.blk \ {HeapEnd} : x < l => r.blk[x].used
  <2> DEFINE F == {x \in DOMAIN u.blk : x >= m /\ (~u.blk[x].used \/ x = HeapEnd)}
  <2>1. u.lfree = heap.lfree /\ r.blk = u.blk
    BY <1>12
  <2>2. \A x \in DOMAIN s.blk : x \in Nat
    BY <1>2, <1>9
  <2>3. CASE heap.lfree = m
    <3>1. F \in SUBSET Nat /\ HeapEnd \in F
      BY <1>2, <1>9, <1>11, <2>2
    <3>2. l \in F /\ \A x \in F : l <= x
      <4>1. l = Min(F)
        BY <1>6, <2>1, <2>3
      <4> HIDE DEF F
      <4>. QED BY <3>1, <4>1, MinNat
    <3>3. ASSUME ~loose, NEW x \in DOMAIN s.blk \ {HeapEnd}, x < l PROVE r.blk[x].used
      <4>1. CASE x >= m
        <5>1. x \notin F /\ x \in Nat /\ l \in Nat
          BY <2>2, <3>1, <3>2, <3>3
        <5>. QED BY <1>11, <2>1, <3>3, <4>1, <5>1
      <4>2. CASE x < m
        <5>1. x \in D
          BY <1>2, <1>4, <2>2, <3>3, <4>2
        <5>2. heap.blk[x].used
          BY <1>0, <2>3, <3>3, <4>2, <5>1
        <5>3. x # m
          BY <1>2, <2>2, <4>2
        <5>4. s.blk[x].used = heap.blk[x].used /\ x \in DOMAIN s.blk
          BY <1>4, <5>1
        <5>5. r.blk[x].used = s.blk[x].used
          BY <1>13, <5>3, <5>4
        <5>. QED BY <5>2, <5>4, <5>5
      <4>. QED BY <1>2, <2>2, <4>1, <4>2
    <3>. QED BY <1>11, <2>1, <3>2, <3>3
  <2>4. CASE heap.lfree # m
    <3>1. l = heap.lfree /\ l \in D /\ l < m
      BY <1>1, <1>2, <1>6, <2>1, <2>4
    <3>2. ASSUME ~loose, NEW x \in DOMAIN s.blk \ {HeapEnd}, x < l PROVE r.blk[x].used
      <4>1. x \in Nat /\ l \in Nat /\ x < m
        BY <1>2, <1>4, <2>2, <3>1, <3>2
      <4>2. x \in D /\ x # m
        BY <1>2, <1>4, <4>1
      <4>3. heap.blk[x].used
        BY <1>0, <3>1, <3>2, <4>2
      <4>4. s.blk[x].used = heap.blk[x].used /\ x \in DOMAIN s.blk
        BY <1>4, <4>2
      <4>5. r.blk[x].used = s.blk[x].used
        BY <1>13, <4>2, <4>4
      <4>. QED BY <4>3, <4>4, <4>5
    <3>3. l = HeapEnd \/ ~r.blk[l].used
      <4>1. l = HeapEnd \/ ~heap.blk[l].used
        BY <1>0, <3>1
      <4>2. s.blk[l].used = heap.blk[l].used /\ l \in DOMAIN s.blk /\ l # m
        BY <1>2, <1>4, <3>1
      <4>3. r.blk[l].used = s.blk[l].used
        BY <1>13, <4>2
      <4>. QED BY <4>1, <4>2, <4>3
    <3>. QED BY <1>4, <3>1, <3>2, <3>3
  <2>. QED BY <2>3, <2>4
<1>15. HpHeap(r)
  <2>1. HpShape(r)
    BY <1>9, <1>13, <1>14 DEF HpShape
  <2>2. HpLinked(r)
    <3>1. HpLinked(s)
      BY <1>4 DEF HpHeap
    <3>2. ASSUME NEW x \in DOMAIN s.blk \ {HeapEnd}
          PROVE  NextTo(r, x, r.blk[x].next)
                 /\ (r.blk[x].next # HeapEnd => r.blk[r.blk[x].next].prev = x)
      <4>1. /\ NextTo(s, x, s.blk[x].next)
            /\ s.blk[x].next # HeapEnd => s.blk[s.blk[x].next].prev = x
        BY <3>1 DEF HpLinked
      <4>2. r.blk[x].next = s.blk[x].next /\ s.blk[x].next \in DOMAIN s.blk
        BY <1>13, <4>1 DEF NextTo
      <4>3. r.blk[s.blk[x].next].prev = s.blk[s.blk[x].next].prev
        BY <1>13, <4>2
      <4>. QED BY <1>13, <4>1, <4>2, <4>3 DEF NextTo
    <3>3. ASSUME NEW x \in DOMAIN s.blk \ {0, HeapEnd}
          PROVE  r.blk[x].prev \in DOMAIN s.blk \ {HeapEnd} /\ r.blk[r.blk[x].prev].next = x
      <4>1. s.blk[x].prev \in DOMAIN s.blk \ {HeapEnd} /\ s.blk[s.blk[x].prev].next = x
        BY <3>1 DEF HpLinked
      <4>. QED BY <1>13, <4>1
    <3>. QED BY <1>13, <3>2, <3>3 DEF HpLinked
  <2>. QED BY <2>1, <2>2 DEF HpHeap
<1>16. HpUses(r, C)
  <2>0. d \in HpBlock /\ d.at = m /\ d.size = size
    BY <1>2 DEF HpBlock
  <2>1. {x \in DOMAIN r.blk \ {HeapEnd} : r.blk[x].used} = {x \in D \ {HeapEnd} : heap.blk[x].used} \cup {m}
    <3>1. \A x \in D : r.blk[x].used <=> x = m \/ heap.blk[x].used
      BY <1>4, <1>13
    <3>2. \A x \in DOMAIN s.blk \ D : ~r.blk[x].used
      <4>1. \A x \in DOMAIN s.blk \ D : x # m
        OBVIOUS
      <4>. QED BY <1>4, <1>13, <4>1
    <3>. QED BY <1>4, <1>13, <3>1, <3>2
  <2>2. {c.at : c \in C} = {c.at : c \in B} \cup {m}
    BY <2>0
  <2>3. \A c \in B : c.at # m /\ c.at \in D
    BY <1>1 DEF HpUses
  <2>4. \A c, e \in C : c.at = e.at => c = e
    <3> HIDE DEF d
    <3>. QED BY <1>1, <2>0, <2>3 DEF HpUses
  <2>5. ASSUME NEW c \in C PROVE Room(r, c.at) >= c.size
    <3>1. CASE c = d
      <4>1. Room(r, m) = Room(s, m)
        BY <1>4, <1>13 DEF Room
      <4>2. Room(s, m) \in Int
        <5>1. s.blk[m].next \in Nat
          BY <1>9 DEF HpEntry
        <5>. QED BY <1>2, <5>1, HeapEnds DEF Room
      <4>. QED BY <1>4, <2>0, <3>1, <4>1, <4>2
    <3>2. CASE c \in B
      <4>1. r.blk[c.at].next = heap.blk[c.at].next
        BY <1>4, <1>13, <2>3, <3>2
      <4>. QED BY <1>1, <3>2, <4>1 DEF HpUses, Room
    <3>. QED BY <3>1, <3>2
  <2>6. C \subseteq HpBlock
    BY <1>1, <2>0 DEF HpUses
  <2>7. {x \in D \ {HeapEnd} : heap.blk[x].used} = {c.at : c \in B}
    BY <1>1 DEF HpUses
  <2> HIDE DEF C
  <2>. QED BY <2>1, <2>2, <2>4, <2>5, <2>6, <2>7 DEF HpUses
<1>17. HpLowest(r, loose)
  BY <1>13, <1>14 DEF HpLowest
<1>18. HpMerged(r)
  <2>1. ASSUME NEW x \in DOMAIN s.blk \ {HeapEnd}, ~r.blk[x].used PROVE r.blk[r.blk[x].next].used
    <3>1. x # m /\ ~s.blk[x].used /\ r.blk[x].next = s.blk[x].next
      BY <1>13, <2>1
    <3>2. s.blk[x].next \in DOMAIN s.blk
      BY <1>4, <2>1 DEF HpHeap, HpLinked, NextTo
    <3>3. s.blk[s.blk[x].next].used
      <4>1. CASE x \in D
        <5>1. s.blk[x].next = heap.blk[x].next /\ ~heap.blk[x].used
          BY <1>4, <3>1, <4>1
        <5>2. heap.blk[x].next \in D /\ heap.blk[heap.blk[x].next].used
          BY <1>1, <2>1, <4>1, <5>1 DEF HpHeap, HpLinked, NextTo, HpMerged
        <5>. QED BY <1>4, <5>1, <5>2
      <4>2. CASE x \notin D
        BY <1>4, <2>1, <4>2
      <4>. QED BY <4>1, <4>2
    <3>. QED BY <1>13, <3>1, <3>2, <3>3
  <2>. QED BY <1>13, <2>1 DEF HpMerged
<1> HIDE DEF C
<1>. QED BY <1>8, <1>15, <1>16, <1>17, <1>18 DEF HpSound, HpRight, C

-----------------------------------------------------------------------------
(***************************************************************************)
(* The places that are one object's own: of the work queue, of an          *)
(* rt_realloc that moves its block, of a pipe, and of a wait queue.  The   *)
(* steps of the other objects keep away from them.                         *)
(***************************************************************************)
WkPlaces == {"wk_suspend", "wk_pick", "wk_do", "wk_resume"}
HpPlaces == {"hp_grow", "hp_move"}
OwnPlaces == WkPlaces \cup HpPlaces \cup PipePlaces \cup {"unqueue"}

\* The running thread neither leaves a place of Q nor comes to one, and starts a call only if
\* it makes others than those of A
Aloof(Q, A) ==
  /\ pc[k.cur] \in Q \/ pc'[k.cur] \in Q => pc'[k.cur] = pc[k.cur] /\ CallKept(k.cur)
  /\ pc[k.cur] = "run" => pc'[k.cur] = "run" \/ k.cur = Idle \/ \E op \in use.calls[k.cur] : op \notin A

LEMMA AloofLess ==
  ASSUME NEW P, NEW Q, Q \subseteq P, NEW A, NEW B, B \subseteq A, Aloof(P, A)
  PROVE  Aloof(Q, B)
BY DEF Aloof

\* A handler, or a step that leaves the callers alone
LEMMA SitAloof ==
  ASSUME Core, pc' = pc, CallsKept(Thread), NEW Q, NEW A
  PROVE  Aloof(Q, A)
<1>1. k.cur \in Thread
  BY KernelFunctions DEF Core
<1>. QED BY <1>1 DEF Aloof, CallsKept

LEMMA RestAloof ==
  ASSUME Core, pc' = pc, call' = call, NEW Q, NEW A
  PROVE  Aloof(Q, A)
<1>1. CallsKept(Thread)
  BY DEF CallsKept, CallKept, Core, PlacePart
<1>. QED BY <1>1, SitAloof

\* Thread t goes from a place that is not in Q to another one
LEMMA GoAloof ==
  ASSUME Core, NEW t \in Running, NEW p, Goto(t, p), NEW Q, NEW A, pc[t] \notin Q, p \notin Q,
         pc[t] = "run" => t = Idle \/ \E op \in use.calls[t] : op \notin A
  PROVE  Aloof(Q, A)
<1>1. t = k.cur /\ t \in Thread /\ pc'[t] = p
  BY PlaceTypes DEF Running, Goto
<1>. QED BY <1>1 DEF Aloof

\* Where calls end
Ends == {"post", "ret", "run", "schedule", "detach"}

LEMMA EndsGo ==
  ASSUME NEW t, \/ \E woke, v : Finish(t, woke, v)
                \/ \E c, kk : Block(t, c, kk)
                \/ Refuse(t) \/ Fail(t)
                \/ \E op, o, lists : Detach(t, op, o, lists)
  PROVE  \E p \in Ends : Goto(t, p)
<1>1. ASSUME NEW woke, NEW v, Finish(t, woke, v) PROVE \E p \in Ends : Goto(t, p)
  BY <1>1 DEF Finish, Ends
<1>. QED BY <1>1 DEF Block, Refuse, Fail, Detach, Ends

LEMMA EndsOwn == \A p \in Ends : p \notin OwnPlaces
BY DEF Ends, OwnPlaces, WkPlaces, HpPlaces, PipePlaces

\* A call of o by t in op
LEMMA StartAloof ==
  ASSUME Core, NEW t \in Running, NEW op, NEW o, Starts(t, op, o), NEW Q \in SUBSET OwnPlaces,
         NEW p, p \notin Q, Goto(t, p), NEW A, op \notin A
  PROVE  Aloof(Q, A)
<1>1. pc[t] = "run" /\ op \in use.calls[t] /\ "run" \notin Q
  BY DEF Starts, At, OwnPlaces, WkPlaces, HpPlaces, PipePlaces
<1>. QED BY <1>1, GoAloof

\* ... that may have waited
LEMMA TestAloof ==
  ASSUME Core, NEW t \in Running, NEW c, (\E o : Tests(t, c, o) \/ Enters(t, c, o)) \/ DqTests(t, c),
         NEW p \in Ends \cup {"link", "copy"}, Goto(t, p), NEW A, c.op \notin A
  PROVE  Aloof(OwnPlaces, A)
<1>1. pc[t] \in {"run", "again"} /\ (pc[t] = "run" => c.op \in use.calls[t])
  BY DEF Tests, Enters, Again, DqTests, Starts, At
<1>2. pc[t] \notin OwnPlaces /\ p \notin OwnPlaces
  BY <1>1 DEF Ends, OwnPlaces, WkPlaces, HpPlaces, PipePlaces
<1>. QED BY <1>1, <1>2, GoAloof

\* ... or waits in it
LEMMA InsideAloof ==
  ASSUME Core, NEW t \in Running, pc[t] \notin {"run"} \cup OwnPlaces,
         NEW p, p \notin OwnPlaces, Goto(t, p), NEW A
  PROVE  Aloof(OwnPlaces, A)
BY GoAloof

Works == {"wk_work"}

LEMMA MbAloof ==
  ASSUME Core, MbNext
  PROVE  Aloof(OwnPlaces, Works)
<1>1. ASSUME NEW t \in Running, NEW c \in SendMail, MbSend(t, c) \/ MbSendWait(t, c) \/ MbSendRefused(t, c)
      PROVE  Aloof(OwnPlaces, Works)
  <2>1. \E p \in Ends : Goto(t, p)
    BY <1>1, EndsGo DEF MbSend, MbSendWait, MbSendRefused, WaitOn
  <2>2. c.op = "mb_send" /\ \E o : Tests(t, c, o)
    BY <1>1, SendsMail DEF MbSend, MbSendWait, MbSendRefused
  <2>. QED BY <2>1, <2>2, TestAloof DEF Works
<1>2. ASSUME NEW t \in Running, NEW c \in RecvMail, MbRecv(t, c) \/ MbRecvWait(t, c) \/ MbRecvRefused(t, c)
      PROVE  Aloof(OwnPlaces, Works)
  <2>1. \E p \in Ends : Goto(t, p)
    BY <1>2, EndsGo DEF MbRecv, MbRecvWait, MbRecvRefused, WaitOn
  <2>2. c.op = "mb_recv" /\ \E o : Tests(t, c, o)
    BY <1>2, ReceivesMail DEF MbRecv, MbRecvWait, MbRecvRefused
  <2>. QED BY <2>1, <2>2, TestAloof DEF Works
<1>3. ASSUME NEW t \in Running, MbFail(t) PROVE Aloof(OwnPlaces, Works)
  <2>1. pc[t] \notin {"run"} \cup OwnPlaces
    BY <1>3 DEF MbFail, Failed, At, OwnPlaces, WkPlaces, HpPlaces, PipePlaces
  <2>. QED BY <1>3, <2>1, EndsGo, EndsOwn, InsideAloof DEF MbFail
<1>4. ASSUME NEW t \in Running, MbReset(t) \/ MbDetach(t) PROVE Aloof(OwnPlaces, Works)
  <2>1. \E op, o : Starts(t, op, o) /\ op \notin Works
    BY <1>4 DEF MbReset, MbDetach, Detach, Works
  <2>2. \E p \in Ends : Goto(t, p)
    BY <1>4 DEF MbReset, MbDetach, Detach, Ends
  <2>. QED BY <2>1, <2>2, EndsOwn, StartAloof
<1>5. ASSUME NEW v, MbIsrSend(v) PROVE Aloof(OwnPlaces, Works)
  BY <1>5, RestAloof DEF MbIsrSend
<1>. QED BY <1>1, <1>2, <1>3, <1>4, <1>5 DEF MbNext

\* In a call that has waited, or in the copy of a message
LEMMA InsideEnds ==
  ASSUME Core, NEW t \in Running, pc[t] \in {"again", "link", "copy", "done", "detach", "wake"},
         NEW p \in Ends \cup {"wake"}, Goto(t, p), NEW A
  PROVE  Aloof(OwnPlaces, A)
<1>1. pc[t] \notin {"run"} \cup OwnPlaces /\ p \notin OwnPlaces
  BY EndsOwn DEF OwnPlaces, WkPlaces, HpPlaces, PipePlaces
<1>. QED BY <1>1, InsideAloof

LEMMA MqAloof ==
  ASSUME Core, MqNext
  PROVE  Aloof(OwnPlaces, Works)
<1>1. ASSUME NEW t \in Running, NEW c \in RecvMessage, MqRecv(t, c) \/ MqRecvWait(t, c) \/ MqRecvRefused(t, c)
      PROVE  Aloof(OwnPlaces, Works)
  <2>1. \E p \in Ends \cup {"link", "copy"} : Goto(t, p)
    <3>1. CASE MqRecv(t, c)
      BY <3>1 DEF MqRecv
    <3>2. CASE MqRecvWait(t, c) \/ MqRecvRefused(t, c)
      BY <3>2, EndsGo DEF MqRecvWait, MqRecvRefused, WaitOn
    <3>. QED BY <1>1, <3>1, <3>2
  <2>2. c.op = "mq_recv" /\ \E o : Tests(t, c, o)
    BY <1>1, ReceivesMessage DEF MqRecv, MqRecvWait, MqRecvRefused
  <2>. QED BY <2>1, <2>2, TestAloof DEF Works
<1>2. ASSUME NEW t \in Running, NEW c \in SendMessage, MqSend(t, c) PROVE Aloof(OwnPlaces, Works)
  <2>1. c.op \notin Works /\ Starts(t, c.op, "mq") /\ Goto(t, "link")
    BY <1>2 DEF MqSend, SendMessage, Works
  <2>2. "link" \notin OwnPlaces
    BY DEF OwnPlaces, WkPlaces, HpPlaces, PipePlaces
  <2>. QED BY <2>1, <2>2, StartAloof
<1>3. ASSUME NEW t \in Running, MqFail(t) \/ MqLink(t) \/ MqCopy(t) PROVE Aloof(OwnPlaces, Works)
  <2>1. pc[t] \in {"again", "link", "copy"}
    BY <1>3 DEF MqFail, MqLink, MqCopy, Failed, At
  <2>2. \E p \in Ends : Goto(t, p)
    BY <1>3, EndsGo DEF MqFail, MqLink, MqCopy
  <2>. QED BY <2>1, <2>2, InsideEnds
<1>4. ASSUME NEW t \in Running, MqReset(t) \/ MqDetach(t) PROVE Aloof(OwnPlaces, Works)
  <2>1. \E op, o : Starts(t, op, o) /\ op \notin Works
    BY <1>4 DEF MqReset, MqDetach, Detach, Works
  <2>2. \E p \in Ends : Goto(t, p)
    BY <1>4 DEF MqReset, MqDetach, Detach, Ends
  <2>. QED BY <2>1, <2>2, EndsOwn, StartAloof
<1>5. ASSUME NEW v, MqIsrSend(v) PROVE Aloof(OwnPlaces, Works)
  BY <1>5, RestAloof DEF MqIsrSend
<1>. QED BY <1>1, <1>2, <1>3, <1>4, <1>5 DEF MqNext

LEMMA EvAloof ==
  ASSUME Core, EvNext
  PROVE  Aloof(OwnPlaces, Works)
<1>1. ASSUME NEW t \in Running, NEW c \in RecvEvent, EvRecv(t, c) \/ EvRecvWait(t, c) \/ EvRecvRefused(t, c)
      PROVE  Aloof(OwnPlaces, Works)
  <2>1. \E p \in Ends : Goto(t, p)
    BY <1>1, EndsGo DEF EvRecv, EvRecvWait, EvRecvRefused, WaitOn
  <2>2. c.op = "ev_recv" /\ \E o : Tests(t, c, o) \/ Enters(t, c, o)
    BY <1>1, WishesEvent DEF EvRecv, EvRecvWait, EvRecvRefused
  <2>. QED BY <2>1, <2>2, TestAloof DEF Works
<1>2. ASSUME NEW t \in Running, EvReceived(t) \/ EvFail(t) PROVE Aloof(OwnPlaces, Works)
  <2>1. pc[t] \in {"again"}
    BY <1>2 DEF EvReceived, EvFail, Failed, At
  <2>2. \E p \in Ends : Goto(t, p)
    BY <1>2, EndsGo DEF EvReceived, EvFail
  <2>. QED BY <2>1, <2>2, InsideEnds
<1>3. ASSUME NEW t \in Running, NEW set, EvSend(t, set) \/ EvReset(t) \/ EvDetach(t)
      PROVE  Aloof(OwnPlaces, Works)
  <2>1. \E op, o : Starts(t, op, o) /\ op \notin Works
    BY <1>3 DEF EvSend, EvReset, EvDetach, Detach, Works
  <2>2. \E p \in Ends : Goto(t, p)
    BY <1>3 DEF EvSend, EvReset, EvDetach, Detach, Ends
  <2>. QED BY <2>1, <2>2, EndsOwn, StartAloof
<1>4. ASSUME NEW set, EvIsrSend(set) PROVE Aloof(OwnPlaces, Works)
  BY <1>4, EvPassKeeps, SitAloof DEF EvIsrSend
<1>. QED BY <1>1, <1>2, <1>3, <1>4 DEF EvNext

LEMMA MpAloof ==
  ASSUME Core, MpNext
  PROVE  Aloof(OwnPlaces, Works)
<1>1. ASSUME NEW t \in Running, NEW c \in AllocBlock, MpAlloc(t, c) \/ MpAllocWait(t, c) \/ MpAllocRefused(t, c)
      PROVE  Aloof(OwnPlaces, Works)
  <2>1. \E p \in Ends : Goto(t, p)
    BY <1>1, EndsGo DEF MpAlloc, MpAllocWait, MpAllocRefused
  <2>2. c.op = "mp_alloc" /\ \E o : Tests(t, c, o)
    BY <1>1, AllocatesBlock DEF MpAlloc, MpAllocWait, MpAllocRefused
  <2>. QED BY <2>1, <2>2, TestAloof DEF Works
<1>2. ASSUME NEW t \in Running, MpFail(t) \/ MpDetachWake(t) PROVE Aloof(OwnPlaces, Works)
  <2>1. pc[t] \in {"again", "wake"}
    BY <1>2 DEF MpFail, MpDetachWake, ListWake, Failed, At
  <2>2. \E p \in Ends : Goto(t, p)
    BY <1>2 DEF MpFail, Fail, MpDetachWake, ListWake, Ends
  <2>. QED BY <2>1, <2>2, InsideEnds
<1>3. ASSUME NEW t \in Running, NEW b, MpFree(t, b) \/ MpDetach(t) PROVE Aloof(OwnPlaces, Works)
  <2>1. \E op, o : Starts(t, op, o) /\ op \notin Works
    BY <1>3 DEF MpFree, MpDetach, Detach, Works
  <2>2. \E p \in Ends : Goto(t, p)
    BY <1>3 DEF MpFree, MpDetach, Detach, Ends
  <2>. QED BY <2>1, <2>2, EndsOwn, StartAloof
<1>4. ASSUME NEW b, MpIsrFree(b) PROVE Aloof(OwnPlaces, Works)
  BY <1>4, RestAloof DEF MpIsrFree
<1>. QED BY <1>1, <1>2, <1>3, <1>4 DEF MpNext

LEMMA DqAloof ==
  ASSUME Core, DqNext
  PROVE  Aloof(OwnPlaces, Works)
<1>1. ASSUME NEW t \in Running, NEW c \in PushDatum, DqPush(t, c) \/ DqPushWait(t, c) \/ DqPushRefused(t, c)
      PROVE  Aloof(OwnPlaces, Works)
  <2>1. \E p \in Ends : Goto(t, p)
    BY <1>1, EndsGo DEF DqPush, DqPushWait, DqPushRefused
  <2>2. c.op = "dq_push" /\ DqTests(t, c)
    BY <1>1, PushesDatum DEF DqPush, DqPushWait, DqPushRefused
  <2>. QED BY <2>1, <2>2, TestAloof DEF Works
<1>2. ASSUME NEW t \in Running, NEW c \in PopDatum, DqPop(t, c) \/ DqPopWait(t, c) \/ DqPopRefused(t, c)
      PROVE  Aloof(OwnPlaces, Works)
  <2>1. \E p \in Ends : Goto(t, p)
    BY <1>2, EndsGo DEF DqPop, DqPopWait, DqPopRefused
  <2>2. c.op = "dq_pop" /\ DqTests(t, c)
    BY <1>2, PopsDatum DEF DqPop, DqPopWait, DqPopRefused
  <2>. QED BY <2>1, <2>2, TestAloof DEF Works
<1>3. ASSUME NEW t \in Running, DqFail(t) \/ DqResetEnd(t) PROVE Aloof(OwnPlaces, Works)
  <2>1. pc[t] \in {"again", "detach"}
    BY <1>3 DEF DqFail, DqResetEnd, Failed, At
  <2>2. \E p \in Ends : Goto(t, p)
    BY <1>3 DEF DqFail, Fail, DqResetEnd, Ends
  <2>. QED BY <2>1, <2>2, InsideEnds
<1>4. ASSUME NEW t \in Running, DqReset(t) PROVE Aloof(OwnPlaces, Works)
  <2>1. Starts(t, "dq_reset", "dq") /\ "dq_reset" \notin Works /\ Goto(t, "detach") /\ "detach" \in Ends
    BY <1>4 DEF DqReset, Works, Ends
  <2>. QED BY <2>1, EndsOwn, StartAloof
<1>5. ASSUME NEW v, DqIsrPush(v) \/ DqIsrPop PROVE Aloof(OwnPlaces, Works)
  BY <1>5, RestAloof DEF DqIsrPush, DqIsrPop
<1>. QED BY <1>1, <1>2, <1>3, <1>4, <1>5 DEF DqNext

LEMMA CpAloof ==
  ASSUME Core, CpNext
  PROVE  Aloof(OwnPlaces, Works)
<1>1. ASSUME NEW t \in Running, NEW c \in WaitDone, CpWaitDone(t, c) \/ CpWait(t, c) \/ CpWaitRefused(t, c)
      PROVE  Aloof(OwnPlaces, Works)
  <2>1. \E p \in Ends : Goto(t, p)
    BY <1>1, EndsGo DEF CpWaitDone, CpWait, CpWaitRefused
  <2>2. c.op = "cp_wait" /\ \E o : Enters(t, c, o)
    BY <1>1, WaitsDone DEF CpWaitDone, CpWait, CpWaitRefused
  <2>. QED BY <2>1, <2>2, TestAloof DEF Works
<1>2. ASSUME NEW t \in Running, CpReturn(t) \/ CpDone(t) PROVE Aloof(OwnPlaces, Works)
  <2>1. pc[t] \in {"again", "done"}
    BY <1>2 DEF CpReturn, CpDone, At
  <2>2. \E p \in Ends : Goto(t, p)
    BY <1>2, EndsGo DEF CpReturn, CpDone
  <2>. QED BY <2>1, <2>2, InsideEnds
<1>3. ASSUME NEW t \in Running, CpDoneTest(t) PROVE Aloof(OwnPlaces, Works)
  <2>1. Starts(t, "cp_done", "cp") /\ "cp_done" \notin Works /\ Goto(t, "done") /\ "done" \notin OwnPlaces
    BY <1>3 DEF CpDoneTest, Works, OwnPlaces, WkPlaces, HpPlaces, PipePlaces
  <2>. QED BY <2>1, StartAloof
<1>4. CASE CpIsrDone
  BY <1>4, RestAloof DEF CpIsrDone
<1>. QED BY <1>1, <1>2, <1>3, <1>4 DEF CpNext

LEMMA RbAloof ==
  ASSUME Core, RbNext \/ RbbNext
  PROVE  Aloof(OwnPlaces, Works)
BY RestAloof DEF RbNext, RbDoGet, RbDoPut, RbDoForce, RbDoCharForce, RbReset, RbbNext, caller

LEMMA CallerAloof ==
  ASSUME Core, CallerStep
  PROVE  Aloof(OwnPlaces, Works)
<1>1. CASE Tick \/ \E t \in Thread : Expire(t)
  BY <1>1, RestAloof DEF Tick, Expire
<1>2. ASSUME NEW t \in Running,
             \/ CallSchedule(t) \/ PostSchedule(t) \/ Return(t)
             \/ ListTest(t) \/ DetachObject(t) \/ ListWake(t)
      PROVE  Aloof(OwnPlaces, Works)
  <2>1. pc[t] \notin {"run"} \cup OwnPlaces
    BY <1>2 DEF CallSchedule, PostSchedule, Return, ListTest, DetachObject, ListWake, At,
                OwnPlaces, WkPlaces, HpPlaces, PipePlaces
  <2>2. ASSUME NEW p \in {"again", "run", "wake", "detach"}, Goto(t, p) PROVE Aloof(OwnPlaces, Works)
    BY <2>1, <2>2, InsideAloof DEF OwnPlaces, WkPlaces, HpPlaces, PipePlaces
  <2>3. CASE pc' = pc
    <3>1. t = k.cur
      BY DEF Running
    <3>. QED BY <2>1, <2>3, <3>1 DEF Aloof
  <2>. QED BY <1>2, <2>2, <2>3 DEF CallSchedule, PostSchedule, Return, ListTest, DetachObject, ListWake
<1>3. ASSUME NEW t \in Running, Sleep(t) PROVE Aloof(OwnPlaces, Works)
  <2>1. pc[t] = "run" /\ "sleep" \in use.calls[t] /\ "sleep" \notin Works /\ Goto(t, "post")
    BY <1>3 DEF Sleep, At, Works
  <2>2. "run" \notin OwnPlaces /\ "post" \notin OwnPlaces
    BY DEF OwnPlaces, WkPlaces, HpPlaces, PipePlaces
  <2>. QED BY <2>1, <2>2, GoAloof
<1>. QED BY <1>1, <1>2, <1>3 DEF CallerStep

Elsewhere == OnPlaces \cup {"run", "ret", "again", "schedule", "post", "sr_get", "sr_wait", "sr_put",
                            "sr_busy", "sr_length", "sr_wake"}

LEMMA ElsewhereAloof ==
  ASSUME Core, NEW t \in Running, pc[t] \in Elsewhere, NEW p \in Elsewhere, Goto(t, p), NEW A,
         pc[t] = "run" => t = Idle \/ \E op \in use.calls[t] : op \notin A
  PROVE  Aloof(OwnPlaces, A)
<1>1. \A q \in Elsewhere : q \notin OwnPlaces
  BY DEF Elsewhere, OnPlaces, OwnPlaces, WkPlaces, HpPlaces, PipePlaces
<1>. QED BY <1>1, GoAloof

LEMMA OnAloof ==
  ASSUME Core, OnNext
  PROVE  Aloof(OwnPlaces, Works)
<1>1. ASSUME NEW t \in Running, NEW op, NEW result, OnReturns(t, op, result)
      PROVE  \E p \in Elsewhere : Goto(t, p)
  <2>1. \E v : Finish(t, FALSE, v)
    BY <1>1 DEF OnReturns
  <2>. QED BY <2>1 DEF Finish, Elsewhere
<1>2. ASSUME NEW t \in Running, NEW c, NEW p \in OnPlaces, OnGoes(t, c, p)
      PROVE  \E q \in Elsewhere : Goto(t, q)
  BY <1>2 DEF OnGoes, Elsewhere
<1>3. ASSUME NEW t \in Running, NEW op, NEW far, OnOpenFails(t, op, far)
      PROVE  \E q \in Elsewhere : Goto(t, q)
  <2>1. "on_close" \in OnPlaces
    BY DEF OnPlaces
  <2>. QED BY <1>1, <1>2, <1>3, <2>1 DEF OnOpenFails
<1>4. {"on_objects", "on_open", "on_asked", "on_recv", "on_got"} \subseteq OnPlaces
  BY DEF OnPlaces
<1>5. ASSUME NEW t \in Running,
             \/ OnStart(t) \/ OnObjects(t) \/ OnAsked(t)
             \/ OnOpen(t, "on_open") \/ OnOpen(t, "on_start")
             \/ OnClose(t, "on_close") \/ OnClose(t, "on_start")
             \/ OnRequest(t, "on_update", "update", UpdateBit)
             \/ OnRequest(t, "on_notify", "notify", NotifyBit)
      PROVE  Aloof(OwnPlaces, Works)
  <2>1. \E p \in Elsewhere : Goto(t, p)
    <3>1. CASE OnStart(t)
      BY <3>1, <1>2, <1>3, <1>4 DEF OnStart
    <3>2. CASE OnObjects(t) \/ OnAsked(t)
      BY <3>2, <1>2, <1>4 DEF OnObjects, OnAsked
    <3>3. ASSUME NEW op, OnOpen(t, op) PROVE \E p \in Elsewhere : Goto(t, p)
      BY <3>3, <1>2, <1>3, <1>4 DEF OnOpen
    <3>4. ASSUME NEW op, OnClose(t, op) PROVE \E p \in Elsewhere : Goto(t, p)
      BY <3>4, <1>1, <1>2, <1>4 DEF OnClose
    <3>5. ASSUME NEW op, NEW r, NEW bits, OnRequest(t, op, r, bits) PROVE \E p \in Elsewhere : Goto(t, p)
      BY <3>5, <1>1, <1>2, <1>4 DEF OnRequest
    <3>. QED BY <1>5, <3>1, <3>2, <3>3, <3>4, <3>5
  <2>2. \/ pc[t] \in OnPlaces
        \/ \E op \in {"on_start", "on_open", "on_close", "on_update", "on_notify"} : OnBegins(t, op)
    BY <1>5 DEF OnStart, OnObjects, OnAsked, OnOpen, OnClose, OnRequest, At, OnPlaces
  <2>3. ASSUME NEW op \in {"on_start", "on_open", "on_close", "on_update", "on_notify"}, OnBegins(t, op)
        PROVE  pc[t] = "run" /\ op \in use.calls[t] /\ op \notin Works
    BY <2>3 DEF OnBegins, Starts, At, Works
  <2>4. pc[t] \in Elsewhere /\ (pc[t] = "run" => \E op \in use.calls[t] : op \notin Works)
    BY <2>2, <2>3 DEF Elsewhere, OnPlaces
  <2>. QED BY <2>1, <2>4, ElsewhereAloof
<1>6. ASSUME NEW t \in Running,
             \/ OnRecv(t) \/ OnRecvWait(t) \/ OnReceived(t) \/ OnTimeout(t)
             \/ OnRegistered(t) \/ OnObserved(t) \/ OnDiscovered(t)
             \/ OnClosed(t) \/ OnUpdated(t) \/ OnNotified(t)
      PROVE  Aloof(OwnPlaces, Works)
  <2>1. pc[t] \in OnPlaces \cup {"again"}
    BY <1>6 DEF OnRecv, OnRecvWait, OnReceived, OnTimeout, OnRegistered, OnObserved, OnDiscovered,
                OnClosed, OnUpdated, OnNotified, Received, Failed, At, OnPlaces
  <2>2. \E p \in Elsewhere : Goto(t, p)
    <3>1. CASE OnRecv(t) \/ OnReceived(t)
      BY <3>1, <1>2, <1>4 DEF OnRecv, OnReceived
    <3>2. CASE OnRecvWait(t)
      BY <3>2 DEF OnRecvWait, WaitOn, Block, Elsewhere
    <3>3. CASE OnTimeout(t)
      BY <3>3, <1>1, <1>3 DEF OnTimeout
    <3>4. CASE OnRegistered(t) \/ OnObserved(t) \/ OnDiscovered(t)
      BY <3>4, <1>1, <1>2, <1>3, <1>4 DEF OnRegistered, OnObserved, OnDiscovered
    <3>5. CASE OnClosed(t) \/ OnUpdated(t) \/ OnNotified(t)
      BY <3>5, <1>1 DEF OnClosed, OnUpdated, OnNotified
    <3>. QED BY <1>6, <3>1, <3>2, <3>3, <3>4, <3>5
  <2>3. pc[t] \in Elsewhere /\ pc[t] # "run"
    BY <2>1 DEF Elsewhere, OnPlaces
  <2>. QED BY <2>2, <2>3, ElsewhereAloof
<1>7. CASE (\E t \in Running : OnDelete(t)) \/ (CisNext /\ ~CisSend)
  BY <1>7, RestAloof DEF OnDelete, CisNext, caller
<1>8. CASE CisSend
  BY <1>8, EvPassKeeps, SitAloof DEF CisSend
<1>. QED BY <1>5, <1>6, <1>7, <1>8 DEF OnNext

LEMMA SrAloof ==
  ASSUME Core, SrNext
  PROVE  Aloof(WkPlaces \cup HpPlaces \cup PipePlaces, Works)
<1>0. WkPlaces \cup HpPlaces \cup PipePlaces \subseteq OwnPlaces /\ Works \subseteq Works
  BY DEF OwnPlaces
<1>1. ASSUME NEW t \in Running, NEW n, SrRead(t, n) \/ SrWrite(t, n) PROVE Aloof(OwnPlaces, Works)
  <2>1. PICK op \in {"sr_read", "sr_write"} : \E p \in {"sr_get", "sr_put"} : SrStarts(t, op, n, p)
    BY <1>1 DEF SrRead, SrWrite
  <2>2. pc[t] = "run" /\ op \in use.calls[t] /\ op \notin Works /\ \E p \in {"sr_get", "sr_put"} : Goto(t, p)
    BY <2>1 DEF SrStarts, Starts, At, Works
  <2>. QED BY <2>2, ElsewhereAloof DEF Elsewhere
<1>2. ASSUME NEW t \in Running, SrGet(t) \/ SrPut(t) PROVE Aloof(OwnPlaces, Works)
  <2>1. pc[t] \in {"sr_get", "sr_put"} /\ pc' = pc /\ t = k.cur
    BY <1>2 DEF SrGet, SrPut, At, Running
  <2>2. pc[t] \notin OwnPlaces
    BY <2>1 DEF OwnPlaces, WkPlaces, HpPlaces, PipePlaces
  <2>. QED BY <2>1, <2>2 DEF Aloof
<1>3. ASSUME NEW t \in Running, SrFlush(t) PROVE Aloof(OwnPlaces, Works)
  BY <1>3, RestAloof DEF SrFlush, caller
<1>4. ASSUME NEW t \in Running,
             \/ SrReadEnd(t) \/ SrReadNone(t) \/ SrPutRefused(t) \/ SrPutAgain(t) \/ SrPutWaited(t)
             \/ SrWritten(t) \/ SrWait(t) \/ SrPutWait(t)
      PROVE  Aloof(OwnPlaces, Works)
  <2>1. pc[t] \in {"sr_get", "sr_put", "sr_busy", "sr_wait", "again"}
    BY <1>4 DEF SrReadEnd, SrReadNone, SrPutRefused, SrPutAgain, SrPutWaited, SrWritten, SrWait,
                SrPutWait, At
  <2>2. \E p \in {"run", "sr_wait", "sr_busy", "sr_put", "sr_get", "schedule"} : Goto(t, p)
    BY <1>4 DEF SrReadEnd, SrReadNone, SrPutRefused, SrPutAgain, SrPutWaited, SrWritten, SrReturns,
                SrWait, SrPutWait, WqPass, WqBlock, Block
  <2>. QED BY <2>1, <2>2, ElsewhereAloof DEF Elsewhere
<1>5. ASSUME NEW t \in Running, SrWaited(t) PROVE Aloof(WkPlaces \cup HpPlaces \cup PipePlaces, Works)
  <2>1. pc[t] \in {"again", "unqueue"}
    BY <1>5 DEF SrWaited, WqReturn, WqUnqueue, At
  <2>2. PICK p \in {"unqueue", "sr_get"} : Goto(t, p)
    BY <1>5 DEF SrWaited, WqReturn, WqUnqueue
  <2>3. \A q \in {"again", "unqueue", "sr_get"} : q \notin WkPlaces \cup HpPlaces \cup PipePlaces /\ q # "run"
    BY DEF WkPlaces, HpPlaces, PipePlaces
  <2>. QED BY <2>1, <2>2, <2>3, GoAloof
<1>6. ASSUME (\E s : SrIsrReceive(s)) \/ SrIsrSent PROVE Aloof(OwnPlaces, Works)
  BY <1>6, RestAloof DEF SrIsrReceive, SrIsrSent
<1>7. ASSUME (\E c : SrIdleStore(c)) \/ SrIdleLength \/ SrIdleWake PROVE Aloof(OwnPlaces, Works)
  <2>1. k.cur = Idle /\ pc[Idle] \in {"run", "sr_length", "sr_wake"}
    BY <1>7 DEF SrIdleStore, SrIdleLength, SrIdleWake, At
  <2>2. \E p \in {"run", "sr_length", "sr_wake"} : Goto(Idle, p)
    BY <1>7 DEF SrIdleStore, SrIdleLength, SrIdleWake
  <2>3. Idle \in Running
    BY <2>1 DEF Running
  <2>. QED BY <2>1, <2>2, <2>3, ElsewhereAloof DEF Elsewhere
<1>8. Aloof(OwnPlaces, Works) \/ Aloof(WkPlaces \cup HpPlaces \cup PipePlaces, Works)
  BY <1>1, <1>2, <1>3, <1>4, <1>5, <1>6, <1>7 DEF SrNext
<1>. QED BY <1>0, <1>8, AloofLess

LEMMA PpAloof ==
  ASSUME Core, PpNext
  PROVE  Aloof(WkPlaces \cup HpPlaces, Works)
<1>0. \A q \in PipePlaces \cup {"run", "again", "unqueue", "schedule"} : q \notin WkPlaces \cup HpPlaces
  BY DEF WkPlaces, HpPlaces, PipePlaces
<1>1. ASSUME NEW t \in Running, NEW op \in PpOp, NEW n, PpCall(t, op, n)
      PROVE  Aloof(WkPlaces \cup HpPlaces, Works)
  <2>1. pc[t] = "run" /\ op \in use.calls[t] /\ op \notin Works /\ Goto(t, "lock")
    BY <1>1 DEF PpCall, Starts, At, Works, PpOp
  <2>2. "lock" \in PipePlaces
    BY DEF PipePlaces
  <2>. QED BY <1>0, <2>1, <2>2, GoAloof
<1>2. ASSUME NEW t \in Running,
             \/ PpLock(t) \/ PpLockWait(t) \/ PpLocked(t) \/ PpOpen(t) \/ PpClose(t)
             \/ PpReadEnd(t) \/ PpReadSome(t) \/ PpReadNone(t) \/ PpWriteEnd(t) \/ PpWriteSome(t)
             \/ PpRelease(t) \/ PpSignal(t) \/ PpWait(t) \/ PpWaited(t)
             \/ PpRouse(t) \/ PpUnlock(t) \/ PpLast(t)
      PROVE  Aloof(WkPlaces \cup HpPlaces, Works)
  <2>1. pc[t] \in PipePlaces \cup {"again", "unqueue"}
    BY <1>2 DEF PpLock, PpLockWait, PpLocked, PpOpen, PpClose, PpReadEnd, PpReadSome, PpReadNone,
                PpWriteEnd, PpWriteSome, PpRelease, PpSignal, PpWait, PpWaited, PpRouse, PpUnlock,
                PpLast, WqReturn, WqUnqueue, In, At, PipePlaces
  <2>2. PICK p \in PipePlaces \cup {"run", "unqueue", "schedule"} : Goto(t, p)
    <3>1. CASE PpLock(t) \/ PpLockWait(t) \/ PpLocked(t) \/ PpOpen(t) \/ PpClose(t)
      BY <3>1 DEF PpLock, PpLockWait, PpLocked, PpOpen, PpClose, Block, PipePlaces
    <3>2. CASE PpReadEnd(t) \/ PpReadSome(t) \/ PpReadNone(t) \/ PpWriteEnd(t) \/ PpRelease(t)
      BY <3>2 DEF PpReadEnd, PpReadSome, PpReadNone, PpWriteEnd, PpRelease, Unlock, PipePlaces
    <3>3. CASE PpWriteSome(t)
      BY <3>3 DEF PpWriteSome, PipePlaces
    <3>4. CASE PpSignal(t) \/ PpRouse(t) \/ PpLast(t)
      BY <3>4 DEF PpSignal, PpRouse, PpLast, Wakeup, PipePlaces
    <3>5. CASE PpWait(t) \/ PpWaited(t)
      BY <3>5 DEF PpWait, PpWaited, WqPass, WqBlock, WqReturn, WqUnqueue, Block, PipePlaces
    <3>6. CASE PpUnlock(t)
      BY <3>6 DEF PpUnlock, Unlock, PipePlaces
    <3>. QED BY <1>2, <3>1, <3>2, <3>3, <3>4, <3>5, <3>6
  <2>3. pc[t] # "run"
    BY <2>1 DEF PipePlaces
  <2>. QED BY <1>0, <2>1, <2>2, <2>3, GoAloof
<1>. QED BY <1>1, <1>2 DEF PpNext

LEMMA HpAloof ==
  ASSUME Core, HpNext
  PROVE  Aloof(WkPlaces \cup PipePlaces \cup {"unqueue"}, Works)
<1>0. \A q \in HpPlaces \cup {"run"} : q \notin WkPlaces \cup PipePlaces \cup {"unqueue"}
  BY DEF WkPlaces, HpPlaces, PipePlaces
<1>1. ASSUME NEW t, NEW s, NEW b, HpMalloc(t, s) \/ HpFree(t, b) \/ HpShrink(t, b, s)
      PROVE  Aloof(WkPlaces \cup PipePlaces \cup {"unqueue"}, Works)
  BY <1>1, RestAloof DEF HpMalloc, HpFree, HpShrink, caller
<1>2. ASSUME NEW t \in Running, NEW s, NEW b, HpGrow(t, b, s)
      PROVE  Aloof(WkPlaces \cup PipePlaces \cup {"unqueue"}, Works)
  <2>1. pc[t] = "run" /\ "hp_realloc" \in use.calls[t] /\ "hp_realloc" \notin Works /\ Goto(t, "hp_grow")
    BY <1>2 DEF HpGrow, Starts, At, Works
  <2>2. "hp_grow" \in HpPlaces
    BY DEF HpPlaces
  <2>. QED BY <1>0, <2>1, <2>2, GoAloof
<1>3. ASSUME NEW t \in Running, HpGrowMalloc(t) \/ HpGrowFree(t)
      PROVE  Aloof(WkPlaces \cup PipePlaces \cup {"unqueue"}, Works)
  <2>1. pc[t] \in HpPlaces /\ pc[t] # "run"
    BY <1>3 DEF HpGrowMalloc, HpGrowFree, At, HpPlaces
  <2>2. \E p \in HpPlaces \cup {"run"} : Goto(t, p)
    BY <1>3 DEF HpGrowMalloc, HpGrowFree, HpPlaces
  <2>. QED BY <1>0, <2>1, <2>2, GoAloof
<1>. QED BY <1>1, <1>2, <1>3 DEF HpNext

LEMMA WkAloof ==
  ASSUME Core, WkNext
  PROVE  Aloof(HpPlaces \cup PipePlaces \cup {"unqueue"}, {})
<1>0. \A q \in WkPlaces \cup {"run", "again", "post", "schedule"} : q \notin HpPlaces \cup PipePlaces \cup {"unqueue"}
  BY DEF WkPlaces, HpPlaces, PipePlaces
<1>1. ASSUME NEW t \in Running, NEW w, WkTest(t) \/ WkSubmit(t, w) \/ WkCritical(t, w)
      PROVE  Aloof(HpPlaces \cup PipePlaces \cup {"unqueue"}, {})
  <2>1. pc[t] = "run" /\ \E op \in use.calls[t] : op \notin {}
    BY <1>1 DEF WkTest, WkSubmit, WkCritical, Starts, At
  <2>2. \E p \in WkPlaces \cup {"run"} : Goto(t, p)
    BY <1>1 DEF WkTest, WkSubmit, WkCritical, WkPlaces
  <2>. QED BY <1>0, <2>1, <2>2, GoAloof
<1>2. ASSUME NEW t \in Running, WkSuspend(t) \/ WkPick(t) \/ WkDone(t) \/ WkResume(t)
      PROVE  Aloof(HpPlaces \cup PipePlaces \cup {"unqueue"}, {})
  <2>1. pc[t] \in WkPlaces \cup {"again"} /\ pc[t] # "run"
    BY <1>2 DEF WkSuspend, WkPick, WkPicks, WkDone, WkResume, At, WkPlaces
  <2>2. \E p \in WkPlaces \cup {"run", "post", "schedule"} : Goto(t, p)
    BY <1>2 DEF WkSuspend, WkPick, WkDone, WkResume, Block, WkPlaces
  <2>. QED BY <1>0, <2>1, <2>2, GoAloof
<1>3. ASSUME NEW t, NEW w, WkIsrSubmit(w) \/ WkCancel(t, w) \/ WkCancelAll(t)
      PROVE  Aloof(HpPlaces \cup PipePlaces \cup {"unqueue"}, {})
  BY <1>3, RestAloof DEF WkIsrSubmit, WkCancel, WkCancelAll, caller
<1>. QED BY <1>1, <1>2, <1>3 DEF WkNext

-----------------------------------------------------------------------------
\* The heap's history, held, has no part in what the functions do
HpRecord(h) == h = [blk |-> h.blk, lfree |-> h.lfree, held |-> h.held]

LEMMA HeldAside ==
  ASSUME NEW h, NEW B, NEW loose, HpSound(h, B, loose), NEW X, NEW g, g = [h EXCEPT !.held = X]
  PROVE  HpSound(g, B, loose) /\ g.held = X
<1>1. h = [blk |-> h.blk, lfree |-> h.lfree, held |-> h.held]
  BY DEF HpSound, HpRight, HpHeap, HpShape
<1>2. g.blk = h.blk /\ g.lfree = h.lfree /\ g.held = X /\ g = [blk |-> g.blk, lfree |-> g.lfree, held |-> g.held]
  BY <1>1
<1>3. HpHeap(g)
  BY <1>2 DEF HpSound, HpRight, HpHeap, HpShape, HpLinked, NextTo
<1>. QED BY <1>2, <1>3 DEF HpSound, HpRight, HpUses, HpLowest, HpMerged, Room

LEMMA JoinHeld ==
  ASSUME NEW h, HpRecord(h), NEW m, NEW n
  PROVE  HpRecord(Join(h, m, n)) /\ Join(h, m, n).held = h.held
<1>1. ASSUME NEW x, NEW y, NEW g, g = [h EXCEPT !.blk = x, !.lfree = y]
      PROVE  HpRecord(g) /\ g.held = h.held
  BY <1>1 DEF HpRecord
<1>2. \E x, y : Join(h, m, n) = [h EXCEPT !.blk = x, !.lfree = y]
  <2>1. PICK x : x = [c \in DOMAIN h.blk \ {n} |->
                        IF c = m THEN [h.blk[m] EXCEPT !.next = h.blk[n].next] ELSE h.blk[c]]
    OBVIOUS
  <2>2. Join(h, m, n) = [h EXCEPT !.blk = TellNext(x, m), !.lfree = IF h.lfree = n THEN m ELSE h.lfree]
    BY <2>1 DEF Join
  <2>. QED BY <2>2
<1>. QED BY <1>1, <1>2

LEMMA SplitHeld ==
  ASSUME NEW h, HpRecord(h), NEW m, NEW size
  PROVE  HpRecord(Split(h, m, size)) /\ Split(h, m, size).held = h.held
<1>1. \A x : LET g == [h EXCEPT !.blk = x] IN  HpRecord(g) /\ g.held = h.held
  BY DEF HpRecord
<1>. QED BY <1>1 DEF Split

LEMMA PlugHeld ==
  ASSUME NEW h, HpRecord(h), NEW m
  PROVE  HpRecord(PlugHoles(h, m)) /\ PlugHoles(h, m).held = h.held
<1>1. PICK f : f = IF ~h.blk[h.blk[m].next].used /\ h.blk[m].next # HeapEnd
                     THEN Join(h, m, h.blk[m].next) ELSE h
  OBVIOUS
<1>2. HpRecord(f) /\ f.held = h.held
  BY <1>1, JoinHeld
<1>3. PlugHoles(h, m) = IF f.blk[m].prev # m /\ ~f.blk[f.blk[m].prev].used
                          THEN Join(f, f.blk[m].prev, m) ELSE f
  BY <1>1 DEF PlugHoles
<1>. QED BY <1>2, <1>3, JoinHeld

LEMMA FreedHeld ==
  ASSUME NEW h, HpRecord(h), NEW m
  PROVE  HpFreed(h, m).held = h.held
<1>1. PICK g : g = [h EXCEPT !.blk[m].used = FALSE, !.lfree = Min({@, m})]
  OBVIOUS
<1>2. HpRecord(g) /\ g.held = h.held
  BY <1>1 DEF HpRecord
<1>. QED BY <1>1, <1>2, PlugHeld DEF HpFreed

LEMMA AllocatedHeld ==
  ASSUME HpRecord(heap), NEW m, NEW w
  PROVE  Allocated(m, w).held = heap.held
<1>1. PICK s : s = IF Room(heap, m) >= w + Header + MinSize THEN Split(heap, m, w) ELSE heap
  OBVIOUS
<1>2. HpRecord(s) /\ s.held = heap.held
  BY <1>1, SplitHeld
<1>3. PICK u : u = [s EXCEPT !.blk[m].used = TRUE]
  OBVIOUS
<1>4. HpRecord(u) /\ u.held = heap.held
  BY <1>2, <1>3 DEF HpRecord
<1>5. \E l : Allocated(m, w) = [u EXCEPT !.lfree = l]
  <2>1. PICK l : l = IF u.lfree = m
                       THEN Min({x \in DOMAIN u.blk : x >= m /\ (~u.blk[x].used \/ x = HeapEnd)})
                       ELSE u.lfree
    OBVIOUS
  <2>2. Allocated(m, w) = [u EXCEPT !.lfree = l]
    BY <1>1, <1>3, <2>1 DEF Allocated
  <2>. QED BY <2>2
<1>. QED BY <1>4, <1>5 DEF HpRecord

\* rt_malloc takes the lowest hole that fits
LEMMA FoundSound ==
  ASSUME NEW B, NEW loose \in BOOLEAN, HpSound(heap, B, loose),
         NEW size \in Nat, Fits(size) # {}, NEW m, m = Min(Fits(size)),
         NEW r, r = Allocated(m, AtLeast(size))
  PROVE  /\ HpSound(r, B \cup {[at |-> m, size |-> size]}, loose) /\ r.held = heap.held
         /\ [at |-> m, size |-> size] \in HpBlock
         /\ \A b \in B : b.at # m
<1>1. AtLeast(size) \in Nat /\ size <= AtLeast(size)
  <2>1. MinSize \in Nat
    BY HeapEnds
  <2>2. AtLeast(size) = IF size <= MinSize THEN MinSize ELSE size
    BY <2>1, MaxPair DEF AtLeast
  <2>. QED BY <2>1, <2>2
<1>2. HpHeap(heap) /\ HpUses(heap, B) /\ HpRecord(heap)
  BY DEF HpSound, HpRight, HpHeap, HpShape, HpRecord
<1>3. Fits(size) \in SUBSET Nat
  BY <1>2, HeapEnds DEF HpHeap, HpShape, Fits
<1>4. m \in Fits(size)
  BY <1>3, MinNat
<1>5. /\ m \in DOMAIN heap.blk \ {HeapEnd} /\ ~heap.blk[m].used /\ m >= heap.lfree
      /\ Room(heap, m) >= AtLeast(size) /\ m \in Nat
  BY <1>2, <1>3, <1>4 DEF Fits, HpHeap, HpShape
<1>6. HpSound(r, B \cup {[at |-> m, size |-> size]}, loose)
  BY <1>1, <1>5, AllocatedSound
<1>7. \A b \in B : b.at # m
  <2>1. \A b \in B : b.at \in {x \in DOMAIN heap.blk \ {HeapEnd} : heap.blk[x].used}
    BY <1>2 DEF HpUses
  <2>. QED BY <1>5, <2>1
<1>8. [at |-> m, size |-> size] \in HpBlock
  BY <1>5 DEF HpBlock
<1>. QED BY <1>2, <1>6, <1>7, <1>8, AllocatedHeld

-----------------------------------------------------------------------------
(***************************************************************************)
(* The blocks in the threads' hands, and in those of an rt_realloc that    *)
(* moves its block from c.arg[1] to c.arg[2].                              *)
(***************************************************************************)
Carried(p, c) ==
  (IF p \in HpPlaces THEN {c.arg[1]} ELSE {}) \cup (IF p = "hp_move" THEN {c.arg[2]} ELSE {})

Moving == [t \in Thread |-> Carried(pc[t], call[t])]

InHands(held, M) == held \cup UNION {M[t] : t \in Thread}

HandsApart(held, M) ==
  \A t \in Thread : M[t] \cap held = {} /\ \A u \in Thread \ {t} : M[t] \cap M[u] = {}

Grows(c) ==
  \E b \in HpBlock, s \in Nat : c = [op |-> "hp_realloc", arg |-> <<b, s>>, time |-> "none"]

Relocates(c) ==
  \E b, n \in HpBlock : b # n /\ c = [op |-> "hp_realloc", arg |-> <<b, n>>, time |-> "none"]

GrowPart ==
  \A t \in Thread : /\ pc[t] = "hp_grow" => Grows(call[t])
                    /\ pc[t] = "hp_move" => Relocates(call[t])

Loose == \E t \in Thread : "hp_realloc" \in use.calls[t]

HeapInv ==
  /\ HpSound(heap, InHands(heap.held, Moving), Loose)
  /\ HandsApart(heap.held, Moving)
  /\ GrowPart

LEMMA HandsAre == Blocks = InHands(heap.held, Moving)
BY DEF Blocks, InHands, Moving, Carried, HpPlaces

\* What is true of the steps that are not the heap's, and of its own where they leave the
\* callers alone
CarryKept(S) ==
  \A u \in S : /\ pc[u] \in HpPlaces \/ pc'[u] \in HpPlaces => pc'[u] = pc[u] /\ call'[u] = call[u]

LEMMA CarryMoves ==
  ASSUME NEW S \in SUBSET Thread, CarryKept(S), GrowPart
  PROVE  /\ \A u \in S : Moving'[u] = Moving[u]
         /\ \A u \in S : /\ pc'[u] = "hp_grow" => Grows(call'[u])
                         /\ pc'[u] = "hp_move" => Relocates(call'[u])
<1>1. ASSUME NEW u \in S
      PROVE  /\ Moving'[u] = Moving[u]
             /\ pc'[u] = "hp_grow" => Grows(call'[u])
             /\ pc'[u] = "hp_move" => Relocates(call'[u])
  <2>1. CASE pc[u] \in HpPlaces \/ pc'[u] \in HpPlaces
    <3>1. pc'[u] = pc[u] /\ call'[u] = call[u]
      BY <2>1 DEF CarryKept
    <3>. QED BY <3>1 DEF Moving, GrowPart
  <2>2. CASE ~(pc[u] \in HpPlaces \/ pc'[u] \in HpPlaces)
    BY <2>2 DEF Moving, Carried, HpPlaces
  <2>. QED BY <2>1, <2>2
<1>. QED BY <1>1

\* Only the thread that runs moves a block
LEMMA OthersCarry ==
  ASSUME Core, CoreStep
  PROVE  CarryKept(Thread \ {k.cur})
<1>1. ASSUME NEW u \in Thread \ {k.cur}, pc[u] \in HpPlaces \/ pc'[u] \in HpPlaces
      PROVE  pc'[u] = pc[u] /\ call'[u] = call[u]
  <2>1. u # Idle
    <3>1. pc[Idle] \in {"run", "sr_length", "sr_wake"} /\ pc'[Idle] \in {"run", "sr_length", "sr_wake"}
      BY DEF CoreStep, Core, PlacePart
    <3>. QED BY <1>1, <3>1 DEF HpPlaces
  <2>2. pc'[u] = pc[u] /\ CallKept(u)
    BY <2>1 DEF CoreStep, FlowPlaces
  <2>. QED BY <1>1, <2>2 DEF CallKept, HpPlaces
<1>. QED BY <1>1 DEF CarryKept

\* The others' steps
LEMMA HeapRests ==
  ASSUME HeapInv, Core, CoreStep, heap' = heap, CarryKept({k.cur})
  PROVE  HeapInv'
<1>1. CarryKept(Thread \ {k.cur}) /\ k.cur \in Thread
  BY OthersCarry, KernelFunctions DEF Core
<1>2. CarryKept(Thread)
  BY <1>1 DEF CarryKept
<1>3. GrowPart'
  BY <1>2, CarryMoves DEF HeapInv, GrowPart
<1>4. Moving' = Moving
  <2>1. \A u \in Thread : Moving'[u] = Moving[u]
    BY <1>2, CarryMoves DEF HeapInv
  <2>. QED BY <2>1 DEF Moving
<1>5. Loose' = Loose
  BY DEF CoreStep, FlowPlaces, Loose
<1>. QED BY <1>3, <1>4, <1>5 DEF HeapInv

\* A step of the heap's: the others' hands keep what is in them
LEMMA HeapActs ==
  ASSUME HeapInv, Core, CoreStep, NEW t \in Running, NEW M, M = Moving'[t],
         HpSound(heap', (InHands(heap.held, Moving) \ (heap.held \cup Moving[t])) \cup heap'.held \cup M, Loose),
         M \cap heap'.held = {},
         \A u \in Thread \ {t} : Moving[u] \cap (heap'.held \cup M) = {},
         pc'[t] = "hp_grow" => Grows(call'[t]),
         pc'[t] = "hp_move" => Relocates(call'[t])
  PROVE  HeapInv'
<1>1. t = k.cur /\ t \in Thread
  BY KernelFunctions DEF Core, Running
<1>2. CarryKept(Thread \ {t})
  BY <1>1, OthersCarry
<1>3. \A u \in Thread \ {t} : Moving'[u] = Moving[u]
  BY <1>2, CarryMoves DEF HeapInv
<1>4. GrowPart'
  <2>1. \A u \in Thread \ {t} : /\ pc'[u] = "hp_grow" => Grows(call'[u])
                                /\ pc'[u] = "hp_move" => Relocates(call'[u])
    BY <1>2, CarryMoves DEF HeapInv
  <2>. QED BY <2>1 DEF GrowPart
<1>5. HandsApart(heap'.held, Moving')
  <2>1. HandsApart(heap.held, Moving)
    BY DEF HeapInv
  <2>. QED BY <1>1, <1>3, <2>1 DEF HandsApart
<1>6. InHands(heap'.held, Moving')
        = (InHands(heap.held, Moving) \ (heap.held \cup Moving[t])) \cup heap'.held \cup M
  <2>1. HandsApart(heap.held, Moving)
    BY DEF HeapInv
  <2>. QED BY <1>1, <1>3, <2>1 DEF InHands, HandsApart
<1>7. Loose' = Loose
  BY DEF CoreStep, FlowPlaces, Loose
<1>. QED BY <1>4, <1>5, <1>6, <1>7 DEF HeapInv

LEMMA HpNextKeeps ==
  ASSUME HeapInv, Core, CoreStep, HpNext
  PROVE  HeapInv'
<1> DEFINE B == InHands(heap.held, Moving)
<1>1. /\ HpSound(heap, B, Loose) /\ HpHeap(heap) /\ HpRecord(heap) /\ HpUses(heap, B) /\ B \subseteq HpBlock
      /\ Loose \in BOOLEAN /\ heap.held \subseteq B /\ HandsApart(heap.held, Moving)
      /\ GrowPart
  BY DEF HeapInv, HpSound, HpRight, HpHeap, HpShape, HpRecord, HpUses, Loose, InHands
<1>2. /\ DOMAIN call = Thread /\ pc \in [Thread -> AllLabels] /\ \A u \in Running : u \in Thread
      /\ \A u \in Thread : Moving[u] = Carried(pc[u], call[u]) /\ Moving'[u] = Carried(pc'[u], call'[u])
      /\ \A u \in Thread : Moving[u] \subseteq B
  BY KernelFunctions DEF Core, PlacePart, Running, Moving, InHands
<1>3. ASSUME NEW t \in Running, NEW s, NEW b, HpMalloc(t, s) \/ HpFree(t, b) \/ HpShrink(t, b, s) \/ HpGrow(t, b, s)
      PROVE  pc[t] = "run" /\ Moving[t] = {} /\ t \in Thread
  <2>1. pc[t] = "run"
    BY <1>3 DEF HpMalloc, HpFree, HpShrink, HpGrow, Starts, At
  <2>. QED BY <1>2, <2>1 DEF Carried, HpPlaces
<1>4. ASSUME NEW t \in Running, NEW s, NEW b, HpMalloc(t, s) \/ HpFree(t, b) \/ HpShrink(t, b, s)
      PROVE  pc'[t] = "run" /\ Moving'[t] = {}
  <2>1. pc' = pc
    BY <1>4 DEF HpMalloc, HpFree, HpShrink, caller
  <2>. QED BY <1>2, <1>3, <1>4, <2>1 DEF Carried, HpPlaces
<1>5. ASSUME NEW t \in Running, NEW s \in Request, HpMalloc(t, s) PROVE HeapInv'
  <2>1. PICK m : m = Min(Fits(s))
    OBVIOUS
  <2>2. PICK d : d = [at |-> m, size |-> s]
    OBVIOUS
  <2>3. PICK r : r = Allocated(m, AtLeast(s))
    OBVIOUS
  <2>4. s \in Nat /\ Fits(s) # {} /\ heap' = [r EXCEPT !.held = @ \cup {d}]
    BY <1>5, <2>1, <2>2, <2>3, SmallMemAssumption DEF HpMalloc, Hold
  <2>5. HpSound(r, B \cup {d}, Loose) /\ r.held = heap.held /\ d \in HpBlock /\ \A c \in B : c.at # m
    BY <1>1, <2>1, <2>2, <2>3, <2>4, FoundSound
  <2>6. HpSound(heap', B \cup {d}, Loose) /\ heap'.held = heap.held \cup {d}
    <3>1. heap' = [r EXCEPT !.held = r.held \cup {d}]
      BY <2>4
    <3>. QED BY <2>5, <3>1, HeldAside
  <2>7. d \notin B
    BY <2>2, <2>5
  <2>8. (B \ (heap.held \cup Moving[t])) \cup heap'.held \cup {} = B \cup {d}
    BY <1>1, <1>3, <1>5, <2>6
  <2>9. \A u \in Thread \ {t} : Moving[u] \cap (heap'.held \cup {}) = {}
    BY <1>1, <1>2, <2>6, <2>7 DEF HandsApart
  <2>. QED BY <1>4, <1>5, <2>6, <2>8, <2>9, HeapActs
<1>6. ASSUME NEW t \in Running, NEW b \in heap.held, HpFree(t, b) PROVE HeapInv'
  <2>1. PICK r : r = HpFreed(heap, b.at)
    OBVIOUS
  <2>2. heap' = [r EXCEPT !.held = r.held \ {b}]
    BY <1>6, <2>1 DEF HpFree, Drop
  <2>3. HpSound(r, B \ {b}, Loose) /\ r.held = heap.held
    BY <1>1, <2>1, FreeSound, FreedHeld
  <2>4. HpSound(heap', B \ {b}, Loose) /\ heap'.held = heap.held \ {b}
    BY <2>2, <2>3, HeldAside
  <2>5. \A u \in Thread : b \notin Moving[u]
    BY <1>1 DEF HandsApart
  <2>6. (B \ (heap.held \cup Moving[t])) \cup heap'.held \cup {} = B \ {b}
    BY <1>1, <1>3, <1>6, <2>4
  <2>7. \A u \in Thread \ {t} : Moving[u] \cap (heap'.held \cup {}) = {}
    BY <1>1, <2>4 DEF HandsApart
  <2>. QED BY <1>4, <1>6, <2>4, <2>6, <2>7, HeapActs
<1>7. ASSUME NEW t \in Running, NEW b \in heap.held, NEW s \in Request, HpShrink(t, b, s) PROVE HeapInv'
  <2>1. PICK r : r = PlugHoles(Split(heap, b.at, s), b.at + Header + s)
    OBVIOUS
  <2>2. PICK d : d = [at |-> b.at, size |-> s]
    OBVIOUS
  <2>3. heap' = Hold(Drop(r, b), b.at, s)
    BY <1>7, <2>1 DEF HpShrink
  <2>4. Loose = TRUE
    BY <1>3, <1>7 DEF Loose, HpShrink, Starts
  <2>5. s \in Nat /\ b \in B /\ s + Header + MinSize < Room(heap, b.at)
    BY <1>1, <1>7, SmallMemAssumption DEF HpShrink
  <2>6. HpSound(r, (B \ {b}) \cup {d}, TRUE)
    BY <1>1, <2>1, <2>2, <2>4, <2>5, ShrinkSound
  <2>7. r.held = heap.held /\ HpRecord(r)
    BY <1>1, <2>1, SplitHeld, PlugHeld
  <2>8. heap' = [r EXCEPT !.held = (r.held \ {b}) \cup {d}]
    BY <2>2, <2>3, <2>7 DEF HpRecord, Hold, Drop
  <2>9. HpSound(heap', (B \ {b}) \cup {d}, Loose) /\ heap'.held = (heap.held \ {b}) \cup {d}
    <3>1. PICK X : X = (r.held \ {b}) \cup {d}
      OBVIOUS
    <3>2. PICK P : P = (B \ {b}) \cup {d}
      OBVIOUS
    <3>3. HpSound(r, P, Loose) /\ heap' = [r EXCEPT !.held = X]
      BY <2>4, <2>6, <2>8, <3>1, <3>2
    <3>4. HpSound(heap', P, Loose) /\ heap'.held = X
      BY <3>3, HeldAside
    <3>. QED BY <2>7, <3>1, <3>2, <3>4
  <2>10. \A u \in Thread : b \notin Moving[u] /\ d \notin Moving[u]
    <3>1. \A u \in Thread : b \notin Moving[u]
      BY <1>1 DEF HandsApart
    <3>2. \A c \in B : c.at = b.at => c = b
      BY <1>1, <2>5 DEF HpUses
    <3>3. d.at = b.at
      BY <2>2
    <3>. QED BY <1>2, <3>1, <3>2, <3>3
  <2>11. (B \ (heap.held \cup Moving[t])) \cup heap'.held \cup {} = (B \ {b}) \cup {d}
    BY <1>1, <1>3, <1>7, <2>9
  <2>12. \A u \in Thread \ {t} : Moving[u] \cap (heap'.held \cup {}) = {}
    BY <1>1, <2>9, <2>10 DEF HandsApart
  <2>. QED BY <1>4, <1>7, <2>9, <2>11, <2>12, HeapActs
<1>8. ASSUME NEW t \in Running, NEW b \in heap.held, NEW s \in Request, HpGrow(t, b, s) PROVE HeapInv'
  <2>1. t \in Thread /\ Moving[t] = {}
    BY <1>3, <1>8
  <2>2. pc'[t] = "hp_grow" /\ call'[t] = [op |-> "hp_realloc", arg |-> <<b, s>>, time |-> "none"]
    BY <1>2, <1>8, <2>1 DEF HpGrow, Goto
  <2>3. Moving'[t] = {b}
    BY <1>2, <2>1, <2>2 DEF Carried, HpPlaces
  <2>4. b \in B /\ b \in HpBlock /\ s \in Nat
    BY <1>1, SmallMemAssumption
  <2>5. Grows(call'[t])
    BY <2>2, <2>4 DEF Grows
  <2>6. HpSound(heap', B, Loose) /\ heap'.held = heap.held \ {b}
    <3>1. heap' = [heap EXCEPT !.held = heap.held \ {b}]
      BY <1>8 DEF HpGrow, Drop
    <3>. QED BY <1>1, <3>1, HeldAside
  <2>7. (B \ (heap.held \cup Moving[t])) \cup heap'.held \cup {b} = B
    BY <1>1, <2>1, <2>4, <2>6
  <2>8. \A u \in Thread \ {t} : Moving[u] \cap (heap'.held \cup {b}) = {}
    BY <1>1, <2>6 DEF HandsApart
  <2>. QED BY <1>8, <2>2, <2>3, <2>5, <2>6, <2>7, <2>8, HeapActs
<1>9. ASSUME NEW t \in Running, HpGrowMalloc(t) PROVE HeapInv'
  <2>1. t \in Thread /\ pc[t] = "hp_grow"
    BY <1>2, <1>9 DEF HpGrowMalloc, At
  <2>2. PICK old \in HpBlock, s \in Nat : call[t] = [op |-> "hp_realloc", arg |-> <<old, s>>, time |-> "none"]
    BY <1>1, <2>1 DEF GrowPart, Grows
  <2>3. Moving[t] = {old} /\ old \in B /\ old \notin heap.held
        /\ \A u \in Thread \ {t} : Moving[u] \cap {old} = {}
    <3>1. Moving[t] = {old}
      BY <1>2, <2>1, <2>2 DEF Carried, HpPlaces
    <3>. QED BY <1>1, <1>2, <2>1, <3>1 DEF HandsApart
  <2>4. call[t].arg[1] = old /\ call[t].arg[2] = s
    BY <2>2
  <2>5. CASE Fits(s) = {}
    <3>1. pc'[t] = "run" /\ heap' = [heap EXCEPT !.held = heap.held \cup {[at |-> old.at, size |-> old.size]}]
      BY <1>2, <1>9, <2>1, <2>4, <2>5 DEF HpGrowMalloc, Hold, Goto
    <3>2. [at |-> old.at, size |-> old.size] = old
      BY DEF HpBlock
    <3>3. HpSound(heap', B, Loose) /\ heap'.held = heap.held \cup {old}
      BY <1>1, <3>1, <3>2, HeldAside
    <3>4. Moving'[t] = {}
      BY <1>2, <2>1, <3>1 DEF Carried, HpPlaces
    <3>5. (B \ (heap.held \cup Moving[t])) \cup heap'.held \cup {} = B
      BY <1>1, <2>3, <3>3
    <3>6. \A u \in Thread \ {t} : Moving[u] \cap (heap'.held \cup {}) = {}
      BY <1>1, <2>3, <3>3 DEF HandsApart
    <3>7. pc'[t] = "run"
      BY <3>1
    <3>. QED BY <1>9, <3>3, <3>4, <3>5, <3>6, <3>7, HeapActs
  <2>6. CASE Fits(s) # {}
    <3>1. PICK m : m = Min(Fits(s))
      OBVIOUS
    <3>2. PICK d : d = [at |-> m, size |-> s]
      OBVIOUS
    <3>3. /\ pc'[t] = "hp_move" /\ heap' = Allocated(m, AtLeast(s))
          /\ call'[t] = [call[t] EXCEPT !.arg = <<old, d>>]
      BY <1>2, <1>9, <2>1, <2>4, <2>6, <3>1, <3>2 DEF HpGrowMalloc, Goto
    <3>4. HpSound(heap', B \cup {d}, Loose) /\ heap'.held = heap.held /\ d \in HpBlock
          /\ \A c \in B : c.at # m
      BY <1>1, <2>6, <3>1, <3>2, <3>3, FoundSound
    <3>5. d \notin B
      BY <3>2, <3>4
    <3>6. call'[t] = [op |-> "hp_realloc", arg |-> <<old, d>>, time |-> "none"]
      BY <2>2, <3>3
    <3>7. Relocates(call'[t])
      BY <2>3, <3>4, <3>5, <3>6 DEF Relocates
    <3>8. Moving'[t] = {old, d}
      BY <1>2, <2>1, <3>3, <3>6 DEF Carried, HpPlaces
    <3>9. (B \ (heap.held \cup Moving[t])) \cup heap'.held \cup {old, d} = B \cup {d}
      BY <1>1, <2>3, <3>4
    <3>10. {old, d} \cap heap'.held = {}
      BY <1>1, <2>3, <3>4, <3>5
    <3>11. \A u \in Thread \ {t} : Moving[u] \cap (heap'.held \cup {old, d}) = {}
      BY <1>1, <1>2, <2>3, <3>4, <3>5 DEF HandsApart
    <3>. QED BY <1>9, <3>3, <3>4, <3>7, <3>8, <3>9, <3>10, <3>11, HeapActs
  <2>. QED BY <2>5, <2>6
<1>10. ASSUME NEW t \in Running, HpGrowFree(t) PROVE HeapInv'
  <2>1. t \in Thread /\ pc[t] = "hp_move"
    BY <1>2, <1>10 DEF HpGrowFree, At
  <2>2. PICK old \in HpBlock, n \in HpBlock :
          old # n /\ call[t] = [op |-> "hp_realloc", arg |-> <<old, n>>, time |-> "none"]
    BY <1>1, <2>1 DEF GrowPart, Relocates
  <2>3. Moving[t] = {old, n} /\ old \in B /\ n \in B /\ old \notin heap.held /\ n \notin heap.held
        /\ \A u \in Thread \ {t} : Moving[u] \cap {old, n} = {}
    <3>1. Moving[t] = {old, n}
      BY <1>2, <2>1, <2>2 DEF Carried, HpPlaces
    <3>. QED BY <1>1, <1>2, <2>1, <3>1 DEF HandsApart
  <2>4. call[t].arg[1] = old /\ call[t].arg[2] = n
    BY <2>2
  <2>5. PICK r : r = HpFreed(heap, old.at)
    OBVIOUS
  <2>6. HpSound(r, B \ {old}, Loose) /\ r.held = heap.held
    BY <1>1, <2>3, <2>5, FreeSound, FreedHeld
  <2>7. pc'[t] = "run" /\ heap' = [r EXCEPT !.held = r.held \cup {[at |-> n.at, size |-> n.size]}]
    BY <1>2, <1>10, <2>1, <2>4, <2>5 DEF HpGrowFree, Hold, Goto
  <2>8. [at |-> n.at, size |-> n.size] = n
    BY DEF HpBlock
  <2>9. HpSound(heap', B \ {old}, Loose) /\ heap'.held = heap.held \cup {n}
    BY <2>6, <2>7, <2>8, HeldAside
  <2>10. Moving'[t] = {}
    BY <1>2, <2>1, <2>7 DEF Carried, HpPlaces
  <2>11. (B \ (heap.held \cup Moving[t])) \cup heap'.held \cup {} = B \ {old}
    BY <1>1, <2>2, <2>3, <2>9
  <2>12. \A u \in Thread \ {t} : Moving[u] \cap (heap'.held \cup {}) = {}
    BY <1>1, <2>3, <2>9 DEF HandsApart
  <2>13. pc'[t] = "run"
    BY <2>7
  <2>. QED BY <1>10, <2>9, <2>10, <2>11, <2>12, <2>13, HeapActs
<1>. QED BY <1>5, <1>6, <1>7, <1>8, <1>9, <1>10 DEF HpNext

\* Which steps leave the heap and who moves a block alone
LEMMA HeapElse ==
  ASSUME Core, [Next]_vars, ~HpNext
  PROVE  heap' = heap /\ CarryKept({k.cur})
<1>0. HpPlaces \subseteq OwnPlaces /\ HpPlaces \subseteq WkPlaces \cup HpPlaces \cup PipePlaces
      /\ HpPlaces \subseteq WkPlaces \cup HpPlaces /\ HpPlaces \subseteq HpPlaces \cup PipePlaces \cup {"unqueue"}
      /\ {} \subseteq Works
  BY DEF OwnPlaces
<1>1. heap' = heap
  BY DEF Next, vars
<1>2. Aloof(HpPlaces, {})
  <2>1. CASE UNCHANGED vars
    BY <2>1, RestAloof DEF vars, caller
  <2>2. CASE MbNext \/ MqNext \/ EvNext \/ MpNext \/ DqNext \/ CpNext \/ RbNext \/ RbbNext \/ CallerStep \/ OnNext
    <3>1. Aloof(OwnPlaces, Works)
      BY <2>2, MbAloof, MqAloof, EvAloof, MpAloof, DqAloof, CpAloof, RbAloof, CallerAloof, OnAloof
    <3>. QED BY <1>0, <3>1, AloofLess
  <2>3. CASE PpNext
    <3>1. Aloof(WkPlaces \cup HpPlaces, Works)
      BY <2>3, PpAloof
    <3>. QED BY <1>0, <3>1, AloofLess
  <2>4. CASE WkNext
    <3>1. Aloof(HpPlaces \cup PipePlaces \cup {"unqueue"}, {})
      BY <2>4, WkAloof
    <3>. QED BY <1>0, <3>1, AloofLess
  <2>5. CASE SrNext
    <3>1. Aloof(WkPlaces \cup HpPlaces \cup PipePlaces, Works)
      BY <2>5, SrAloof
    <3>. QED BY <1>0, <3>1, AloofLess
  <2>. QED BY <2>1, <2>2, <2>3, <2>4, <2>5 DEF Next
<1>3. CarryKept({k.cur})
  BY <1>2 DEF Aloof, CarryKept, CallKept, HpPlaces
<1>. QED BY <1>1, <1>3

LEMMA HeapStarts == Init => HeapInv
<1> SUFFICES ASSUME Init PROVE HeapInv
  OBVIOUS
<1>1. HeapEnd \in Nat /\ HeapEnd > 0
  BY HeapEnds
<1>2. PICK lo : lo = [used |-> FALSE, next |-> HeapEnd, prev |-> 0]
  OBVIOUS
<1>3. PICK hi : hi = [used |-> TRUE, next |-> HeapEnd, prev |-> HeapEnd]
  OBVIOUS
<1>4. heap = [blk |-> [m \in {0, HeapEnd} |-> IF m = 0 THEN lo ELSE hi], lfree |-> 0, held |-> {}]
  BY <1>2, <1>3 DEF Init, HpInit
<1>5. /\ DOMAIN heap.blk = {0, HeapEnd} /\ heap.blk \in [{0, HeapEnd} -> HpEntry]
      /\ heap.blk[HeapEnd].used /\ ~heap.blk[0].used /\ heap.blk[0].next = HeapEnd /\ heap.blk[0].prev = 0
      /\ heap.lfree = 0 /\ heap.held = {} /\ heap = [blk |-> heap.blk, lfree |-> heap.lfree, held |-> heap.held]
  <2>1. lo \in HpEntry /\ hi \in HpEntry
    BY <1>1, <1>2, <1>3 DEF HpEntry
  <2>2. heap.blk = [m \in {0, HeapEnd} |-> IF m = 0 THEN lo ELSE hi]
    BY <1>4
  <2>3. heap.blk[0] = lo /\ heap.blk[HeapEnd] = hi
    BY <1>1, <2>2
  <2>. QED BY <1>2, <1>3, <1>4, <2>1, <2>2, <2>3
<1>6. HpHeap(heap)
  <2>1. HpShape(heap)
    <3>1. DOMAIN heap.blk \subseteq 0..HeapEnd /\ {0, HeapEnd, heap.lfree} \subseteq DOMAIN heap.blk
      BY <1>1, <1>5
    <3>2. heap.blk \in [DOMAIN heap.blk -> HpEntry]
      BY <1>5
    <3>. QED BY <1>5, <3>1, <3>2 DEF HpShape
  <2>2. HpLinked(heap)
    BY <1>1, <1>5 DEF HpLinked, NextTo
  <2>. QED BY <2>1, <2>2 DEF HpHeap
<1>7. \A t \in Thread : Moving[t] = {} /\ pc[t] = "run"
  BY DEF Init, CallerInit, Moving, Carried, HpPlaces
<1>8. InHands(heap.held, Moving) = {}
  BY <1>5, <1>7 DEF InHands
<1>9. HpUses(heap, {}) /\ HpLowest(heap, Loose) /\ HpMerged(heap)
  <2>1. HpUses(heap, {})
    BY <1>1, <1>5 DEF HpUses
  <2>2. HpLowest(heap, Loose)
    BY <1>1, <1>5 DEF HpLowest
  <2>3. HpMerged(heap)
    BY <1>1, <1>5 DEF HpMerged
  <2>. QED BY <2>1, <2>2, <2>3
<1>. QED BY <1>6, <1>7, <1>8, <1>9 DEF HeapInv, HpSound, HpRight, HandsApart, GrowPart

LEMMA HeapStays == IInv /\ HeapInv /\ [Next]_vars => HeapInv'
<1> SUFFICES ASSUME IInv, HeapInv, [Next]_vars PROVE HeapInv'
  OBVIOUS
<1>1. Core /\ CoreStep
  BY CoreSteps DEF IInv
<1>2. CASE HpNext
  BY <1>1, <1>2, HpNextKeeps
<1>3. CASE ~HpNext
  BY <1>1, <1>3, HeapElse, HeapRests
<1>. QED BY <1>2, <1>3

LEMMA HeapMeans == HeapInv => HeapSound
<1> SUFFICES ASSUME HeapInv PROVE HeapSound
  OBVIOUS
<1>1. /\ HpHeap(heap) /\ HpUses(heap, Blocks) /\ HpLowest(heap, Loose) /\ HpMerged(heap)
  BY HandsAre DEF HeapInv, HpSound, HpRight
<1>2. HeapTiled
  BY <1>1 DEF HpHeap, HpShape, HpLinked, NextTo, HeapTiled, Headers
<1>3. HolesMerged
  BY <1>1 DEF HpMerged, HolesMerged, Headers
<1>4. BlocksApart
  BY <1>1 DEF HpUses, BlocksApart, Headers
<1>5. LfreeLowest
  BY <1>1 DEF HpHeap, HpShape, HpLowest, LfreeLowest, Headers, Loose
<1>. QED BY <1>2, <1>3, <1>4, <1>5 DEF HeapSound

(***************************************************************************)
(* rt_malloc, rt_free and rt_realloc keep the heap sound: the headers tile *)
(* it, no two holes are side by side, each used header is one block in a   *)
(* thread's hands and holds what was asked for, and lfree is a hole or the *)
(* end.  This is so for every size of the heap, of the headers and of the  *)
(* requests, and whatever the other threads allocate and free between the  *)
(* three parts of an rt_realloc that moves its block.  That no hole is     *)
(* below lfree is said, and true, only of uses without rt_realloc.         *)
(***************************************************************************)
THEOREM HeapStaysSound == Spec => []HeapSound
<1>1. IInv /\ HeapInv /\ [Next]_vars => IInv' /\ HeapInv'
  BY StepInv, HeapStays
<1>. QED BY <1>1, InitInv, HeapStarts, HeapMeans, PTL DEF Spec

-----------------------------------------------------------------------------
(***************************************************************************)
(* The work queue.  Its thread is at the places of rt_workqueue's own      *)
(* thread and no other thread is; a work runs only there; and the thread   *)
(* sleeps over a list with works only with a submitter on its way, or      *)
(* after the gap.                                                          *)
(***************************************************************************)
IsWorker(t) == "wk_work" \in use.calls[t]

WorkPlaces == {"wk_suspend", "wk_pick", "wk_do"}

\* Thread t is where a work thread, or where any other thread can be
WorkFits(t) ==
  /\ pc[t] \in WorkPlaces \/ (pc[t] \in {"schedule", "again"} /\ call[t].op = "wk_work")
       => IsWorker(t)
  /\ IsWorker(t) => pc[t] \in WorkPlaces \cup {"run", "schedule", "again"}
  /\ IsWorker(t) /\ pc[t] \in {"schedule", "again"} => call[t].op = "wk_work"

Drowsy(t) == k.stat[t] = "suspend" \/ pc[t] = "wk_suspend"

Coming == wk.missed \/ \E u \in Thread : pc[u] = "wk_resume"

WkInv ==
  /\ WkType /\ WkFlagsAgree
  /\ \A t \in Thread : WorkFits(t)
  /\ wk.current # None => \E t \in Thread : pc[t] = "wk_do"
  /\ \A t \in Thread : IsWorker(t) /\ Drowsy(t) /\ wk.list # <<>> => Coming

WkRecord == [list : Seq(Work), current : Work \cup {None}, pending : SUBSET Work, missed : BOOLEAN]

LEMMA WorkerIs ==
  ASSUME use \in Uses, NEW t \in Thread, IsWorker(t)
  PROVE  /\ t # Idle /\ use.calls[t] = {"wk_work"} /\ Worker = t
         /\ \A u \in Thread : IsWorker(u) => u = t
<1>1. \A u \in Thread : IsWorker(u) => u = t
  BY WorkQueueAssumption DEF IsWorker
<1>2. t # Idle
  BY CallerAssumption DEF IsWorker
<1>3. Worker = t
  <2> DEFINE W(x) == "wk_work" \in use.calls[x]
  <2>1. Worker = CHOOSE x \in Thread : W(x)
    BY DEF Worker
  <2>2. W(t) /\ \A u \in Thread : W(u) => u = t
    BY <1>1 DEF IsWorker
  <2> HIDE DEF W
  <2>3. (CHOOSE x \in Thread : W(x)) = t
    BY <2>2
  <2>. QED BY <2>1, <2>3
<1>. QED BY <1>1, <1>2, <1>3, WorkQueueAssumption DEF IsWorker

\* Another thread than the running one
LEMMA OthersWork ==
  ASSUME Core, CoreStep, NEW u \in Thread, u # k.cur, WorkFits(u)
  PROVE  WorkFits(u)' /\ (u # Idle => pc'[u] = pc[u])
<1>1. use' = use /\ use \in Uses
  BY DEF CoreStep, FlowPlaces, Core, PlacePart
<1>2. CASE u = Idle
  <2>1. pc'[u] \in {"run", "sr_length", "sr_wake"}
    BY <1>2 DEF CoreStep, Core, PlacePart
  <2>2. ~IsWorker(u)
    BY <1>1, <1>2, WorkerIs
  <2>. QED BY <1>1, <1>2, <2>1, <2>2 DEF WorkFits, WorkPlaces, IsWorker
<1>3. CASE u # Idle
  <2>1. pc'[u] = pc[u] /\ CallKept(u)
    BY <1>3 DEF CoreStep, FlowPlaces
  <2>2. call'[u] = call[u] \/ call'[u].op = call[u].op
    BY <2>1 DEF CallKept
  <2>. QED BY <1>1, <2>1, <2>2 DEF WorkFits, IsWorker
<1>. QED BY <1>2, <1>3

-----------------------------------------------------------------------------
\* A step that is none of the work queue's
LEMMA WkElse ==
  ASSUME Core, DetachPart, [Next]_vars, ~WkNext
  PROVE  wk' = wk /\ Aloof(WkPlaces, Works) /\ \E F : Turns(F) /\ "wk_work" \notin F
<1>0. /\ WkPlaces \subseteq OwnPlaces /\ WkPlaces \subseteq WkPlaces \cup HpPlaces
      /\ WkPlaces \subseteq WkPlaces \cup HpPlaces \cup PipePlaces
      /\ WkPlaces \subseteq WkPlaces \cup PipePlaces \cup {"unqueue"} /\ Works \subseteq Works
  BY DEF OwnPlaces
<1>1. wk' = wk
  BY DEF Next, vars
<1>2. Aloof(WkPlaces, Works)
  <2>1. CASE UNCHANGED vars
    BY <2>1, RestAloof DEF vars, caller
  <2>2. CASE MbNext \/ MqNext \/ EvNext \/ MpNext \/ DqNext \/ CpNext \/ RbNext \/ RbbNext \/ CallerStep \/ OnNext
    <3>1. Aloof(OwnPlaces, Works)
      BY <2>2, MbAloof, MqAloof, EvAloof, MpAloof, DqAloof, CpAloof, RbAloof, CallerAloof, OnAloof
    <3>. QED BY <1>0, <3>1, AloofLess
  <2>3. CASE PpNext
    <3>1. Aloof(WkPlaces \cup HpPlaces, Works)
      BY <2>3, PpAloof
    <3>. QED BY <1>0, <3>1, AloofLess
  <2>4. CASE HpNext
    <3>1. Aloof(WkPlaces \cup PipePlaces \cup {"unqueue"}, Works)
      BY <2>4, HpAloof
    <3>. QED BY <1>0, <3>1, AloofLess
  <2>5. CASE SrNext
    <3>1. Aloof(WkPlaces \cup HpPlaces \cup PipePlaces, Works)
      BY <2>5, SrAloof
    <3>. QED BY <1>0, <3>1, AloofLess
  <2>. QED BY <2>1, <2>2, <2>3, <2>4, <2>5 DEF Next
<1>3. \E F : Turns(F) /\ "wk_work" \notin F
  <2>1. CASE UNCHANGED vars
    <3>1. Turns({})
      BY <2>1, RestTurns DEF vars, caller
    <3>. QED BY <3>1
  <2>2. CASE CallerStep \/ HpNext \/ RbNext \/ RbbNext
    <3>1. Turns({})
      BY <2>2, CallerTurns, HpTurns, RbTurns
    <3>. QED BY <3>1
  <2>3. CASE MbNext \/ MqNext \/ EvNext \/ MpNext \/ DqNext \/ CpNext
    <3>1. \/ Turns({"mb_send", "mb_recv"}) \/ Turns({"mq_recv"}) \/ Turns({"ev_recv"})
          \/ Turns({"mp_alloc"}) \/ Turns({"dq_push", "dq_pop"}) \/ Turns({"cp_wait"})
      BY <2>3, MbTurns, MqTurns, EvTurns, MpTurns, DqTurns, CpTurns
    <3>. QED BY <3>1
  <2>4. CASE PpNext \/ OnNext \/ SrNext
    <3>1. Turns(PpOp) \/ Turns(OnOps) \/ Turns({"sr_read", "sr_write"})
      BY <2>4, PpTurns, OnTurns, SrTurns
    <3>2. "wk_work" \notin PpOp /\ "wk_work" \notin OnOps
      BY DEF PpOp, OnOps
    <3>. QED BY <3>1, <3>2
  <2>. QED BY <2>1, <2>2, <2>3, <2>4 DEF Next
<1>. QED BY <1>1, <1>2, <1>3

LEMMA WkRests ==
  ASSUME Core, CoreStep, WkInv, wk' = wk, Aloof(WkPlaces, Works),
         NEW F, Turns(F), "wk_work" \notin F
  PROVE  WkInv'
<1>1. /\ use' = use /\ use \in Uses /\ k.cur \in Thread
      /\ \A u \in Thread : WorkFits(u)
      /\ WorkPlaces \subseteq WkPlaces /\ {"wk_do", "wk_suspend", "wk_resume"} \subseteq WkPlaces
  BY KernelFunctions DEF CoreStep, FlowPlaces, Core, PlacePart, WkInv, WorkPlaces, WkPlaces
<1>2. ASSUME NEW t \in Thread, t = k.cur
      PROVE  WorkFits(t)' /\ (IsWorker(t) => pc'[t] = pc[t] \/ pc[t] = "schedule")
  <2>1. t = k.cur
    BY <1>2
  <2>2. t \in Thread /\ WorkFits(t)
    BY <1>1
  <2>3. pc[t] \in WkPlaces \/ pc'[t] \in WkPlaces => pc'[t] = pc[t] /\ CallKept(t)
    BY <2>1 DEF Aloof
  <2>4. CallKept(t) => call'[t] = call[t] \/ call'[t].op = call[t].op
    BY DEF CallKept
  <2>5. pc'[t] \in WorkPlaces => IsWorker(t)
    BY <1>1, <2>2, <2>3 DEF WorkFits
  <2>6. pc'[t] \in {"schedule", "again"} /\ call'[t].op = "wk_work" => IsWorker(t)
    <3>1. pc'[t] \in {"schedule", "again"} =>
            \/ (pc'[t] = pc[t] \/ pc[t] = "schedule") /\ CallKept(t)
            \/ call'[t].op \in F
      BY <2>1 DEF Turns, Joins, WaitPlaces
    <3>. QED BY <2>2, <2>4, <3>1 DEF WorkFits
  <2>7. ASSUME IsWorker(t)
        PROVE  /\ pc'[t] = pc[t] \/ (pc[t] = "schedule" /\ pc'[t] = "again")
               /\ pc'[t] \in {"schedule", "again"} => call'[t].op = "wk_work"
    <3>1. pc[t] \in WorkPlaces \cup {"run", "schedule", "again"}
          /\ (pc[t] \in {"schedule", "again"} => call[t].op = "wk_work")
      BY <2>2, <2>7 DEF WorkFits
    <3>2. CASE pc[t] \in WorkPlaces
      BY <1>1, <2>3, <3>2 DEF WorkPlaces
    <3>3. CASE pc[t] = "run"
      <4>1. t # Idle /\ use.calls[t] = {"wk_work"}
        BY <1>1, <2>2, <2>7, WorkerIs
      <4>2. pc'[t] = "run"
        BY <2>1, <3>3, <4>1 DEF Aloof, Works
      <4>. QED BY <3>3, <4>2
    <3>4. CASE pc[t] = "schedule"
      <4>1. pc'[t] \in {"schedule", "again"} /\ CallKept(t)
        BY <2>1, <2>2, <3>4 DEF CoreStep, FlowPlaces
      <4>. QED BY <2>4, <3>1, <3>4, <4>1
    <3>5. CASE pc[t] = "again"
      <4>1. pc'[t] = "again" /\ CallKept(t)
        BY <2>1, <3>1, <3>5 DEF Turns, Leaves
      <4>. QED BY <2>4, <3>1, <3>5, <4>1
    <3>. QED BY <3>1, <3>2, <3>3, <3>4, <3>5
  <2>8. IsWorker(t)' <=> IsWorker(t)
    BY <1>1 DEF IsWorker
  <2>9. IsWorker(t) => pc'[t] \in WorkPlaces \cup {"run", "schedule", "again"}
    BY <2>2, <2>7 DEF WorkFits
  <2>10. WorkFits(t)'
    BY <2>5, <2>6, <2>7, <2>8, <2>9 DEF WorkFits
  <2>. QED BY <2>7, <2>10
<1>3. \A u \in Thread : WorkFits(u)'
  BY <1>1, <1>2, OthersWork
<1>4. \A u \in Thread : pc[u] \in {"wk_do", "wk_resume"} => pc'[u] = pc[u]
  <2>1. ASSUME NEW u \in Thread, pc[u] \in {"wk_do", "wk_resume"} PROVE pc'[u] = pc[u]
    <3>1. u # Idle
      BY <2>1 DEF Core, PlacePart
    <3>2. CASE u = k.cur
      BY <1>1, <2>1, <3>2 DEF Aloof
    <3>3. CASE u # k.cur
      BY <1>1, <3>1, <3>3, OthersWork
    <3>. QED BY <3>2, <3>3
  <2>. QED BY <2>1
<1>5. wk.current # None => \E t \in Thread : pc'[t] = "wk_do"
  BY <1>4 DEF WkInv
<1>6. Coming => Coming'
  BY <1>4 DEF Coming
<1>7. ASSUME NEW t \in Thread, IsWorker(t), Drowsy(t)' PROVE Drowsy(t)
  <2>1. t # Idle
    BY <1>1, <1>7, WorkerIs
  <2>2. pc'[t] = pc[t] \/ (t = k.cur /\ pc[t] = "schedule")
    BY <1>1, <1>2, <1>7, <2>1, OthersWork
  <2>3. ~Blocked(t)
    BY <2>2 DEF Blocked
  <2>4. k'.stat[t] = "suspend" => k.stat[t] = "suspend"
    BY <2>3 DEF CoreStep, FlowStates
  <2>5. pc'[t] = "wk_suspend" => pc[t] = "wk_suspend"
    <3>1. t = k.cur => (pc'[t] = "wk_suspend" => pc[t] = pc'[t])
      BY <1>1 DEF Aloof
    <3>. QED BY <2>2, <3>1
  <2>. QED BY <1>7, <2>4, <2>5 DEF Drowsy
<1>8. \A t \in Thread : IsWorker(t)' /\ Drowsy(t)' /\ wk.list # <<>> => Coming'
  BY <1>1, <1>6, <1>7 DEF WkInv, IsWorker
<1>9. WkType' /\ WkFlagsAgree'
  BY <1>1 DEF WkInv, WkType, WkFlagsAgree, InUse, Distinct
<1>. QED BY <1>3, <1>5, <1>8, <1>9 DEF WkInv

-----------------------------------------------------------------------------
\* The work queue's own steps.  First what they leave in it.
WkHolds(r) ==
  /\ r \in WkRecord /\ Distinct(r.list) /\ ~Contains(r.list, r.current)
  /\ (\A x : Contains(r.list, x) => x \in r.pending) \/ InUse("wk_critical")
  /\ (\A x \in r.pending : Contains(r.list, x)) \/ InUse("wk_cancel_all")

LEMMA InToSet == \A s, x : x \in ToSet(s) <=> Contains(s, x)
BY DEF ToSet, Contains

LEMMA HoldsIs ==
  ASSUME WkType /\ WkFlagsAgree
  PROVE  WkHolds(wk)
BY InToSet DEF WkType, WkFlagsAgree, WkHolds, WkRecord

LEMMA HoldsMeans ==
  ASSUME use' = use, WkHolds(wk')
  PROVE  WkType' /\ WkFlagsAgree'
<1>1. InUse("wk_critical") = InUse("wk_critical")' /\ InUse("wk_cancel_all") = InUse("wk_cancel_all")'
  BY DEF InUse
<1>2. WkType'
  BY DEF WkHolds, WkType, WkRecord, Distinct
<1>3. WkFlagsAgree'
  BY <1>1, InToSet DEF WkHolds, WkFlagsAgree
<1>. QED BY <1>2, <1>3

\* A work is linked, wherever it was
LEMMA LinkHolds ==
  ASSUME NEW r, WkHolds(r), NEW w \in Work, r.current # w,
         NEW z, z = Append(RemoveFirst(r.list, w), w)
  PROVE  /\ InUse("wk_critical") => WkHolds([r EXCEPT !.list = z])
         /\ WkHolds([r EXCEPT !.list = z, !.pending = r.pending \cup {w}])
<1>1. PICK q : q = RemoveFirst(r.list, w)
  OBVIOUS
<1>2. r.list \in Seq(Work) /\ r \in WkRecord
  BY DEF WkHolds, WkRecord
<1>3. q \in Seq(Work) /\ Distinct(q) /\ \A x : Contains(q, x) <=> Contains(r.list, x) /\ x # w
  BY <1>1, <1>2, RemoveFirstList DEF WkHolds
<1>4. z \in Seq(Work) /\ Distinct(z) /\ \A x : Contains(z, x) <=> Contains(r.list, x) \/ x = w
  BY <1>1, <1>3, AppendList
<1>5. PICK g : g = [r EXCEPT !.list = z]
  OBVIOUS
<1>6. g \in WkRecord /\ g.list = z /\ g.current = r.current /\ g.pending = r.pending
  BY <1>2, <1>4, <1>5 DEF WkRecord
<1>7. PICK h : h = [r EXCEPT !.list = z, !.pending = r.pending \cup {w}]
  OBVIOUS
<1>8. h \in WkRecord /\ h.list = z /\ h.current = r.current /\ h.pending = r.pending \cup {w}
  BY <1>2, <1>4, <1>7 DEF WkRecord
<1>9. InUse("wk_critical") => WkHolds(g)
  BY <1>4, <1>6 DEF WkHolds
<1>10. WkHolds(h)
  BY <1>4, <1>8 DEF WkHolds
<1>. QED BY <1>5, <1>7, <1>9, <1>10

LEMMA MissedHolds ==
  ASSUME NEW r, WkHolds(r), NEW b \in BOOLEAN
  PROVE  WkHolds([r EXCEPT !.missed = b])
<1>1. PICK g : g = [r EXCEPT !.missed = b]
  OBVIOUS
<1>2. r \in WkRecord
  BY DEF WkHolds
<1>3. g \in WkRecord /\ g.list = r.list /\ g.current = r.current /\ g.pending = r.pending
  BY <1>1, <1>2 DEF WkRecord
<1>4. WkHolds(g)
  BY <1>3 DEF WkHolds
<1>. QED BY <1>1, <1>4

LEMMA DoneHolds ==
  ASSUME NEW r, WkHolds(r)
  PROVE  WkHolds([r EXCEPT !.current = None])
<1>1. PICK g : g = [r EXCEPT !.current = None]
  OBVIOUS
<1>2. r \in WkRecord
  BY DEF WkHolds
<1>3. g \in WkRecord /\ g.list = r.list /\ g.current = None /\ g.pending = r.pending
  BY <1>1, <1>2 DEF WkRecord
<1>4. ~Contains(r.list, None)
  BY <1>2, WorkQueueAssumption, ElementOfSeq DEF WkRecord, Contains
<1>5. WkHolds(g)
  BY <1>3, <1>4 DEF WkHolds
<1>. QED BY <1>1, <1>5

LEMMA PickHolds ==
  ASSUME NEW r, WkHolds(r), r.list # <<>>,
         NEW g, g = [list |-> Tail(r.list), current |-> Head(r.list),
                     pending |-> r.pending \ {Head(r.list)}, missed |-> FALSE]
  PROVE  WkHolds(g)
<1>1. PICK z, h : z = Tail(r.list) /\ h = Head(r.list)
  OBVIOUS
<1>2. r.list \in Seq(Work) /\ r.pending \subseteq Work /\ Distinct(r.list)
  BY DEF WkHolds, WkRecord
<1>3. h = r.list[1] /\ h \in Work /\ z \in Seq(Work)
  BY <1>1, <1>2, HeadTailProperties, HeadList
<1>4. Distinct(z) /\ \A x : Contains(z, x) <=> Contains(r.list, x) /\ x # h
  BY <1>1, <1>2, <1>3, TailList
<1>5. g.list = z /\ g.current = h /\ g.pending = r.pending \ {h} /\ g \in WkRecord
  BY <1>1, <1>2, <1>3 DEF WkRecord
<1>. QED BY <1>4, <1>5 DEF WkHolds

LEMMA CancelHolds ==
  ASSUME NEW r, WkHolds(r), NEW w,
         NEW z, z = RemoveFirst(r.list, w)
  PROVE  WkHolds([r EXCEPT !.list = z, !.pending = r.pending \ {w}])
<1>1. r.list \in Seq(Work) /\ r \in WkRecord
  BY DEF WkHolds, WkRecord
<1>2. z \in Seq(Work) /\ Distinct(z) /\ \A x : Contains(z, x) <=> Contains(r.list, x) /\ x # w
  BY <1>1, RemoveFirstList DEF WkHolds
<1>3. PICK h : h = [r EXCEPT !.list = z, !.pending = r.pending \ {w}]
  OBVIOUS
<1>4. h \in WkRecord /\ h.list = z /\ h.current = r.current /\ h.pending = r.pending \ {w}
  BY <1>1, <1>2, <1>3 DEF WkRecord
<1>5. WkHolds(h)
  BY <1>2, <1>4 DEF WkHolds
<1>. QED BY <1>3, <1>5

LEMMA CancelAllHolds ==
  ASSUME NEW r, WkHolds(r), InUse("wk_cancel_all")
  PROVE  WkHolds([r EXCEPT !.list = <<>>])
<1>1. PICK h : h = [r EXCEPT !.list = <<>>]
  OBVIOUS
<1>2. r \in WkRecord /\ <<>> \in Seq(Work)
  BY DEF WkHolds
<1>3. h \in WkRecord /\ h.list = <<>> /\ h.current = r.current /\ h.pending = r.pending
  BY <1>1, <1>2 DEF WkRecord
<1>4. WkHolds(h)
  BY <1>3, EmptyList DEF WkHolds, Distinct
<1>. QED BY <1>1, <1>4

\* A step of the running thread in the work queue, from a place of rt_workqueue's thread or not
LEMMA WkActs ==
  ASSUME Core, CoreStep, WkInv, NEW t \in Running, WorkFits(t)', WkHolds(wk'),
         wk'.current = None \/ pc'[t] = "wk_do" \/ (wk.current # None /\ pc[t] # "wk_do"),
         \A u \in Thread : IsWorker(u) /\ Drowsy(u)' /\ wk'.list # <<>> => Coming'
  PROVE  WkInv'
<1>1. t = k.cur /\ t \in Thread /\ use' = use
  BY KernelFunctions DEF CoreStep, FlowPlaces, Core, Running
<1>2. \A u \in Thread : WorkFits(u)'
  BY <1>1, OthersWork DEF WkInv
<1>3. wk'.current # None => \E u \in Thread : pc'[u] = "wk_do"
  <2>1. ASSUME wk.current # None, pc[t] # "wk_do" PROVE \E u \in Thread : pc'[u] = "wk_do"
    <3>1. PICK u \in Thread : pc[u] = "wk_do"
      BY <2>1 DEF WkInv
    <3>2. u # Idle /\ u # t
      BY <2>1, <3>1 DEF Core, PlacePart
    <3>. QED BY <1>1, <3>1, <3>2 DEF CoreStep, FlowPlaces
  <2>. QED BY <1>1, <2>1
<1>4. WkType' /\ WkFlagsAgree'
  BY <1>1, HoldsMeans
<1>. QED BY <1>1, <1>2, <1>3, <1>4 DEF WkInv, IsWorker

\* A thread that is no work thread, at a place that is not the work thread's
LEMMA OutsiderFits ==
  ASSUME NEW t, use' = use, ~IsWorker(t), pc'[t] \notin WorkPlaces \cup {"schedule", "again"}
  PROVE  WorkFits(t)'
BY DEF WorkFits, IsWorker

\* While a work runs its thread is awake
LEMMA BusyAwake ==
  ASSUME Core, CoreStep, WkInv, wk.current # None, NEW t \in Thread, IsWorker(t), k' = k,
         pc'[t] = pc[t]
  PROVE  ~Drowsy(t)'
<1>1. PICK u \in Thread : pc[u] = "wk_do"
  BY DEF WkInv
<1>2. IsWorker(u)
  BY <1>1 DEF WkInv, WorkFits, WorkPlaces
<1>3. t = u
  BY <1>2, WorkerIs DEF Core, PlacePart
<1>4. k.stat[t] # "suspend"
  BY <1>1, <1>3 DEF Core, RunningPart
<1>. QED BY <1>1, <1>3, <1>4 DEF Drowsy

\* rt_thread_resume of the work thread
LEMMA ResumedAwake ==
  ASSUME Core, NEW t \in Thread, IsWorker(t), NEW e, e = Resume(k, Worker)
  PROVE  e.stat[t] # "suspend" /\ KernelInv(e, {})
<1>1. Worker = t /\ k.stat \in [Thread -> Stat] /\ KernelInv(k, {})
  BY WorkerIs, KernelFunctions DEF Core, PlacePart
<1>2. CASE k.stat[t] = "suspend"
  <2>1. KernelInv(e, {}) /\ Woken(k, e, t)
    BY <1>1, <1>2, ResumeKeeps
  <2>. QED BY <1>1, <2>1 DEF Woken
<1>3. CASE k.stat[t] # "suspend"
  BY <1>1, <1>3 DEF Resume
<1>. QED BY <1>2, <1>3

\* Of the work thread itself
LEMMA ThreadKeeps ==
  ASSUME Core, CoreStep, WkInv, NEW t \in Running,
         WkTest(t) \/ WkSuspend(t) \/ WkPick(t) \/ WkDone(t)
  PROVE  WkInv'
<1>1. /\ t = k.cur /\ t \in Thread /\ pc \in [Thread -> AllLabels] /\ DOMAIN call = Thread
      /\ use' = use /\ use \in Uses /\ WorkFits(t) /\ WkHolds(wk)
      /\ \A u \in Thread : IsWorker(u) /\ Drowsy(u) /\ wk.list # <<>> => Coming
  BY PlaceTypes, HoldsIs DEF CoreStep, FlowPlaces, Core, PlacePart, Running, WkInv
<1>2. IsWorker(t)
  BY <1>1 DEF WkTest, WkSuspend, WkPick, WkPicks, WkDone, Starts, At, IsWorker, WorkFits, WorkPlaces
<1>3. \A u \in Thread : IsWorker(u) => u = t
  BY <1>1, <1>2, WorkerIs
<1>4. \A p : Goto(t, p) => pc'[t] = p /\ \A u \in Thread \ {t} : pc'[u] = pc[u]
  BY <1>1 DEF Goto
<1>5. k.stat[t] = "ready" \/ pc[t] \in {"schedule", "post"}
  BY <1>1 DEF Core, RunningPart
<1>6. CASE WkTest(t)
  <2>1. /\ pc'[t] \in WorkPlaces /\ k' = k /\ wk' = wk /\ pc[t] = "run" /\ k.stat[t] = "ready"
        /\ pc'[t] = "wk_suspend" => wk.list = <<>>
    BY <1>4, <1>5, <1>6 DEF WkTest, Starts, At, WorkPlaces
  <2>2. WorkFits(t)'
    BY <1>1, <1>2, <2>1 DEF WorkFits, IsWorker, WorkPlaces
  <2>3. Drowsy(t)' => wk'.list = <<>>
    BY <2>1 DEF Drowsy
  <2>. QED BY <1>1, <1>3, <2>1, <2>2, <2>3, WkActs
<1>7. CASE WkSuspend(t)
  <2>1. /\ pc[t] = "wk_suspend" /\ pc'[t] = "schedule" /\ wk' = wk /\ call'[t].op = "wk_work"
        /\ \A u \in Thread \ {t} : pc'[u] = pc[u]
    BY <1>1, <1>4, <1>7 DEF WkSuspend, Block, At
  <2>2. WorkFits(t)'
    BY <1>1, <1>2, <2>1 DEF WorkFits, IsWorker
  <2>3. Coming => Coming'
    BY <2>1 DEF Coming
  <2>4. wk'.list # <<>> => Coming'
    BY <1>1, <1>2, <2>1, <2>3 DEF Drowsy
  <2>. QED BY <1>1, <2>1, <2>2, <2>4, WkActs
<1>8. CASE WkPick(t)
  <2>1. /\ pc'[t] = "wk_do" /\ k' = k /\ wk.list # <<>> /\ k.stat[t] = "ready"
        /\ wk' = [list |-> Tail(wk.list), current |-> Head(wk.list),
                  pending |-> wk.pending \ {Head(wk.list)}, missed |-> FALSE]
    BY <1>4, <1>5, <1>8 DEF WkPick, WkPicks, At
  <2>2. WorkFits(t)'
    BY <1>1, <1>2, <2>1 DEF WorkFits, IsWorker, WorkPlaces
  <2>3. ~Drowsy(t)'
    BY <2>1 DEF Drowsy
  <2>4. WkHolds(wk')
    BY <1>1, <2>1, PickHolds
  <2>. QED BY <1>3, <2>1, <2>2, <2>3, <2>4, WkActs
<1>9. CASE WkDone(t)
  <2>1. /\ pc'[t] = "run" /\ k' = k /\ k.stat[t] = "ready" /\ wk' = [wk EXCEPT !.current = None]
    BY <1>4, <1>5, <1>9 DEF WkDone, At
  <2>2. WorkFits(t)'
    BY <1>1, <1>2, <2>1 DEF WorkFits, IsWorker, WorkPlaces
  <2>3. ~Drowsy(t)'
    BY <2>1 DEF Drowsy
  <2>4. WkHolds(wk') /\ wk'.current = None
    BY <1>1, <2>1, DoneHolds DEF WkHolds, WkRecord
  <2>. QED BY <1>3, <2>2, <2>3, <2>4, WkActs
<1>. QED BY <1>6, <1>7, <1>8, <1>9

\* Of the others
LEMMA SubmitKeeps ==
  ASSUME Core, CoreStep, WkInv, NEW t \in Running, NEW w \in Work, WkSubmit(t, w) \/ WkCritical(t, w)
  PROVE  WkInv'
<1>1. /\ t = k.cur /\ t \in Thread /\ pc \in [Thread -> AllLabels]
      /\ use' = use /\ use \in Uses /\ WkHolds(wk)
  BY PlaceTypes, HoldsIs DEF CoreStep, FlowPlaces, Core, PlacePart, Running, WkInv
<1>2. /\ pc[t] = "run" /\ k' = k /\ pc'[t] = (IF wk.current = None THEN "wk_resume" ELSE "run")
      /\ \A u \in Thread \ {t} : pc'[u] = pc[u]
  BY <1>1 DEF WkSubmit, WkCritical, Starts, At, Goto
<1>3. "wk_submit" \in use.calls[t] \/ "wk_critical" \in use.calls[t]
  BY DEF WkSubmit, WkCritical, Starts
<1>4. ~IsWorker(t)
  BY <1>1, <1>3, WorkerIs
<1>5. WorkFits(t)'
  BY <1>1, <1>2, <1>4, OutsiderFits DEF WorkPlaces
<1>6. WkHolds(wk') /\ wk'.current = wk.current
  <2>1. CASE WkSubmit(t, w)
    <3>1. wk' = [wk EXCEPT !.list = Append(RemoveFirst(wk.list, w), w), !.pending = wk.pending \cup {w}]
      BY <1>1, <2>1 DEF WkSubmit, Submitted, WkLinked, WkHolds, WkRecord
    <3>2. wk.current # w
      BY <2>1 DEF WkSubmit, WkBusy
    <3>3. wk'.current = wk.current
      BY <1>1, <3>1 DEF WkHolds, WkRecord
    <3>. QED BY <1>1, <3>1, <3>2, <3>3, LinkHolds
  <2>2. CASE WkCritical(t, w)
    <3>1. wk' = [wk EXCEPT !.list = Append(RemoveFirst(wk.list, w), w)]
      BY <1>1, <2>2 DEF WkCritical, WkLinked, WkHolds, WkRecord
    <3>2. wk.current # w /\ InUse("wk_critical")
      BY <1>1, <2>2 DEF WkCritical, Starts, InUse
    <3>3. wk'.current = wk.current
      BY <1>1, <3>1 DEF WkHolds, WkRecord
    <3>. QED BY <1>1, <3>1, <3>2, <3>3, LinkHolds
  <2>. QED BY <2>1, <2>2
<1>7. ASSUME NEW u \in Thread, IsWorker(u), Drowsy(u)' PROVE Coming'
  <2>1. wk.current = None
    BY <1>2, <1>4, <1>7, BusyAwake
  <2>. QED BY <1>1, <1>2, <2>1 DEF Coming
<1>. QED BY <1>2, <1>5, <1>6, <1>7, WkActs

LEMMA WkResumeKeeps ==
  ASSUME Core, CoreStep, WkInv, NEW t \in Running, WkResume(t)
  PROVE  WkInv'
<1>1. /\ t = k.cur /\ t \in Thread /\ pc \in [Thread -> AllLabels]
      /\ use' = use /\ use \in Uses /\ WkHolds(wk) /\ WorkFits(t)
  BY PlaceTypes, HoldsIs DEF CoreStep, FlowPlaces, Core, PlacePart, Running, WkInv
<1>2. /\ pc[t] = "wk_resume" /\ pc'[t] = "post" /\ k' = Resume(k, Worker)
      /\ wk' = [wk EXCEPT !.missed = wk.missed \/ Gap]
      /\ \A u \in Thread \ {t} : pc'[u] = pc[u]
  BY <1>1 DEF WkResume, At, Goto, WkHolds, WkRecord
<1>3. ~IsWorker(t)
  BY <1>1, <1>2 DEF WorkFits, WorkPlaces
<1>4. WorkFits(t)'
  BY <1>1, <1>2, <1>3, OutsiderFits DEF WorkPlaces
<1>5. PICK b \in BOOLEAN : b = (wk.missed \/ Gap)
  BY DEF Gap
<1>6. WkHolds(wk') /\ wk'.current = wk.current /\ wk'.missed = b
  <2>1. wk' = [wk EXCEPT !.missed = b]
    BY <1>2, <1>5
  <2>. QED BY <1>1, <2>1, MissedHolds DEF WkHolds, WkRecord
<1>7. ASSUME NEW u \in Thread, IsWorker(u), Drowsy(u)' PROVE Coming'
  <2>1. k'.stat[u] # "suspend"
    BY <1>2, <1>7, ResumedAwake
  <2>2. pc'[u] = "wk_suspend" /\ pc[u] = pc'[u] /\ Worker = u
    BY <1>1, <1>2, <1>3, <1>7, <2>1, WorkerIs DEF Drowsy
  <2>3. b
    BY <1>5, <2>2 DEF Gap
  <2>. QED BY <1>6, <2>3 DEF Coming
<1>. QED BY <1>2, <1>4, <1>6, <1>7, WkActs

LEMMA CancelKeeps ==
  ASSUME Core, CoreStep, WkInv, NEW t \in Running,
         WkCancelAll(t) \/ \E w \in Work : WkCancel(t, w)
  PROVE  WkInv'
<1>1. /\ t = k.cur /\ t \in Thread /\ use' = use /\ use \in Uses /\ WkHolds(wk) /\ WorkFits(t)
      /\ pc' = pc /\ call' = call /\ k' = k
  BY PlaceTypes, HoldsIs
  DEF CoreStep, FlowPlaces, Core, PlacePart, Running, WkInv, WkCancelAll, WkCancel, caller
<1>2. WorkFits(t)'
  BY <1>1 DEF WorkFits, IsWorker
<1>3. pc[t] = "run"
  BY DEF WkCancelAll, WkCancel, Starts, At
<1>4. /\ WkHolds(wk') /\ wk'.current = wk.current /\ wk'.missed = wk.missed
      /\ wk'.list # <<>> => wk.list # <<>>
  <2>1. CASE WkCancelAll(t)
    <3>1. wk' = [wk EXCEPT !.list = <<>>] /\ InUse("wk_cancel_all")
      BY <1>1, <2>1 DEF WkCancelAll, Starts, InUse
    <3>. QED BY <1>1, <3>1, CancelAllHolds DEF WkHolds, WkRecord
  <2>2. ASSUME NEW w \in Work, WkCancel(t, w)
        PROVE  /\ WkHolds(wk') /\ wk'.current = wk.current /\ wk'.missed = wk.missed
               /\ wk'.list # <<>> => wk.list # <<>>
    <3>1. PICK z : z = RemoveFirst(wk.list, w)
      OBVIOUS
    <3>2. wk' = [wk EXCEPT !.list = z, !.pending = wk.pending \ {w}]
      BY <1>1, <2>2, <3>1 DEF WkCancel, WkHolds, WkRecord
    <3>3. wk'.current = wk.current /\ wk'.missed = wk.missed /\ wk'.list = z
      BY <1>1, <3>2 DEF WkHolds, WkRecord
    <3>4. wk.list = <<>> => z = <<>>
      <4>1. wk.list \in Seq(Work)
        BY <1>1 DEF WkHolds, WkRecord
      <4>2. ~Contains(wk.list, w) => RemoveFirst(wk.list, w) = wk.list
        BY ONLY <4>1, RemoveFirstList
      <4>3. wk.list = <<>> => ~Contains(wk.list, w)
        <5>1. HAVE wk.list = <<>>
        <5>2. ~Contains(<<>>, w)
          BY EmptyList
        <5>. QED BY <5>1, <5>2
      <4>. QED BY ONLY <3>1, <4>2, <4>3
    <3>. QED BY <1>1, <3>1, <3>2, <3>3, <3>4, CancelHolds
  <2>. QED BY <2>1, <2>2
<1>5. ASSUME NEW u \in Thread, IsWorker(u), Drowsy(u)', wk'.list # <<>> PROVE Coming'
  <2>1. Drowsy(u)
    BY <1>1, <1>5 DEF Drowsy
  <2>2. Coming
    BY <1>4, <1>5, <2>1 DEF WkInv
  <2>. QED BY <1>1, <1>4, <2>2 DEF Coming
<1>. QED BY <1>2, <1>3, <1>4, <1>5, WkActs

\* A handler's submission
LEMMA WkIsrKeeps ==
  ASSUME Core, CoreStep, WkInv, NEW w \in Work, WkIsrSubmit(w)
  PROVE  WkInv'
<1>1. /\ use' = use /\ use \in Uses /\ WkHolds(wk) /\ pc' = pc /\ call' = call
      /\ \A u \in Thread : WorkFits(u)
  BY HoldsIs DEF CoreStep, FlowPlaces, Core, PlacePart, WkInv, WkIsrSubmit
<1>2. \A u \in Thread : WorkFits(u)'
  BY <1>1 DEF WorkFits, IsWorker
<1>3. PICK r : r = Submitted(w)
  OBVIOUS
<1>4. WkHolds(r) /\ r.current = wk.current /\ r.missed = wk.missed /\ r \in WkRecord
  <2>1. r = [wk EXCEPT !.list = Append(RemoveFirst(wk.list, w), w), !.pending = wk.pending \cup {w}]
    BY <1>1, <1>3 DEF Submitted, WkLinked, WkHolds, WkRecord
  <2>2. wk.current # w
    BY DEF WkIsrSubmit, WkBusy
  <2>3. r.current = wk.current /\ r.missed = wk.missed
    BY <1>1, <2>1 DEF WkHolds, WkRecord
  <2>4. WkHolds(r)
    BY <1>1, <2>1, <2>2, LinkHolds
  <2>. QED BY <2>3, <2>4 DEF WkHolds
<1>5. PICK b \in BOOLEAN : b = (wk.missed \/ Gap)
  BY DEF Gap
<1>6. CASE wk.current = None
  <2>1. wk' = [r EXCEPT !.missed = b] /\ k' = Schedule(Resume(k, Worker))
    BY <1>3, <1>4, <1>5, <1>6 DEF WkIsrSubmit
  <2>2. WkHolds(wk') /\ wk'.current = None /\ wk'.missed = b
    BY <1>4, <1>6, <2>1, MissedHolds DEF WkRecord
  <2>3. ASSUME NEW u \in Thread, IsWorker(u), Drowsy(u)' PROVE Coming'
    <3>1. PICK e : e = Resume(k, Worker)
      OBVIOUS
    <3>2. e.stat[u] # "suspend" /\ KernelInv(e, {})
      BY <2>3, <3>1, ResumedAwake
    <3>3. k' = [e EXCEPT !.cur = k'.cur]
      BY <2>1, <3>1, <3>2, ScheduleKeeps
    <3>4. k'.stat = e.stat
      BY <3>2, <3>3 DEF KernelInv, KernelType
    <3>5. pc[u] = "wk_suspend" /\ Worker = u
      BY <1>1, <2>3, <3>2, <3>4, WorkerIs DEF Drowsy
    <3>. QED BY <1>5, <2>2, <3>5 DEF Gap, Coming
  <2>. QED BY <1>1, <1>2, <2>2, <2>3, HoldsMeans DEF WkInv, IsWorker
<1>7. CASE wk.current # None
  <2>1. wk' = r /\ k' = k
    BY <1>3, <1>7 DEF WkIsrSubmit
  <2>2. \A u \in Thread : IsWorker(u) => ~Drowsy(u)'
    BY <1>1, <1>7, <2>1, BusyAwake
  <2>3. \E u \in Thread : pc'[u] = "wk_do"
    BY <1>1, <1>7 DEF WkInv
  <2>. QED BY <1>1, <1>2, <1>4, <2>1, <2>2, <2>3, HoldsMeans DEF WkInv, IsWorker
<1>. QED BY <1>6, <1>7

LEMMA WkStays == StrandInv /\ WkInv /\ [Next]_vars => WkInv'
<1> SUFFICES ASSUME StrandInv, WkInv, [Next]_vars PROVE WkInv'
  OBVIOUS
<1>1. Core /\ CoreStep /\ DetachPart
  BY CoreSteps DEF StrandInv, QueuesInv, IInv
<1>2. CASE WkNext
  BY <1>1, <1>2, ThreadKeeps, SubmitKeeps, WkResumeKeeps, CancelKeeps, WkIsrKeeps DEF WkNext
<1>3. CASE ~WkNext
  BY <1>1, <1>3, WkElse, WkRests
<1>. QED BY <1>2, <1>3

LEMMA WkStarts == Init => WkInv
<1> SUFFICES ASSUME Init PROVE WkInv
  OBVIOUS
<1>1. wk = [list |-> <<>>, current |-> None, pending |-> {}, missed |-> FALSE]
      /\ \A t \in Thread : pc[t] = "run"
  BY DEF Init, WkInit, CallerInit
<1>2. WkType /\ WkFlagsAgree
  <2>1. WkType
    BY <1>1 DEF WkType, Distinct
  <2>2. ToSet(<<>>) = {}
    BY DEF ToSet
  <2>. QED BY <1>1, <2>1, <2>2, EmptyList DEF WkFlagsAgree
<1>3. \A t \in Thread : WorkFits(t)
  BY <1>1 DEF WorkFits, WorkPlaces
<1>. QED BY <1>1, <1>2, <1>3 DEF WkInv

LEMMA WkMeans == StrandInv /\ WkInv => WkSound
<1> SUFFICES ASSUME StrandInv, WkInv PROVE WkSound
  OBVIOUS
<1>1. use \in Uses
  BY DEF StrandInv, QueuesInv, IInv, Core, PlacePart
<1>2. ASSUME InUse("wk_work"), wk.list # <<>>, k.stat[Worker] = "suspend" PROVE Coming
  <2>1. PICK t \in Thread : IsWorker(t)
    BY <1>1, <1>2, WorkQueueAssumption DEF InUse, IsWorker
  <2>2. Worker = t
    BY <1>1, <2>1, WorkerIs
  <2>. QED BY <1>2, <2>1, <2>2 DEF WkInv, Drowsy
<1>3. WkStallsOnlyInGap
  BY <1>2 DEF WkStallsOnlyInGap, Coming
<1>. QED BY <1>3 DEF WkInv, WkSound

(***************************************************************************)
(* However works are submitted, resubmitted and cancelled, from threads    *)
(* and handlers: RT_WORK_STATE_PENDING is set for exactly the works that   *)
(* are queued, but where the two calls that do not keep it are used; no    *)
(* work is queued while it runs; and the work thread sleeps beside a       *)
(* queued work only until the submitter that linked it resumes it, or      *)
(* after a resume that came between its test and its rt_thread_suspend.    *)
(***************************************************************************)
THEOREM WorkQueueKept == Spec => []WkSound
<1>1. StrandInv /\ WkInv /\ [Next]_vars => WkInv'
  BY WkStays
<1>2. Init => WkInv
  BY WkStarts
<1>. QED BY <1>1, <1>2, StrandKeep, WkMeans, PTL DEF Spec
=============================================================================
