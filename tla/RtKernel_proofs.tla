--------------------------- MODULE RtKernel_proofs ---------------------------
(***************************************************************************)
(* Lemmas about the operators of RtKernel: each one keeps the ready lists, *)
(* the suspend lists, the bitmap and the thread timers consistent.         *)
(***************************************************************************)
EXTENDS RtKernel, SequenceTheorems, WellFoundedInduction, TLAPS

-----------------------------------------------------------------------------
(***************************************************************************)
(* Lists.                                                                  *)
(***************************************************************************)

\* rt_list_insert_before at the list head appends
LEMMA AppendList ==
  ASSUME NEW S, NEW s \in Seq(S), NEW t \in S
  PROVE  /\ Append(s, t) \in Seq(S)
         /\ Append(s, t) # <<>>
         /\ \A u : Contains(Append(s, t), u) <=> Contains(s, u) \/ u = t
         /\ Distinct(s) /\ ~Contains(s, t) => Distinct(Append(s, t))
<1>1. /\ Append(s, t) \in Seq(S)
      /\ Append(s, t) # <<>>
      /\ Len(Append(s, t)) = Len(s) + 1
      /\ \A i \in 1..Len(s) : Append(s, t)[i] = s[i]
      /\ Append(s, t)[Len(s) + 1] = t
  BY AppendProperties
<1>2. Len(s) \in Nat
  BY LenProperties
<1>3. ASSUME NEW u PROVE Contains(Append(s, t), u) <=> Contains(s, u) \/ u = t
  BY <1>1, <1>2 DEF Contains
<1>4. ASSUME Distinct(s), ~Contains(s, t) PROVE Distinct(Append(s, t))
  BY <1>1, <1>2, <1>4 DEF Contains, Distinct
<1>. QED BY <1>1, <1>3, <1>4

\* A non-empty set of natural numbers has a least element
LEMMA MinNat ==
  ASSUME NEW S \in SUBSET Nat, S # {}
  PROVE  Min(S) \in S /\ \A x \in S : Min(S) <= x
<1> DEFINE Least(x) == x \in S /\ \A y \in S : x =< y
<1>1. \E n \in S : \A m \in S : n <= m
  <2> DEFINE R == OpToRel(<, Nat)
  <2>1. \E n \in S : \A m \in S : <<m, n>> \notin R
    <3>1. IsWellFoundedOn(R, Nat)
      BY NatLessThanWellFounded
    <3> HIDE DEF R
    <3>. QED BY <3>1, WFMin
  <2>2. ASSUME NEW m \in Nat, NEW n \in Nat, <<m, n>> \notin R PROVE n <= m
    BY <2>2 DEF OpToRel
  <2>. QED BY <2>1, <2>2
<1>2. Min(S) = CHOOSE x : Least(x)
  BY DEF Min
<1>3. \E x : Least(x)
  BY <1>1
<1>4. Least(CHOOSE x : Least(x))
  <2> HIDE DEF Least
  <2>. QED BY <1>3
<1>. QED BY <1>2, <1>4

\* r is s with t as its item n
Inserted(S, r, s, n, t) ==
  /\ r \in Seq(S)
  /\ Len(r) = Len(s) + 1
  /\ \A i \in 1..(n - 1) : r[i] = s[i]
  /\ r[n] = t
  /\ \A i \in (n + 1)..(Len(s) + 1) : r[i] = s[i - 1]

\* What is where after inserting in the middle of a list
LEMMA InsertAtItems ==
  ASSUME NEW S, NEW s \in Seq(S), NEW t \in S, NEW n \in 1..(Len(s) + 1)
  PROVE  Inserted(S, InsertAt(s, n, t), s, n, t)
<1> DEFINE r == InsertAt(s, n, t)
           a == SubSeq(s, 1, n - 1)
           b == SubSeq(s, n, Len(s))
           c == a \o <<t>>
<1>1. Len(s) \in Nat /\ \A i \in 1..Len(s) : s[i] \in S
  BY LenProperties, ElementOfSeq
<1>2. r = c \o b
  BY DEF InsertAt
<1>3. /\ a \in Seq(S) /\ Len(a) = n - 1
      /\ \A i \in 1..(n - 1) : a[i] = s[i]
  <2>1. \A i \in 1..(n - 1) : s[i] \in S
    BY <1>1
  <2>. QED BY <2>1, <1>1, SubSeqProperties
<1>4. /\ b \in Seq(S) /\ Len(b) = Len(s) - n + 1
      /\ \A i \in 1..(Len(s) - n + 1) : b[i] = s[n + i - 1]
  <2>1. \A i \in n..Len(s) : s[i] \in S
    BY <1>1
  <2>. QED BY <2>1, <1>1, SubSeqProperties
<1>5. <<t>> \in Seq(S) /\ Len(<<t>>) = 1 /\ <<t>>[1] = t
  OBVIOUS
<1> HIDE DEF a, b, r
<1>6. /\ c \in Seq(S) /\ Len(c) = n
      /\ \A i \in 1..(n - 1) : c[i] = s[i]
      /\ c[n] = t
  <2>1. /\ c \in Seq(S)
        /\ Len(c) = n
        /\ \A i \in 1..n : c[i] = IF i <= Len(a) THEN a[i] ELSE <<t>>[i - Len(a)]
    BY <1>3, <1>5, <1>1, ConcatProperties
  <2>. QED BY <2>1, <1>3, <1>5, <1>1, SMTT(60)
<1> HIDE DEF c
<1>7. /\ r \in Seq(S)
      /\ Len(r) = Len(s) + 1
      /\ \A i \in 1..(Len(s) + 1) : r[i] = IF i <= n THEN c[i] ELSE b[i - n]
  <2>1. /\ r \in Seq(S) /\ Len(r) = Len(c) + Len(b)
        /\ \A i \in 1..Len(c) + Len(b) : r[i] = IF i <= Len(c) THEN c[i] ELSE b[i - Len(c)]
    BY <1>2, <1>4, <1>6, ConcatProperties, ZenonT(60)
  <2>. QED BY <2>1, <1>4, <1>6, <1>1
<1>8. ASSUME NEW i \in (n + 1)..(Len(s) + 1) PROVE r[i] = s[i - 1]
  <2>1. r[i] = b[i - n] /\ i - n \in 1..(Len(s) - n + 1)
    BY <1>7, <1>1
  <2>2. b[i - n] = s[n + (i - n) - 1] /\ n + (i - n) - 1 = i - 1
    BY <2>1, <1>4, <1>1
  <2>. QED BY <2>1, <2>2
<1>9. \A i \in 1..(n - 1) : r[i] = s[i]
  BY <1>6, <1>7, <1>1
<1>10. r[n] = t
  BY <1>6, <1>7, <1>1
<1>11. Inserted(S, r, s, n, t)
  BY <1>7, <1>8, <1>9, <1>10 DEF Inserted
<1>. QED BY <1>11 DEF r

\* Inserting in the middle of a list
LEMMA InsertAtList ==
  ASSUME NEW S, NEW s \in Seq(S), NEW t \in S, NEW n \in 1..(Len(s) + 1)
  PROVE  /\ InsertAt(s, n, t) \in Seq(S)
         /\ InsertAt(s, n, t) # <<>>
         /\ \A u : Contains(InsertAt(s, n, t), u) <=> Contains(s, u) \/ u = t
         /\ Distinct(s) /\ ~Contains(s, t) => Distinct(InsertAt(s, n, t))
<1> DEFINE r == InsertAt(s, n, t)
<1>1. Len(s) \in Nat /\ \A i \in 1..Len(s) : s[i] \in S
  BY LenProperties, ElementOfSeq
<1>2. /\ r \in Seq(S)
      /\ Len(r) = Len(s) + 1
      /\ \A i \in 1..(n - 1) : r[i] = s[i]
      /\ r[n] = t
      /\ \A i \in (n + 1)..(Len(s) + 1) : r[i] = s[i - 1]
  <2>1. Inserted(S, r, s, n, t)
    BY InsertAtItems
  <2> HIDE DEF r
  <2>. QED BY <2>1 DEF Inserted
<1> HIDE DEF r
<1>3. r # <<>>
  BY <1>1, <1>2
<1>4. ASSUME NEW u PROVE Contains(r, u) <=> Contains(s, u) \/ u = t
  <2>1. ASSUME NEW i \in 1..Len(s) PROVE Contains(r, s[i])
    <3>1. CASE i < n
      <4>1. i \in 1..Len(r) /\ r[i] = s[i]
        BY <3>1, <1>1, <1>2
      <4>. QED BY <4>1 DEF Contains
    <3>2. CASE ~(i < n)
      <4>1. i + 1 \in 1..Len(r) /\ r[i + 1] = s[(i + 1) - 1] /\ (i + 1) - 1 = i
        BY <3>2, <1>1, <1>2, SMTT(60)
      <4>. QED BY <4>1 DEF Contains
    <3>. QED BY <3>1, <3>2
  <2>2. Contains(r, t)
    BY <1>1, <1>2 DEF Contains
  <2>3. ASSUME NEW i \in 1..Len(r) PROVE r[i] = t \/ Contains(s, r[i])
    <3>1. \/ r[i] = t
          \/ i \in 1..Len(s) /\ r[i] = s[i]
          \/ i - 1 \in 1..Len(s) /\ r[i] = s[i - 1]
      BY <1>1, <1>2
    <3>. QED BY <3>1 DEF Contains
  <2>. QED BY <2>1, <2>2, <2>3 DEF Contains
<1>5. ASSUME Distinct(s), ~Contains(s, t) PROVE Distinct(r)
  <2> DEFINE at(i) == IF i < n THEN i ELSE i - 1
  <2>1. ASSUME NEW i \in 1..Len(r), i # n
        PROVE  at(i) \in 1..Len(s) /\ r[i] = s[at(i)] /\ r[i] # t
    <3>1. at(i) \in 1..Len(s) /\ r[i] = s[at(i)]
      BY <2>1, <1>1, <1>2
    <3>. QED BY <3>1, <1>5 DEF Contains
  <2>2. ASSUME NEW i \in 1..Len(r), NEW j \in 1..Len(r), r[i] = r[j] PROVE i = j
    <3>1. CASE i = n \/ j = n
      BY <3>1, <2>1, <2>2, <1>2
    <3>2. CASE i # n /\ j # n
      <4>1. s[at(i)] = s[at(j)]
        BY <3>2, <2>1, <2>2
      <4>2. at(i) = at(j)
        BY <4>1, <3>2, <2>1, <1>5 DEF Distinct
      <4>. QED BY <4>2, <3>2, <1>1, <1>2
    <3>. QED BY <3>1, <3>2
  <2>. QED BY <2>2 DEF Distinct
<1>. QED BY <1>2, <1>3, <1>4, <1>5 DEF r

\* Where things are after rt_list_remove of something in the list
LEMMA RemoveFirstItems ==
  ASSUME NEW S, NEW s \in Seq(S), NEW t, Contains(s, t)
  PROVE  \E n \in 1..Len(s) :
           /\ s[n] = t
           /\ RemoveFirst(s, t) \in Seq(S)
           /\ Len(RemoveFirst(s, t)) = Len(s) - 1
           /\ \A i \in 1..(n - 1) : RemoveFirst(s, t)[i] = s[i]
           /\ \A i \in n..(Len(s) - 1) : RemoveFirst(s, t)[i] = s[i + 1]
<1> DEFINE r == RemoveFirst(s, t)
           I == {i \in 1..Len(s) : s[i] = t}
           n == SelectInSeq(s, LAMBDA v : v = t)
           a == SubSeq(s, 1, n - 1)
           b == SubSeq(s, n + 1, Len(s))
<1>1. Len(s) \in Nat /\ \A i \in 1..Len(s) : s[i] \in S
  BY LenProperties, ElementOfSeq
<1>2. n = Min(I) /\ r = RemoveAt(s, n)
  BY DEF SelectInSeq, RemoveFirst, Contains
<1>3. I \in SUBSET Nat /\ I # {}
  BY <1>1 DEF Contains
<1>4. n \in 1..Len(s) /\ s[n] = t
  BY <1>2, <1>3, MinNat
<1>5. r = a \o b
  BY <1>2 DEF RemoveAt
<1> HIDE DEF n, r
<1>6. /\ a \in Seq(S) /\ Len(a) = n - 1
      /\ \A i \in 1..(n - 1) : a[i] = s[i]
  <2>1. \A i \in 1..(n - 1) : s[i] \in S
    BY <1>1, <1>4
  <2>. QED BY <2>1, <1>1, <1>4, SubSeqProperties
<1>7. /\ b \in Seq(S) /\ Len(b) = Len(s) - n
      /\ \A i \in 1..(Len(s) - n) : b[i] = s[n + i]
  <2>1. \A i \in (n + 1)..Len(s) : s[i] \in S
    BY <1>1, <1>4
  <2>2. /\ b \in Seq(S) /\ Len(b) = IF n + 1 <= Len(s) THEN Len(s) - (n + 1) + 1 ELSE 0
        /\ \A i \in 1..(Len(s) - (n + 1) + 1) : b[i] = s[(n + 1) + i - 1]
    BY <2>1, <1>1, <1>4, SubSeqProperties
  <2>3. \A i \in 1..(Len(s) - n) : (n + 1) + i - 1 = n + i /\ i \in 1..(Len(s) - (n + 1) + 1)
    BY <1>1, <1>4
  <2> HIDE DEF b
  <2>. QED BY <2>2, <2>3, <1>1, <1>4
<1> HIDE DEF a, b
<1>8. /\ r \in Seq(S) /\ Len(r) = Len(s) - 1
      /\ \A i \in 1..(Len(s) - 1) : r[i] = IF i <= n - 1 THEN a[i] ELSE b[i - (n - 1)]
  <2>1. /\ r \in Seq(S) /\ Len(r) = Len(a) + Len(b)
        /\ \A i \in 1..Len(a) + Len(b) : r[i] = IF i <= Len(a) THEN a[i] ELSE b[i - Len(a)]
    BY <1>5, <1>6, <1>7, ConcatProperties
  <2>. QED BY <2>1, <1>6, <1>7, <1>1, <1>4
<1>9. ASSUME NEW i \in n..(Len(s) - 1) PROVE r[i] = s[i + 1]
  <2>1. r[i] = b[i - (n - 1)] /\ i - (n - 1) \in 1..(Len(s) - n)
    BY <1>8, <1>1, <1>4
  <2>2. b[i - (n - 1)] = s[n + (i - (n - 1))] /\ n + (i - (n - 1)) = i + 1
    BY <2>1, <1>7, <1>1, <1>4
  <2>. QED BY <2>1, <2>2
<1>10. \A i \in 1..(n - 1) : r[i] = s[i]
  BY <1>6, <1>8, <1>1, <1>4, SMTT(60)
<1>. QED BY <1>4, <1>8, <1>9, <1>10 DEF r

\* rt_list_remove
LEMMA RemoveFirstList ==
  ASSUME NEW S, NEW s \in Seq(S), NEW t
  PROVE  /\ RemoveFirst(s, t) \in Seq(S)
         /\ ~Contains(s, t) => RemoveFirst(s, t) = s
         /\ Distinct(s) => /\ Distinct(RemoveFirst(s, t))
                           /\ \A u : Contains(RemoveFirst(s, t), u)
                                       <=> Contains(s, u) /\ u # t
<1> DEFINE r == RemoveFirst(s, t)
<1>1. CASE ~Contains(s, t)
  BY <1>1 DEF RemoveFirst, Contains
<1>2. CASE Contains(s, t)
  <2>1. Len(s) \in Nat /\ \A i \in 1..Len(s) : s[i] \in S
    BY LenProperties, ElementOfSeq
  <2> HIDE DEF r
  <2>2. PICK n \in 1..Len(s) :
          /\ s[n] = t
          /\ r \in Seq(S)
          /\ Len(r) = Len(s) - 1
          /\ \A i \in 1..(n - 1) : r[i] = s[i]
          /\ \A i \in n..(Len(s) - 1) : r[i] = s[i + 1]
    BY <1>2, RemoveFirstItems DEF r
  <2>3. ASSUME Distinct(s) PROVE Distinct(r)
    BY <2>1, <2>2, <2>3 DEF Distinct
  <2>4. ASSUME Distinct(s), NEW u PROVE Contains(r, u) <=> Contains(s, u) /\ u # t
    <3>1. ASSUME NEW i \in 1..Len(s), s[i] # t PROVE Contains(r, s[i])
      <4>1. CASE i < n
        <5>1. i \in 1..Len(r) /\ r[i] = s[i]
          BY <4>1, <2>1, <2>2
        <5>. QED BY <5>1 DEF Contains
      <4>2. CASE i > n
        <5>1. i - 1 \in 1..Len(r) /\ r[i - 1] = s[(i - 1) + 1] /\ (i - 1) + 1 = i
          BY <4>2, <2>1, <2>2
        <5>. QED BY <5>1 DEF Contains
      <4>. QED BY <4>1, <4>2, <3>1, <2>1, <2>2
    <3>2. ASSUME NEW i \in 1..Len(r) PROVE Contains(s, r[i]) /\ r[i] # t
      <4>1. CASE i < n
        <5>1. r[i] = s[i] /\ i \in 1..Len(s) /\ i # n
          BY <4>1, <2>1, <2>2, SMTT(60)
        <5>. QED BY <5>1, <2>2, <2>4 DEF Contains, Distinct
      <4>2. CASE ~(i < n)
        <5>1. r[i] = s[i + 1] /\ i + 1 \in 1..Len(s) /\ i + 1 # n
          BY <4>2, <2>1, <2>2
        <5>. QED BY <5>1, <2>2, <2>4 DEF Contains, Distinct
      <4>. QED BY <4>1, <4>2
    <3>. QED BY <3>1, <3>2 DEF Contains
  <2>. QED BY <1>2, <2>2, <2>3, <2>4 DEF r
<1>. QED BY <1>1, <1>2

\* An empty list contains nothing
LEMMA EmptyList == \A u : ~Contains(<<>>, u)
  BY DEF Contains

\* The first of a list that is not empty
LEMMA HeadList ==
  ASSUME NEW S, NEW s \in Seq(S), s # <<>>
  PROVE  Head(s) \in S /\ Contains(s, Head(s))
<1>1. Len(s) \in Nat /\ Len(s) # 0 /\ Head(s) = s[1] /\ Head(s) \in S
  BY HeadTailProperties, EmptySeq, LenProperties
<1>. QED BY <1>1 DEF Contains

-----------------------------------------------------------------------------
(***************************************************************************)
(* Taking a thread off its list.                                           *)
(***************************************************************************)

\* l is k with t on no list
Removed(k, l, t) ==
  /\ \A p \in Prio : ~Contains(k.ready[p], t) => l.ready[p] = k.ready[p]
  /\ l.table = k.table /\ l.group = k.group /\ l.stat = k.stat
  /\ l.prio = k.prio /\ l.timer = k.timer /\ l.cur = k.cur
  /\ l.err = k.err /\ l.lock = k.lock
  /\ l.wait = [w \in WaitList |-> RemoveFirst(k.wait[w], t)]
  /\ \A w \in WaitList : \A u : Contains(l.wait[w], u) <=> Contains(k.wait[w], u) /\ u # t

\* rt_list_remove keeps every list exact, with the thread in limbo
LEMMA ListRemoveLists ==
  ASSUME NEW k, NEW L, KernelInv(k, L), NEW t \in Thread, t # Idle,
         NEW l, l = ListRemove(k, t)
  PROVE  /\ KernelType(l)
         /\ ReadyListsExact(l, L \cup {t})
         /\ WaitListsExact(l, L \cup {t})
         /\ TimersExact(l)
         /\ Removed(k, l, t)
<1>1. /\ k.ready \in [Prio -> Seq(Thread)] /\ k.wait \in [WaitList -> Seq(Thread)]
      /\ \A p \in Prio : Distinct(k.ready[p])
      /\ \A w \in WaitList : Distinct(k.wait[w])
  BY DEF KernelInv, KernelType, ReadyListsExact, WaitListsExact
<1>2. /\ l.ready = [p \in Prio |-> RemoveFirst(k.ready[p], t)]
      /\ l.wait = [w \in WaitList |-> RemoveFirst(k.wait[w], t)]
      /\ l.table = k.table /\ l.group = k.group /\ l.stat = k.stat
      /\ l.prio = k.prio /\ l.timer = k.timer /\ l.cur = k.cur
      /\ l.err = k.err /\ l.lock = k.lock
      /\ KernelType(l)
  <2>1. \A p \in Prio : RemoveFirst(k.ready[p], t) \in Seq(Thread)
    BY <1>1, RemoveFirstList
  <2>2. \A w \in WaitList : RemoveFirst(k.wait[w], t) \in Seq(Thread)
    BY <1>1, RemoveFirstList
  <2>. QED BY <2>1, <2>2 DEF ListRemove, KernelInv, KernelType
<1>3. \A p \in Prio : /\ Distinct(l.ready[p])
                      /\ ~Contains(k.ready[p], t) => l.ready[p] = k.ready[p]
                      /\ \A u : Contains(l.ready[p], u) <=> Contains(k.ready[p], u) /\ u # t
  BY <1>1, <1>2, RemoveFirstList
<1>4. \A w \in WaitList : /\ Distinct(l.wait[w])
                          /\ \A u : Contains(l.wait[w], u) <=> Contains(k.wait[w], u) /\ u # t
  BY <1>1, <1>2, RemoveFirstList
<1>5. ReadyListsExact(l, L \cup {t})
  BY <1>2, <1>3 DEF KernelInv, ReadyListsExact
<1>6. WaitListsExact(l, L \cup {t})
  BY <1>2, <1>4 DEF KernelInv, WaitListsExact
<1>7. TimersExact(l)
  BY <1>2 DEF KernelInv, TimersExact
<1>8. Removed(k, l, t)
  BY <1>2, <1>3, <1>4 DEF Removed
<1>. QED BY <1>2, <1>5, <1>6, <1>7, <1>8

\* ... which is all there is to do for a thread that is not ready
LEMMA ListRemoveKeeps ==
  ASSUME NEW k, NEW L, KernelInv(k, L), NEW t \in Thread, t # Idle,
         k.stat[t] # "ready" \/ t \in L
  PROVE  KernelInv(ListRemove(k, t), L \cup {t})
<1> DEFINE l == ListRemove(k, t)
<1>1. \A p \in Prio : ~Contains(k.ready[p], t)
  BY DEF KernelInv, ReadyListsExact
<1>2. /\ KernelType(l) /\ ReadyListsExact(l, L \cup {t}) /\ WaitListsExact(l, L \cup {t})
      /\ TimersExact(l) /\ l.table = k.table /\ l.group = k.group /\ l.stat = k.stat
      /\ \A p \in Prio : l.ready[p] = k.ready[p]
  <2>1. /\ KernelType(l) /\ ReadyListsExact(l, L \cup {t}) /\ WaitListsExact(l, L \cup {t})
        /\ TimersExact(l) /\ Removed(k, l, t)
    BY ListRemoveLists
  <2>. QED BY <1>1, <2>1 DEF Removed
<1> HIDE DEF l
<1>3. BitmapExact(l)
  BY <1>2 DEF KernelInv, BitmapExact
<1>. QED BY <1>2, <1>3 DEF KernelInv, l

\* rt_schedule_remove_thread clears the bits of a list and of a row that became empty
LEMMA RemoveReadyKeeps ==
  ASSUME NEW k, NEW L, KernelInv(k, L), NEW t \in Thread, t # Idle
  PROVE  KernelInv(RemoveReady(k, t), L \cup {t})
<1> DEFINE l == ListRemove(k, t)
<1>1. /\ KernelType(l) /\ ReadyListsExact(l, L \cup {t}) /\ WaitListsExact(l, L \cup {t})
      /\ TimersExact(l) /\ l.table = k.table /\ l.group = k.group /\ l.stat = k.stat
      /\ l.prio = k.prio
      /\ \A q \in Prio : ~Contains(k.ready[q], t) => l.ready[q] = k.ready[q]
  <2>1. /\ KernelType(l) /\ ReadyListsExact(l, L \cup {t}) /\ WaitListsExact(l, L \cup {t})
        /\ TimersExact(l) /\ Removed(k, l, t)
    BY ListRemoveLists
  <2> HIDE DEF l
  <2>. QED BY <2>1 DEF Removed
<1> DEFINE p == k.prio[t]
           r == RemoveReady(k, t)
           table == IF l.ready[p] = <<>> THEN k.table \ {p} ELSE k.table
<1>2. p \in Prio
  BY DEF KernelInv, KernelType
<1>3. \A q \in Prio \ {p} : l.ready[q] = k.ready[q]
  BY <1>1 DEF KernelInv, ReadyListsExact
<1>4. r = [l EXCEPT !.table = table,
                    !.group = IF l.ready[p] = <<>> /\ \A q \in table : Row(q) # Row(p)
                                THEN k.group \ {Row(p)} ELSE k.group]
  BY <1>1 DEF RemoveReady
<1> HIDE DEF l, r
<1>5. table = {q \in Prio : l.ready[q] # <<>>}
  <2>1. k.table = {q \in Prio : k.ready[q] # <<>>}
    BY DEF KernelInv, BitmapExact
  <2>2. l.ready[p] # <<>> => k.ready[p] # <<>>
    BY <1>1, <1>2, EmptyList
  <2>. QED BY <1>1, <1>2, <1>3, <2>1, <2>2
<1>6. r.group = {Row(q) : q \in table}
  <2>1. k.group = {Row(q) : q \in k.table}
    BY DEF KernelInv, BitmapExact
  <2>2. r.group = IF l.ready[p] = <<>> /\ \A q \in table : Row(q) # Row(p)
                    THEN k.group \ {Row(p)} ELSE k.group
    BY <1>1, <1>4 DEF KernelType
  <2>3. CASE l.ready[p] = <<>> /\ \A q \in table : Row(q) # Row(p)
    <3>1. table = k.table \ {p}
      BY <2>3
    <3>. QED BY <2>1, <2>2, <2>3, <3>1
  <2>4. CASE l.ready[p] = <<>> /\ \E q \in table : Row(q) = Row(p)
    <3>1. table = k.table \ {p}
      BY <2>4
    <3>. QED BY <2>1, <2>2, <2>4, <3>1
  <2>5. CASE l.ready[p] # <<>>
    BY <2>1, <2>2, <2>5, SMTT(60)
  <2>. QED BY <2>3, <2>4, <2>5
<1>7. /\ r.table = table /\ r.ready = l.ready /\ r.wait = l.wait /\ r.stat = l.stat
      /\ r.prio = l.prio /\ r.timer = l.timer
      /\ KernelType(r)
  <2>1. table \subseteq Prio
    BY <1>5
  <2>2. r.group \subseteq 0..31
    BY <1>1, <1>4 DEF KernelType
  <2>. QED BY <1>1, <1>4, <2>1, <2>2, ZenonT(60) DEF KernelType
<1> HIDE DEF table
<1>8. BitmapExact(r)
  BY <1>5, <1>6, <1>7 DEF BitmapExact
<1>9. ReadyListsExact(r, L \cup {t}) /\ WaitListsExact(r, L \cup {t}) /\ TimersExact(r)
  BY <1>1, <1>7 DEF ReadyListsExact, WaitListsExact, TimersExact
<1>. QED BY <1>1, <1>7, <1>8, <1>9 DEF KernelInv, r

-----------------------------------------------------------------------------
(***************************************************************************)
(* Putting a thread on a ready list, and choosing the next thread.         *)
(***************************************************************************)

\* The rows of the bitmap keep the order of the priorities
LEMMA RowRange == \A p \in 0..255 : Row(p) \in 0..31
  BY DEF Row

LEMMA RowMonotone ==
  ASSUME NEW p \in Nat, NEW q \in Nat, Row(p) < Row(q)
  PROVE  p <= q
  BY DEF Row

\* rt_schedule_insert_thread takes a thread out of limbo and sets both its bits
LEMMA InsertReadyKeeps ==
  ASSUME NEW k, NEW L, KernelInv(k, L), NEW t \in Thread, t \in L, ~k.timer[t]
  PROVE  KernelInv(InsertReady(k, t), L \ {t})
<1> DEFINE p == k.prio[t]
           r == InsertReady(k, t)
<1>1. KernelType(k) /\ p \in Prio /\ k.ready[p] \in Seq(Thread)
  BY DEF KernelInv, KernelType
<1>2. /\ r.stat = [k.stat EXCEPT ![t] = "ready"]
      /\ r.ready = [k.ready EXCEPT ![p] = Append(k.ready[p], t)]
      /\ r.table = k.table \cup {p} /\ r.group = k.group \cup {Row(p)}
      /\ r.prio = k.prio /\ r.wait = k.wait /\ r.timer = k.timer
      /\ KernelType(r)
  <2>1. Append(k.ready[p], t) \in Seq(Thread)
    BY <1>1, AppendList
  <2>2. Row(p) \in 0..31
    BY <1>1, KernelAssumption, RowRange, ZenonT(60)
  <2>3. r = [k EXCEPT !.stat = [k.stat EXCEPT ![t] = "ready"],
                      !.ready = [k.ready EXCEPT ![p] = Append(k.ready[p], t)],
                      !.table = k.table \cup {p},
                      !.group = k.group \cup {Row(p)}]
    BY <1>1 DEF InsertReady, KernelType
  <2> HIDE DEF r, p
  <2>. QED BY <1>1, <2>1, <2>2, <2>3 DEF KernelType, Stat
<1> HIDE DEF r
<1>3. ~Contains(k.ready[p], t) /\ Distinct(k.ready[p])
  BY <1>1 DEF KernelInv, ReadyListsExact
<1>4. /\ r.ready[p] # <<>> /\ Distinct(r.ready[p])
      /\ \A u : Contains(r.ready[p], u) <=> Contains(k.ready[p], u) \/ u = t
      /\ \A q \in Prio \ {p} : r.ready[q] = k.ready[q]
  <2>1. r.ready[p] = Append(k.ready[p], t)
    BY <1>1, <1>2, SMTT(60) DEF KernelType
  <2>2. \A q \in Prio \ {p} : r.ready[q] = k.ready[q]
    BY <1>1, <1>2 DEF KernelType
  <2>. QED BY <1>1, <1>3, <2>1, <2>2, AppendList
<1>5. /\ r.stat[t] = "ready" /\ \A u \in Thread \ {t} : r.stat[u] = k.stat[u]
  BY <1>1, <1>2 DEF KernelType
<1>6. ReadyListsExact(r, L \ {t})
  <2> SUFFICES ASSUME NEW q \in Prio
               PROVE  /\ Distinct(r.ready[q])
                      /\ \A u \in Thread \ (L \ {t}) :
                           Contains(r.ready[q], u) <=> r.stat[u] = "ready" /\ r.prio[u] = q
                      /\ \A u \in L \ {t} : ~Contains(r.ready[q], u)
    BY DEF ReadyListsExact
  <2>1. /\ Distinct(k.ready[q])
        /\ \A u \in Thread \ L :
             Contains(k.ready[q], u) <=> k.stat[u] = "ready" /\ k.prio[u] = q
        /\ \A u \in L : ~Contains(k.ready[q], u)
    BY DEF KernelInv, ReadyListsExact
  <2>. QED BY <2>1, <1>1, <1>2, <1>4, <1>5
<1>7. WaitListsExact(r, L \ {t})
  <2>1. WaitListsExact(k, L)
    BY DEF KernelInv
  <2>. QED BY <2>1, <1>2, <1>5 DEF WaitListsExact
<1>8. BitmapExact(r)
  <2>1. k.table = {q \in Prio : k.ready[q] # <<>>} /\ k.group = {Row(q) : q \in k.table}
    BY DEF KernelInv, BitmapExact
  <2>2. r.table = {q \in Prio : r.ready[q] # <<>>}
    BY <2>1, <1>1, <1>2, <1>4
  <2>3. r.group = {Row(q) : q \in r.table}
    BY <2>1, <1>2
  <2>. QED BY <2>2, <2>3 DEF BitmapExact
<1>9. TimersExact(r) /\ r.stat[Idle] = "ready" /\ Idle \notin L \ {t}
  BY <1>2, <1>5, KernelAssumption DEF KernelInv, TimersExact
<1>. QED BY <1>2, <1>6, <1>7, <1>8, <1>9 DEF KernelInv, r

\* The two-level search finds the most urgent priority that has a ready thread
THEOREM HighestIsMostUrgent ==
  ASSUME NEW k, NEW L, KernelInv(k, L)
  PROVE  /\ Highest(k) \in Prio
         /\ k.ready[Highest(k)] # <<>>
         /\ \A p \in Prio : k.ready[p] # <<>> => Highest(k) <= p
<1> DEFINE number == Min(k.group)
           row == {p \in k.table : Row(p) = number}
<1>1. /\ k.table = {p \in Prio : k.ready[p] # <<>>}
      /\ k.group = {Row(p) : p \in k.table}
      /\ k.table \in SUBSET Nat /\ k.group \in SUBSET Nat
  <2>1. k.table \in SUBSET Prio /\ k.group \in SUBSET (0..31)
    BY DEF KernelInv, KernelType
  <2>2. Prio \subseteq Nat /\ 0..31 \subseteq Nat
    BY KernelAssumption
  <2>3. BitmapExact(k)
    BY DEF KernelInv
  <2>. QED BY <2>1, <2>2, <2>3 DEF BitmapExact
<1>2. k.table # {}
  <2>1. /\ k.prio[Idle] \in Prio
        /\ Contains(k.ready[k.prio[Idle]], Idle)
    BY KernelAssumption DEF KernelInv, KernelType, ReadyListsExact
  <2>. QED BY <2>1, <1>1, EmptyList
<1>3. number \in k.group /\ \A g \in k.group : number <= g
  <2>1. k.group # {}
    BY <1>1, <1>2
  <2>. QED BY <2>1, <1>1, MinNat
<1>4. Highest(k) = Min(row)
  BY DEF Highest, Ffs
<1> HIDE DEF number
<1>5. row \in SUBSET Nat /\ row # {}
  BY <1>1, <1>3
<1>6. Min(row) \in row /\ \A p \in row : Min(row) <= p
  BY <1>5, MinNat
<1>7. ASSUME NEW p \in k.table PROVE Min(row) <= p
  <2>1. CASE Row(p) = number
    BY <2>1, <1>6
  <2>2. CASE Row(p) # number
    <3>1. number <= Row(p) /\ number \in Nat /\ Row(p) \in Nat
      BY <1>1, <1>3
    <3>2. Row(Min(row)) = number /\ Min(row) \in Nat /\ p \in Nat
      BY <1>1, <1>6
    <3>3. Row(Min(row)) < Row(p)
      BY <2>2, <3>1, <3>2
    <3>. QED BY <3>2, <3>3, RowMonotone
  <2>. QED BY <2>1, <2>2
<1>. QED BY <1>1, <1>4, <1>6, <1>7

\* Nothing but the fields named below matters to the consistency of a kernel state
LEMMA SameLists ==
  ASSUME NEW k, NEW L, KernelInv(k, L), NEW r, KernelType(r),
         r.ready = k.ready, r.wait = k.wait, r.table = k.table, r.group = k.group,
         r.stat = k.stat, r.prio = k.prio,
         \A t \in Thread : r.timer[t] => r.stat[t] = "suspend"
  PROVE  KernelInv(r, L)
BY DEF KernelInv, ReadyListsExact, WaitListsExact, BitmapExact, TimersExact

\* rt_schedule picks a ready thread, the first of the most urgent ones
LEMMA ScheduleKeeps ==
  ASSUME NEW k, NEW L, KernelInv(k, L)
  PROVE  /\ KernelInv(Schedule(k), L)
         /\ Schedule(k) = [k EXCEPT !.cur = Schedule(k).cur]
         /\ k.lock = 0 => RunsHighest(Schedule(k))
         /\ k.lock = 0 => k.stat[Schedule(k).cur] = "ready"
         /\ k.lock # 0 => Schedule(k) = k
<1> DEFINE h == Highest(k)
           u == Head(k.ready[h])
           r == Schedule(k)
<1>1. KernelType(k) /\ h \in Prio /\ k.ready[h] # <<>> /\ k.ready[h] \in Seq(Thread)
      /\ \A p \in Prio : k.ready[p] # <<>> => h <= p
  BY HighestIsMostUrgent DEF KernelInv, KernelType
<1>2. u \in Thread /\ Contains(k.ready[h], u)
  BY <1>1, HeadList
<1>3. k.stat[u] = "ready" /\ k.prio[u] = h
  BY <1>1, <1>2 DEF KernelInv, ReadyListsExact
<1>4. r = IF k.lock = 0 THEN [k EXCEPT !.cur = u] ELSE k
  BY DEF Schedule
<1>5. CASE k.lock = 0
  <2> HIDE DEF h, u
  <2>1. r = [k EXCEPT !.cur = u]
    BY <1>4, <1>5
  <2> HIDE DEF r
  <2>2. /\ KernelType(r) /\ r.cur = u /\ r.ready = k.ready /\ r.wait = k.wait
        /\ r.table = k.table /\ r.group = k.group /\ r.stat = k.stat /\ r.prio = k.prio
        /\ r.timer = k.timer
    BY <1>1, <1>2, <2>1 DEF KernelType
  <2>3. KernelInv(r, L)
    <3>1. \A t \in Thread : k.timer[t] => k.stat[t] = "suspend"
      BY DEF KernelInv, TimersExact
    <3>. QED BY <3>1, <2>2, SameLists
  <2>4. RunsHighest(r)
    <3>1. \A p \in Prio : p < h => k.ready[p] = <<>>
      BY <1>1, KernelAssumption
    <3>. QED BY <3>1, <2>2, <1>1, <1>3 DEF RunsHighest, h, u
  <2>. QED BY <1>3, <1>5, <2>1, <2>2, <2>3, <2>4 DEF r
<1>6. CASE k.lock # 0
  BY <1>4, <1>6, <1>1 DEF KernelType
<1>. QED BY <1>5, <1>6

-----------------------------------------------------------------------------
(***************************************************************************)
(* Suspending and waking threads.                                          *)
(***************************************************************************)

\* rt_timer_stop
LEMMA StopTimerKeeps ==
  ASSUME NEW k, NEW L, KernelInv(k, L), NEW t \in Thread
  PROVE  /\ KernelInv(StopTimer(k, t), L)
         /\ ~StopTimer(k, t).timer[t]
         /\ StopTimer(k, t) = [k EXCEPT !.timer = [k.timer EXCEPT ![t] = FALSE]]
<1> DEFINE r == StopTimer(k, t)
<1>1. KernelType(k) /\ TimersExact(k)
  BY DEF KernelInv
<1>2. r = [k EXCEPT !.timer = [k.timer EXCEPT ![t] = FALSE]]
  BY DEF StopTimer
<1> HIDE DEF r
<1>3. /\ r.timer = [k.timer EXCEPT ![t] = FALSE]
      /\ r.ready = k.ready /\ r.wait = k.wait /\ r.table = k.table /\ r.group = k.group
      /\ r.stat = k.stat /\ r.prio = k.prio
      /\ KernelType(r)
  BY <1>1, <1>2 DEF KernelType
<1>4. ~r.timer[t] /\ \A u \in Thread : r.timer[u] => r.stat[u] = "suspend"
  BY <1>1, <1>3 DEF KernelType, TimersExact
<1>. QED BY <1>2, <1>3, <1>4, SameLists DEF r

\* rt_timer_start on the timer of a suspended thread
LEMMA StartTimerKeeps ==
  ASSUME NEW k, NEW L, KernelInv(k, L), NEW t \in Thread, k.stat[t] = "suspend"
  PROVE  /\ KernelInv(StartTimer(k, t), L)
         /\ StartTimer(k, t) = [k EXCEPT !.timer = [k.timer EXCEPT ![t] = TRUE]]
<1> DEFINE r == StartTimer(k, t)
<1>1. KernelType(k) /\ TimersExact(k)
  BY DEF KernelInv
<1>2. r = [k EXCEPT !.timer = [k.timer EXCEPT ![t] = TRUE]]
  BY DEF StartTimer
<1> HIDE DEF r
<1>3. /\ r.timer = [k.timer EXCEPT ![t] = TRUE]
      /\ r.ready = k.ready /\ r.wait = k.wait /\ r.table = k.table /\ r.group = k.group
      /\ r.stat = k.stat /\ r.prio = k.prio
      /\ KernelType(r)
  BY <1>1, <1>2 DEF KernelType
<1>4. \A u \in Thread : r.timer[u] => r.stat[u] = "suspend"
  BY <1>1, <1>3 DEF KernelType, TimersExact
<1>. QED BY <1>2, <1>3, <1>4, SameLists DEF r

\* thread->error = e
LEMMA ErrorKeeps ==
  ASSUME NEW k, NEW L, KernelInv(k, L), NEW t \in Thread, NEW e \in Error
  PROVE  /\ KernelInv([k EXCEPT !.err[t] = e], L)
         /\ [k EXCEPT !.err[t] = e] = [k EXCEPT !.err = [k.err EXCEPT ![t] = e]]
<1> DEFINE r == [k EXCEPT !.err[t] = e]
<1>1. KernelType(k) /\ TimersExact(k)
  BY DEF KernelInv
<1>2. r = [k EXCEPT !.err = [k.err EXCEPT ![t] = e]]
  OBVIOUS
<1> HIDE DEF r
<1>3. /\ r.ready = k.ready /\ r.wait = k.wait /\ r.table = k.table /\ r.group = k.group
      /\ r.stat = k.stat /\ r.prio = k.prio /\ r.timer = k.timer
      /\ KernelType(r)
  BY <1>1, <1>2 DEF KernelType
<1>4. \A u \in Thread : r.timer[u] => r.stat[u] = "suspend"
  BY <1>1, <1>3 DEF TimersExact
<1>. QED BY <1>2, <1>3, <1>4, SameLists DEF r

\* What a wake-up leaves behind: t is ready, its timer is off, it waits nowhere
Woken(k, r, t) ==
  /\ r.stat = [k.stat EXCEPT ![t] = "ready"]
  /\ r.timer = [k.timer EXCEPT ![t] = FALSE]
  /\ r.wait = [w \in WaitList |-> RemoveFirst(k.wait[w], t)]
  /\ \A w \in WaitList : \A u : Contains(r.wait[w], u) <=> Contains(k.wait[w], u) /\ u # t
  /\ r.prio = k.prio /\ r.cur = k.cur /\ r.err = k.err /\ r.lock = k.lock

\* rt_thread_resume of a suspended thread
LEMMA ResumeKeeps ==
  ASSUME NEW k, NEW L, KernelInv(k, L), NEW t \in Thread \ L, k.stat[t] = "suspend"
  PROVE  KernelInv(Resume(k, t), L) /\ Woken(k, Resume(k, t), t)
<1> DEFINE l == ListRemove(k, t)
           s == StopTimer(l, t)
           r == InsertReady(s, t)
<1>1. r = Resume(k, t)
  BY DEF Resume
<1>2. KernelType(k) /\ t # Idle
  BY DEF KernelInv
<1>3. Removed(k, l, t)
  BY <1>2, ListRemoveLists
<1>4. KernelInv(l, L \cup {t})
  BY <1>2, ListRemoveKeeps
<1> HIDE DEF l
<1>5. KernelInv(s, L \cup {t}) /\ s = [l EXCEPT !.timer = [l.timer EXCEPT ![t] = FALSE]]
  BY <1>4, StopTimerKeeps
<1> HIDE DEF s
<1>6. ~s.timer[t] /\ s.stat = k.stat /\ s.timer = [k.timer EXCEPT ![t] = FALSE]
      /\ s.prio = k.prio /\ s.cur = k.cur /\ s.err = k.err /\ s.lock = k.lock /\ s.wait = l.wait
  BY <1>2, <1>3, <1>4, <1>5 DEF KernelInv, KernelType, Removed
<1>7. KernelInv(r, (L \cup {t}) \ {t})
  BY <1>5, <1>6, InsertReadyKeeps
<1>8. (L \cup {t}) \ {t} = L
  OBVIOUS
<1>9. /\ r.stat = [s.stat EXCEPT ![t] = "ready"] /\ r.timer = s.timer /\ r.wait = s.wait
      /\ r.prio = s.prio /\ r.cur = s.cur /\ r.err = s.err /\ r.lock = s.lock
  BY <1>5 DEF InsertReady, KernelInv, KernelType
<1> HIDE DEF r
<1>10. Woken(k, r, t)
  BY <1>3, <1>6, <1>9 DEF Woken, Removed
<1>. QED BY <1>1, <1>7, <1>8, <1>10

\* rt_thread_timeout of a thread whose timer runs
LEMMA TimeoutKeeps ==
  ASSUME NEW k, NEW L, KernelInv(k, L), NEW t \in Thread \ L, k.timer[t]
  PROVE  /\ KernelInv(Timeout(k, t), L)
         /\ Woken([k EXCEPT !.err[t] = "ETIMEOUT"], Timeout(k, t), t)
         /\ Timeout(k, t).err = [k.err EXCEPT ![t] = "ETIMEOUT"]
<1> DEFINE e == [k EXCEPT !.err[t] = "ETIMEOUT"]
           s == StopTimer(e, t)
           l == ListRemove(s, t)
           r == InsertReady(l, t)
<1>1. r = Timeout(k, t)
  BY DEF Timeout, StopTimer
<1>2. KernelType(k) /\ t # Idle /\ k.stat[t] = "suspend"
  BY DEF KernelInv, TimersExact
<1>3. KernelInv(e, L) /\ e = [k EXCEPT !.err = [k.err EXCEPT ![t] = "ETIMEOUT"]]
  BY ErrorKeeps DEF Error
<1>4. e.stat = k.stat /\ e.err = [k.err EXCEPT ![t] = "ETIMEOUT"] /\ KernelType(e)
  BY <1>2, <1>3 DEF KernelInv, KernelType
<1> HIDE DEF e
<1>5. KernelInv(s, L) /\ s = [e EXCEPT !.timer = [e.timer EXCEPT ![t] = FALSE]]
  BY <1>3, StopTimerKeeps
<1>6. s.stat = k.stat /\ s.timer = [e.timer EXCEPT ![t] = FALSE]
      /\ s.prio = e.prio /\ s.cur = e.cur /\ s.err = e.err /\ s.lock = e.lock /\ s.wait = e.wait
  BY <1>4, <1>5 DEF KernelType
<1> HIDE DEF s
<1>7. Removed(s, l, t)
  BY <1>2, <1>5, ListRemoveLists
<1>8. KernelInv(l, L \cup {t})
  BY <1>2, <1>5, <1>6, ListRemoveKeeps
<1> HIDE DEF l
<1>9. ~l.timer[t]
  BY <1>4, <1>6, <1>7 DEF Removed, KernelType
<1>10. KernelInv(r, (L \cup {t}) \ {t})
  BY <1>8, <1>9, InsertReadyKeeps
<1>11. (L \cup {t}) \ {t} = L
  OBVIOUS
<1>12. /\ r.stat = [l.stat EXCEPT ![t] = "ready"] /\ r.timer = l.timer /\ r.wait = l.wait
       /\ r.prio = l.prio /\ r.cur = l.cur /\ r.err = l.err /\ r.lock = l.lock
  BY <1>8 DEF InsertReady, KernelInv, KernelType
<1> HIDE DEF r
<1>13. Woken(e, r, t) /\ r.err = e.err
  BY <1>4, <1>6, <1>7, <1>12 DEF Woken, Removed
<1>. QED BY <1>1, <1>4, <1>10, <1>11, <1>13 DEF e

\* The list part of rt_thread_yield
LEMMA RotateKeeps ==
  ASSUME NEW k, NEW L, KernelInv(k, L), k.cur \notin L
  PROVE  /\ KernelInv(Rotate(k), L)
         /\ Rotate(k) = [k EXCEPT !.ready = Rotate(k).ready]
<1> DEFINE t == k.cur
           p == k.prio[t]
           q == Append(RemoveFirst(k.ready[p], t), t)
           r == [k EXCEPT !.ready = [k.ready EXCEPT ![p] = q]]
<1>1. CASE ~(k.stat[t] = "ready" /\ Len(k.ready[p]) > 1)
  <2>1. Rotate(k) = k
    BY <1>1 DEF Rotate
  <2>. QED BY <2>1 DEF KernelInv, KernelType
<1>2. CASE k.stat[t] = "ready" /\ Len(k.ready[p]) > 1
  <2>1. Rotate(k) = r
    BY <1>2 DEF Rotate
  <2>2. /\ KernelType(k) /\ t \in Thread /\ p \in Prio
        /\ k.ready[p] \in Seq(Thread) /\ Distinct(k.ready[p])
    BY DEF KernelInv, KernelType, ReadyListsExact
  <2>3. k.ready[p] # <<>>
    BY <1>2, SMTT(60)
  <2>4. /\ q \in Seq(Thread) /\ q # <<>> /\ Distinct(q)
        /\ \A u : Contains(q, u) <=> Contains(k.ready[p], u) \/ u = t
    <3> DEFINE s == RemoveFirst(k.ready[p], t)
    <3>1. /\ s \in Seq(Thread) /\ Distinct(s)
          /\ \A u : Contains(s, u) <=> Contains(k.ready[p], u) /\ u # t
      BY <2>2, RemoveFirstList
    <3> HIDE DEF s
    <3>2. /\ Append(s, t) \in Seq(Thread) /\ Append(s, t) # <<>> /\ Distinct(Append(s, t))
          /\ \A u : Contains(Append(s, t), u) <=> Contains(s, u) \/ u = t
      BY <3>1, <2>2, AppendList
    <3>. QED BY <3>1, <3>2 DEF s
  <2> HIDE DEF q
  <2>5. /\ r.ready = [k.ready EXCEPT ![p] = q] /\ KernelType(r)
        /\ r.wait = k.wait /\ r.table = k.table /\ r.group = k.group
        /\ r.stat = k.stat /\ r.prio = k.prio /\ r.timer = k.timer
    BY <2>2, <2>4 DEF KernelType
  <2>6. /\ r.ready[p] = q
        /\ \A x \in Prio \ {p} : r.ready[x] = k.ready[x]
    BY <2>2, <2>5 DEF KernelType
  <2> HIDE DEF r
  <2>7. \A x \in Prio : r.ready[x] # <<>> <=> k.ready[x] # <<>>
    BY <2>3, <2>4, <2>6
  <2>8. Contains(k.ready[p], t)
    BY <1>2, <2>2 DEF KernelInv, ReadyListsExact
  <2>9. \A x \in Prio : /\ Distinct(r.ready[x])
                        /\ \A u : Contains(r.ready[x], u) <=> Contains(k.ready[x], u)
    BY <2>4, <2>6, <2>8 DEF KernelInv, ReadyListsExact
  <2>10. ReadyListsExact(r, L)
    BY <2>5, <2>9 DEF KernelInv, ReadyListsExact
  <2>11. WaitListsExact(r, L) /\ TimersExact(r)
    BY <2>5 DEF KernelInv, WaitListsExact, TimersExact
  <2>12. BitmapExact(r)
    BY <2>5, <2>7 DEF KernelInv, BitmapExact
  <2>. QED BY <2>1, <2>5, <2>10, <2>11, <2>12 DEF KernelInv, r
<1>. QED BY <1>1, <1>2

\* What a change of priority leaves as it was: all but the ready lists, the bitmap and t's
\* priority.  (The order in a suspend list is not re-established: see thread.c:617.)
Reprioritised(k, r, t, p) ==
  /\ r.prio = [k.prio EXCEPT ![t] = p]
  /\ r.stat = k.stat /\ r.timer = k.timer /\ r.cur = k.cur /\ r.err = k.err /\ r.lock = k.lock
  /\ r.wait = k.wait

\* rt_list_remove of a thread that waits nowhere changes no suspend list
LEMMA RemoveFromNone ==
  ASSUME NEW k, KernelType(k), NEW t, \A w \in WaitList : ~Contains(k.wait[w], t)
  PROVE  [w \in WaitList |-> RemoveFirst(k.wait[w], t)] = k.wait
<1>1. k.wait \in [WaitList -> Seq(Thread)]
  BY DEF KernelType
<1>2. \A w \in WaitList : RemoveFirst(k.wait[w], t) = k.wait[w]
  BY <1>1, RemoveFirstList
<1>. QED BY <1>1, <1>2

\* A thread that is on no ready list may be given any priority
LEMMA PriorityKeeps ==
  ASSUME NEW k, NEW L, KernelInv(k, L), NEW t \in Thread, NEW p \in Prio,
         k.stat[t] # "ready" \/ t \in L
  PROVE  /\ KernelInv([k EXCEPT !.prio[t] = p], L)
         /\ [k EXCEPT !.prio[t] = p] = [k EXCEPT !.prio = [k.prio EXCEPT ![t] = p]]
<1> DEFINE r == [k EXCEPT !.prio[t] = p]
<1>1. KernelType(k)
  BY DEF KernelInv
<1>2. r = [k EXCEPT !.prio = [k.prio EXCEPT ![t] = p]]
  OBVIOUS
<1> HIDE DEF r
<1>3. /\ r.ready = k.ready /\ r.wait = k.wait /\ r.table = k.table /\ r.group = k.group
      /\ r.stat = k.stat /\ r.timer = k.timer /\ r.prio = [k.prio EXCEPT ![t] = p]
      /\ KernelType(r)
  BY <1>1, <1>2 DEF KernelType
<1>4. \A u \in Thread \ {t} : r.prio[u] = k.prio[u]
  BY <1>1, <1>3 DEF KernelType
<1>5. ReadyListsExact(r, L)
  BY <1>3, <1>4 DEF KernelInv, ReadyListsExact
<1>6. WaitListsExact(r, L) /\ BitmapExact(r) /\ TimersExact(r)
  BY <1>3 DEF KernelInv, WaitListsExact, BitmapExact, TimersExact
<1>. QED BY <1>2, <1>3, <1>5, <1>6 DEF KernelInv, r

\* rt_thread_control(RT_THREAD_CTRL_CHANGE_PRIORITY) moves a ready thread to its new list,
\* by way of rt_schedule_remove_thread and rt_schedule_insert_thread
LEMMA ChangePriorityKeeps ==
  ASSUME NEW k, NEW L, KernelInv(k, L), NEW t \in Thread \ L, t # Idle, NEW p \in Prio
  PROVE  /\ KernelInv(ChangePriority(k, t, p), L)
         /\ Reprioritised(k, ChangePriority(k, t, p), t, p)
<1>1. KernelType(k)
  BY DEF KernelInv
<1>2. CASE k.stat[t] # "ready"
  <2> DEFINE c == [k EXCEPT !.prio[t] = p]
  <2>1. ChangePriority(k, t, p) = c
    BY <1>2 DEF ChangePriority
  <2>2. KernelInv(c, L) /\ c = [k EXCEPT !.prio = [k.prio EXCEPT ![t] = p]]
    BY <1>2, PriorityKeeps
  <2> HIDE DEF c
  <2>3. Reprioritised(k, c, t, p)
    BY <1>1, <2>2 DEF KernelType, Reprioritised
  <2>. QED BY <2>1, <2>2, <2>3
<1>3. CASE k.stat[t] = "ready"
  <2> DEFINE l == ListRemove(k, t)
             x == RemoveReady(k, t)
             c == [x EXCEPT !.prio[t] = p]
             r == InsertReady(c, t)
  <2>1. ChangePriority(k, t, p) = r
    BY <1>3 DEF ChangePriority
  <2>2. Removed(k, l, t)
    BY ListRemoveLists
  <2>3. x.wait = l.wait /\ x.stat = l.stat /\ x.prio = l.prio /\ x.timer = l.timer
        /\ x.cur = l.cur /\ x.err = l.err /\ x.lock = l.lock
    BY DEF RemoveReady
  <2>4. KernelInv(x, L \cup {t})
    BY RemoveReadyKeeps
  <2> HIDE DEF l, x
  <2>5. KernelInv(c, L \cup {t}) /\ c = [x EXCEPT !.prio = [x.prio EXCEPT ![t] = p]]
    BY <2>4, PriorityKeeps
  <2> HIDE DEF c
  <2>6. /\ c.stat = k.stat /\ c.timer = k.timer /\ c.prio = [k.prio EXCEPT ![t] = p]
        /\ c.wait = l.wait /\ c.cur = k.cur /\ c.err = k.err /\ c.lock = k.lock
    BY <2>2, <2>3, <2>4, <2>5 DEF KernelInv, KernelType, Removed
  <2>7. ~k.timer[t]
    BY <1>3 DEF KernelInv, TimersExact
  <2>8. KernelInv(r, (L \cup {t}) \ {t})
    BY <2>5, <2>6, <2>7, InsertReadyKeeps
  <2>9. (L \cup {t}) \ {t} = L
    OBVIOUS
  <2>10. /\ r.stat = [c.stat EXCEPT ![t] = "ready"] /\ r.timer = c.timer /\ r.wait = c.wait
         /\ r.prio = c.prio /\ r.cur = c.cur /\ r.err = c.err /\ r.lock = c.lock
    BY <2>5 DEF InsertReady, KernelInv, KernelType
  <2> HIDE DEF r
  <2>11. [k.stat EXCEPT ![t] = "ready"] = k.stat
    BY <1>1, <1>3 DEF KernelType
  <2>12. \A w \in WaitList : ~Contains(k.wait[w], t)
    BY <1>3 DEF KernelInv, WaitListsExact
  <2>13. l.wait = k.wait
    BY <1>1, <2>2, <2>12, RemoveFromNone, ZenonT(60) DEF Removed
  <2>14. Reprioritised(k, r, t, p)
    BY <2>6, <2>10, <2>11, <2>13 DEF Reprioritised
  <2>. QED BY <2>1, <2>8, <2>9, <2>14
<1>. QED BY <1>2, <1>3

\* s is k with the ready thread t suspended, on no list and its timer off
Suspended(k, s, t) ==
  /\ s.stat = [k.stat EXCEPT ![t] = "suspend"]
  /\ s.timer = [k.timer EXCEPT ![t] = FALSE]
  /\ s.wait = k.wait
  /\ \A w \in WaitList : ~Contains(s.wait[w], t)
  /\ s.prio = k.prio /\ s.cur = k.cur /\ s.err = k.err /\ s.lock = k.lock

\* rt_thread_suspend of a ready thread
LEMMA SuspendKeeps ==
  ASSUME NEW k, NEW L, KernelInv(k, L), NEW t \in Thread \ L, t # Idle, k.stat[t] = "ready"
  PROVE  KernelInv(Suspend(k, t), L) /\ Suspended(k, Suspend(k, t), t)
<1> DEFINE l == ListRemove(k, t)
           r == RemoveReady(k, t)
           x == [r EXCEPT !.stat = [k.stat EXCEPT ![t] = "suspend"]]
           s == [x EXCEPT !.timer = [k.timer EXCEPT ![t] = FALSE]]
<1>1. KernelType(k)
  BY DEF KernelInv
<1>2. \A w \in WaitList : ~Contains(k.wait[w], t)
  BY DEF KernelInv, WaitListsExact
<1>3. Removed(k, l, t)
  BY ListRemoveLists
<1>4. /\ r.stat = l.stat /\ r.prio = l.prio /\ r.timer = l.timer /\ r.cur = l.cur
      /\ r.err = l.err /\ r.lock = l.lock /\ r.wait = l.wait
  BY DEF RemoveReady, ListRemove
<1>5. KernelInv(r, L \cup {t}) /\ KernelType(r)
  BY RemoveReadyKeeps DEF KernelInv
<1>6. Suspend(k, t) = s
  <2>1. RemoveReady([k EXCEPT !.stat[t] = "suspend"], t) = x
    BY <1>1, ZenonT(60) DEF RemoveReady, ListRemove, KernelType
  <2>2. x.timer = k.timer
    BY <1>3, <1>4 DEF Removed
  <2> HIDE DEF x
  <2>. QED BY <2>1, <2>2 DEF Suspend, StopTimer
<1> HIDE DEF l, r
<1>7. /\ s.stat = [k.stat EXCEPT ![t] = "suspend"] /\ s.timer = [k.timer EXCEPT ![t] = FALSE]
      /\ s.ready = r.ready /\ s.wait = r.wait /\ s.table = r.table /\ s.group = r.group
      /\ s.prio = r.prio /\ s.cur = r.cur /\ s.err = r.err /\ s.lock = r.lock
      /\ KernelType(s)
  BY <1>1, <1>5 DEF KernelType, Stat
<1> HIDE DEF s
<1>8. Suspended(k, s, t)
  <2>1. s.wait = k.wait
    BY <1>1, <1>2, <1>3, <1>4, <1>7, RemoveFromNone, SMTT(60) DEF Removed
  <2>. QED BY <1>2, <1>3, <1>4, <1>7, <2>1 DEF Suspended, Removed
<1>9. s.stat[t] = "suspend" /\ \A u \in Thread \ {t} : s.stat[u] = k.stat[u]
  BY <1>1, <1>7 DEF KernelType
<1>10. ReadyListsExact(s, L) /\ WaitListsExact(s, L)
  <2>1. ReadyListsExact(r, L \cup {t}) /\ WaitListsExact(r, L \cup {t}) /\ r.stat = k.stat
    BY <1>3, <1>4, <1>5 DEF KernelInv, Removed
  <2>2. ReadyListsExact(s, L)
    BY <2>1, <1>7, <1>9 DEF ReadyListsExact
  <2>3. WaitListsExact(s, L)
    BY <2>1, <1>7, <1>9 DEF WaitListsExact
  <2>. QED BY <2>2, <2>3
<1>11. BitmapExact(s)
  BY <1>5, <1>7 DEF KernelInv, BitmapExact
<1>12. TimersExact(s)
  BY <1>1, <1>7, <1>9 DEF KernelInv, TimersExact, KernelType
<1>. QED BY <1>6, <1>7, <1>8, <1>9, <1>10, <1>11, <1>12, KernelAssumption DEF KernelInv

\* The place rt_ipc_list_suspend chooses is in the list or at its end
LEMMA InsertPosRange ==
  ASSUME NEW k, KernelType(k), NEW s \in Seq(Thread), NEW t \in Thread, NEW flag
  PROVE  InsertPos(k, s, t, flag) \in 1..(Len(s) + 1)
<1> DEFINE later == {i \in 1..Len(s) : k.prio[t] < k.prio[s[i]]}
<1>1. Len(s) \in Nat
  BY LenProperties
<1>2. CASE flag = "PRIO" /\ later # {}
  <2>1. later \in SUBSET Nat
    BY <1>1
  <2>2. Min(later) \in later
    BY <1>2, <2>1, MinNat
  <2>. QED BY <1>1, <1>2, <2>2 DEF InsertPos
<1>3. CASE ~(flag = "PRIO" /\ later # {})
  BY <1>1, <1>3 DEF InsertPos
<1>. QED BY <1>2, <1>3

\* Priorities are numbers
LEMMA PrioNat ==
  ASSUME NEW k, KernelType(k)
  PROVE  k.prio \in [Thread -> Nat]
<1>1. k.prio \in [Thread -> Prio] /\ Prio \subseteq Nat
  BY KernelAssumption DEF KernelType
<1>. QED BY <1>1

\* Nobody in s is behind a less urgent thread; prio gives the priorities
Ordered(prio, s) == \A i, j \in 1..Len(s) : i < j => prio[s[i]] <= prio[s[j]]

\* rt_ipc_list_suspend on a PRIO list: in front of the place are the threads at least as
\* urgent as t, from the place on the less urgent ones
LEMMA InsertPosPrio ==
  ASSUME NEW k, KernelType(k), NEW s \in Seq(Thread), NEW t \in Thread, Ordered(k.prio, s)
  PROVE  LET n == InsertPos(k, s, t, "PRIO")
         IN  /\ n \in 1..(Len(s) + 1)
             /\ \A i \in 1..Len(s) : i < n => k.prio[s[i]] <= k.prio[t]
             /\ \A i \in 1..Len(s) : n <= i => k.prio[t] < k.prio[s[i]]
<1> DEFINE later == {i \in 1..Len(s) : k.prio[t] < k.prio[s[i]]}
           n == InsertPos(k, s, t, "PRIO")
<1>1. Len(s) \in Nat /\ \A i \in 1..Len(s) : s[i] \in Thread
  BY LenProperties, ElementOfSeq
<1>2. k.prio \in [Thread -> Nat]
  BY PrioNat
<1>3. n \in 1..(Len(s) + 1)
  BY InsertPosRange
<1>4. n = IF later # {} THEN Min(later) ELSE Len(s) + 1
  BY DEF InsertPos
<1> HIDE DEF n
<1>5. CASE later # {}
  <2>1. later \in SUBSET Nat
    BY <1>1
  <2>2. n \in later /\ \A i \in later : n <= i
    BY <1>4, <1>5, <2>1, MinNat
  <2>3. \A i \in 1..Len(s) : n <= i => k.prio[s[n]] <= k.prio[s[i]]
    BY <2>2, <1>1, <1>2 DEF Ordered
  <2>4. \A i \in 1..Len(s) : n <= i => k.prio[t] < k.prio[s[i]]
    BY <2>2, <2>3, <1>1, <1>2
  <2>5. \A i \in 1..Len(s) : i < n => k.prio[s[i]] <= k.prio[t]
    BY <2>2, <1>1, <1>2
  <2>. QED BY <1>3, <2>4, <2>5 DEF n
<1>6. CASE later = {}
  <2>1. n = Len(s) + 1
    BY <1>4, <1>6
  <2>2. \A i \in 1..Len(s) : k.prio[s[i]] <= k.prio[t]
    BY <1>1, <1>2, <1>6
  <2>. QED BY <1>1, <1>3, <2>1, <2>2 DEF n
<1>. QED BY <1>5, <1>6

\* ... which keeps the list in the order of the priorities
LEMMA InsertOrdered ==
  ASSUME NEW k, KernelType(k), NEW s \in Seq(Thread), NEW t \in Thread, Ordered(k.prio, s)
  PROVE  Ordered(k.prio, InsertAt(s, InsertPos(k, s, t, "PRIO"), t))
<1> DEFINE n == InsertPos(k, s, t, "PRIO")
           r == InsertAt(s, n, t)
<1>1. Len(s) \in Nat /\ \A i \in 1..Len(s) : s[i] \in Thread
  BY LenProperties, ElementOfSeq
<1>2. k.prio \in [Thread -> Nat]
  BY PrioNat
<1>3. /\ n \in 1..(Len(s) + 1)
      /\ \A i \in 1..Len(s) : i < n => k.prio[s[i]] <= k.prio[t]
      /\ \A i \in 1..Len(s) : n <= i => k.prio[t] < k.prio[s[i]]
  BY InsertPosPrio
<1> HIDE DEF n
<1>4. /\ Len(r) = Len(s) + 1
      /\ \A i \in 1..(n - 1) : r[i] = s[i]
      /\ r[n] = t
      /\ \A i \in (n + 1)..(Len(s) + 1) : r[i] = s[i - 1]
  <2>1. Inserted(Thread, r, s, n, t)
    BY <1>3, InsertAtItems
  <2> HIDE DEF r
  <2>. QED BY <2>1 DEF Inserted
<1> HIDE DEF r
<1> SUFFICES ASSUME NEW i \in 1..Len(r), NEW j \in 1..Len(r), i < j
             PROVE  k.prio[r[i]] <= k.prio[r[j]]
  BY DEF Ordered, r, n
<1>5. CASE j < n
  <2>1. r[i] = s[i] /\ r[j] = s[j] /\ i \in 1..Len(s) /\ j \in 1..Len(s)
    BY <1>1, <1>3, <1>4, <1>5
  <2>. QED BY <2>1 DEF Ordered
<1>6. CASE j = n
  <2>1. r[i] = s[i] /\ r[j] = t /\ i \in 1..Len(s) /\ i < n
    BY <1>1, <1>3, <1>4, <1>6
  <2>. QED BY <2>1, <1>3
<1>7. CASE i < n /\ j > n
  <2>1. r[i] = s[i] /\ r[j] = s[j - 1] /\ i \in 1..Len(s) /\ j - 1 \in 1..Len(s) /\ i < j - 1
    BY <1>1, <1>3, <1>4, <1>7
  <2>. QED BY <2>1 DEF Ordered
<1>8. CASE i = n /\ j > n
  <2>1. r[i] = t /\ r[j] = s[j - 1] /\ j - 1 \in 1..Len(s) /\ n <= j - 1
    BY <1>1, <1>3, <1>4, <1>8
  <2>2. k.prio[t] < k.prio[s[j - 1]]
    BY <2>1, <1>3
  <2>. QED BY <2>1, <2>2, <1>1, <1>2
<1>9. CASE i > n
  <2>1. r[i] = s[i - 1] /\ r[j] = s[j - 1] /\ i - 1 \in 1..Len(s) /\ j - 1 \in 1..Len(s)
        /\ i - 1 < j - 1
    BY <1>1, <1>3, <1>4, <1>9
  <2>. QED BY <2>1 DEF Ordered
<1>. QED BY <1>3, <1>5, <1>6, <1>7, <1>8, <1>9

\* rt_list_remove keeps the order, too
LEMMA RemoveOrdered ==
  ASSUME NEW prio, NEW s \in Seq(Thread), NEW t, Ordered(prio, s)
  PROVE  Ordered(prio, RemoveFirst(s, t))
<1> DEFINE r == RemoveFirst(s, t)
<1>1. CASE ~Contains(s, t)
  BY <1>1, RemoveFirstList
<1>2. CASE Contains(s, t)
  <2>1. Len(s) \in Nat
    BY LenProperties
  <2> HIDE DEF r
  <2>2. PICK n \in 1..Len(s) :
          /\ s[n] = t
          /\ r \in Seq(Thread)
          /\ Len(r) = Len(s) - 1
          /\ \A i \in 1..(n - 1) : r[i] = s[i]
          /\ \A i \in n..(Len(s) - 1) : r[i] = s[i + 1]
    BY <1>2, RemoveFirstItems DEF r
  <2> SUFFICES ASSUME NEW i \in 1..Len(r), NEW j \in 1..Len(r), i < j
               PROVE  prio[r[i]] <= prio[r[j]]
    BY DEF Ordered, r
  <2> DEFINE at(x) == IF x < n THEN x ELSE x + 1
  <2>3. ASSUME NEW x \in 1..Len(r) PROVE r[x] = s[at(x)] /\ at(x) \in 1..Len(s)
    BY <2>1, <2>2
  <2>4. at(i) < at(j)
    BY <2>1, <2>2
  <2>5. r[i] = s[at(i)] /\ r[j] = s[at(j)] /\ at(i) \in 1..Len(s) /\ at(j) \in 1..Len(s)
    BY <2>3
  <2> HIDE DEF at
  <2>. QED BY <2>4, <2>5 DEF Ordered
<1>. QED BY <1>1, <1>2

\* The first of an ordered list is the most urgent
LEMMA HeadOrdered ==
  ASSUME NEW k, KernelType(k), NEW s \in Seq(Thread), s # <<>>, Ordered(k.prio, s)
  PROVE  \A u : Contains(s, u) => k.prio[Head(s)] <= k.prio[u]
<1>1. Len(s) \in Nat /\ Len(s) # 0 /\ Head(s) = s[1] /\ \A i \in 1..Len(s) : s[i] \in Thread
  BY HeadTailProperties, EmptySeq, LenProperties, ElementOfSeq
<1>2. k.prio \in [Thread -> Nat]
  BY PrioNat
<1> SUFFICES ASSUME NEW i \in 1..Len(s) PROVE k.prio[s[1]] <= k.prio[s[i]]
  BY <1>1 DEF Contains
<1>3. CASE i = 1
  BY <1>1, <1>2, <1>3
<1>4. CASE i # 1
  BY <1>1, <1>4 DEF Ordered
<1>. QED BY <1>3, <1>4

\* A change of priority of a thread that is not in the list does not disturb its order
LEMMA SameOrder ==
  ASSUME NEW f, NEW g, NEW s, Ordered(f, s), \A u : Contains(s, u) => g[u] = f[u]
  PROVE  Ordered(g, s)
BY DEF Ordered, Contains

\* r is k with the ready thread t suspended on list w
Waiting(k, r, w, t, flag) ==
  /\ r.stat = [k.stat EXCEPT ![t] = "suspend"]
  /\ r.timer = [k.timer EXCEPT ![t] = FALSE]
  /\ r.wait = [k.wait EXCEPT ![w] = InsertAt(@, InsertPos(k, @, t, flag), t)]
  /\ \A u : Contains(r.wait[w], u) <=> Contains(k.wait[w], u) \/ u = t
  /\ r.wait[w] # <<>>
  /\ r.prio = k.prio /\ r.cur = k.cur /\ r.err = k.err /\ r.lock = k.lock

\* rt_ipc_list_suspend
LEMMA ListSuspendKeeps ==
  ASSUME NEW k, NEW L, KernelInv(k, L), NEW t \in Thread \ L, t # Idle, k.stat[t] = "ready",
         NEW w \in WaitList, NEW flag
  PROVE  /\ KernelInv(ListSuspend(k, w, t, flag), L)
         /\ Waiting(k, ListSuspend(k, w, t, flag), w, t, flag)
<1> DEFINE s == Suspend(k, t)
           q == InsertAt(s.wait[w], InsertPos(s, s.wait[w], t, flag), t)
           r == [s EXCEPT !.wait = [s.wait EXCEPT ![w] = q]]
<1>1. KernelInv(s, L) /\ Suspended(k, s, t)
  BY SuspendKeeps
<1>2. ListSuspend(k, w, t, flag) = [s EXCEPT !.wait[w] = InsertAt(@, InsertPos(k, @, t, flag), t)]
  BY DEF ListSuspend
<1> HIDE DEF s
<1>3. InsertPos(k, s.wait[w], t, flag) = InsertPos(s, s.wait[w], t, flag)
  BY <1>1 DEF InsertPos, Suspended
<1>4. ListSuspend(k, w, t, flag) = r
  BY <1>2, <1>3
<1>5. KernelType(k) /\ KernelType(s) /\ s.wait[w] \in Seq(Thread) /\ Distinct(s.wait[w])
      /\ ~Contains(s.wait[w], t)
  BY <1>1 DEF KernelInv, KernelType, WaitListsExact, Suspended
<1>6. /\ q \in Seq(Thread) /\ q # <<>> /\ Distinct(q)
      /\ \A u : Contains(q, u) <=> Contains(s.wait[w], u) \/ u = t
  <2>1. PICK z : z = s.wait[w]
    OBVIOUS
  <2>2. PICK n : n = InsertPos(s, z, t, flag)
    OBVIOUS
  <2>3. z \in Seq(Thread) /\ Distinct(z) /\ ~Contains(z, t) /\ n \in 1..(Len(z) + 1)
    BY <2>1, <2>2, <1>5, InsertPosRange
  <2>4. /\ InsertAt(z, n, t) \in Seq(Thread)
        /\ InsertAt(z, n, t) # <<>>
        /\ \A u : Contains(InsertAt(z, n, t), u) <=> Contains(z, u) \/ u = t
        /\ Distinct(InsertAt(z, n, t))
    BY <2>3, InsertAtList
  <2>. QED BY <2>1, <2>2, <2>4
<1> HIDE DEF q
<1>7. /\ r.wait = [s.wait EXCEPT ![w] = q] /\ KernelType(r)
      /\ r.ready = s.ready /\ r.table = s.table /\ r.group = s.group /\ r.stat = s.stat
      /\ r.prio = s.prio /\ r.timer = s.timer /\ r.cur = s.cur /\ r.err = s.err
      /\ r.lock = s.lock
  BY <1>5, <1>6 DEF KernelType
<1> HIDE DEF r
<1>8. r.wait[w] = q /\ \A v \in WaitList \ {w} : r.wait[v] = s.wait[v]
  BY <1>5, <1>7 DEF KernelType
<1>9. Waiting(k, r, w, t, flag)
  <2>1. r.wait = [k.wait EXCEPT ![w] = InsertAt(@, InsertPos(k, @, t, flag), t)]
    BY <1>1, <1>3, <1>7 DEF Suspended, q
  <2>. QED BY <1>1, <1>6, <1>7, <1>8, <2>1 DEF Waiting, Suspended
<1>10. WaitListsExact(r, L)
  <2>1. WaitListsExact(s, L) /\ r.stat = s.stat
    BY <1>1, <1>7 DEF KernelInv
  <2>2. /\ s.stat[t] = "suspend" /\ t \notin L
        /\ \A v \in WaitList : ~Contains(s.wait[v], t)
    BY <1>1, <1>5 DEF Suspended, KernelType
  <2> SUFFICES ASSUME NEW v \in WaitList
               PROVE  /\ Distinct(r.wait[v])
                      /\ \A u \in Thread : Contains(r.wait[v], u) =>
                           /\ r.stat[u] \in {"suspend", "close"}
                           /\ u \notin L
                           /\ \A z \in WaitList \ {v} : ~Contains(r.wait[z], u)
    BY DEF WaitListsExact
  <2>3. Distinct(r.wait[v])
    BY <2>1, <1>6, <1>8 DEF WaitListsExact
  <2>4. ASSUME NEW u \in Thread, Contains(r.wait[v], u), u # t
        PROVE  /\ r.stat[u] \in {"suspend", "close"}
               /\ u \notin L
               /\ \A z \in WaitList \ {v} : ~Contains(r.wait[z], u)
    <3>1. \A z \in WaitList : Contains(r.wait[z], u) <=> Contains(s.wait[z], u)
      BY <2>4, <1>6, <1>8
    <3>. QED BY <3>1, <2>1, <2>4 DEF WaitListsExact
  <2>5. ASSUME Contains(r.wait[v], t)
        PROVE  /\ r.stat[t] \in {"suspend", "close"}
               /\ t \notin L
               /\ \A z \in WaitList \ {v} : ~Contains(r.wait[z], t)
    <3>1. v = w
      BY <2>2, <2>5, <1>8
    <3>. QED BY <3>1, <2>1, <2>2, <1>8
  <2>. QED BY <2>3, <2>4, <2>5
<1>11. ReadyListsExact(r, L) /\ BitmapExact(r) /\ TimersExact(r)
  BY <1>1, <1>7 DEF KernelInv, ReadyListsExact, BitmapExact, TimersExact
<1>. QED BY <1>1, <1>4, <1>7, <1>9, <1>10, <1>11 DEF KernelInv

-----------------------------------------------------------------------------
\* rt_system_scheduler_start begins with consistent lists
LEMMA BootKeeps ==
  /\ KernelInv(BootKernel, {})
  /\ BootKernel.lock = 0
  /\ BootKernel.stat[BootKernel.cur] = "ready"
  /\ RunsHighest(BootKernel)
  /\ BootKernel.err = [t \in Thread |-> "EOK"]
  /\ BootKernel.prio = InitPrio
  /\ BootKernel.timer = [t \in Thread |-> FALSE]
  /\ BootKernel.stat = [t \in Thread |-> IF Booted(t) THEN "ready" ELSE "init"]
  /\ BootKernel.wait = [w \in WaitList |-> <<>>]
<1> DEFINE b == [cur   |-> Idle,
                 stat  |-> [t \in Thread |-> IF Booted(t) THEN "ready" ELSE "init"],
                 prio  |-> InitPrio,
                 ready |-> Boot,
                 table |-> BootTable,
                 group |-> {Row(p) : p \in BootTable},
                 wait  |-> [w \in WaitList |-> <<>>],
                 timer |-> [t \in Thread |-> FALSE],
                 err   |-> [t \in Thread |-> "EOK"],
                 lock  |-> 0]
<1>1. BootKernel = Schedule(b)
  BY DEF BootKernel
<1>2. KernelType(b)
  <2>1. BootTable \subseteq Prio /\ {Row(p) : p \in BootTable} \subseteq 0..31
    BY KernelAssumption, RowRange, ZenonT(60) DEF BootTable
  <2>2. [w \in WaitList |-> <<>>] \in [WaitList -> Seq(Thread)]
    OBVIOUS
  <2>3. [t \in Thread |-> IF Booted(t) THEN "ready" ELSE "init"] \in [Thread -> Stat]
    BY DEF Stat
  <2>. QED BY <2>1, <2>2, <2>3, KernelAssumption DEF KernelType, Error
<1>3. /\ b.stat = [t \in Thread |-> IF Booted(t) THEN "ready" ELSE "init"]
      /\ b.prio = InitPrio /\ b.ready = Boot /\ b.table = BootTable
      /\ b.group = {Row(p) : p \in BootTable} /\ b.wait = [w \in WaitList |-> <<>>]
      /\ b.timer = [t \in Thread |-> FALSE] /\ b.err = [t \in Thread |-> "EOK"] /\ b.lock = 0
  OBVIOUS
<1> HIDE DEF b
<1>4. ReadyListsExact(b, {})
  <2>1. ASSUME NEW p \in Prio, NEW t \in Thread
        PROVE  Contains(Boot[p], t) <=> Booted(t) /\ InitPrio[t] = p
    BY KernelAssumption DEF Booted
  <2>2. \A p \in Prio : Distinct(Boot[p])
    BY KernelAssumption
  <2>3. \A t \in Thread : b.stat[t] = "ready" <=> Booted(t)
    BY <1>3
  <2>. QED BY <1>3, <2>1, <2>2, <2>3 DEF ReadyListsExact
<1>5. WaitListsExact(b, {})
  <2>1. Distinct(<<>>)
    BY DEF Distinct
  <2>. QED BY <2>1, <1>3, EmptyList DEF WaitListsExact
<1>6. BitmapExact(b) /\ TimersExact(b)
  BY <1>3 DEF BitmapExact, TimersExact, BootTable
<1>7. KernelInv(b, {})
  BY <1>2, <1>3, <1>4, <1>5, <1>6, KernelAssumption DEF KernelInv
<1>8. /\ KernelInv(Schedule(b), {}) /\ b.stat[Schedule(b).cur] = "ready"
      /\ RunsHighest(Schedule(b))
      /\ Schedule(b) = [b EXCEPT !.cur = Schedule(b).cur]
  BY <1>3, <1>7, ScheduleKeeps
<1>9. Schedule(b).stat = b.stat /\ Schedule(b).lock = b.lock /\ Schedule(b).err = b.err
      /\ Schedule(b).wait = b.wait /\ Schedule(b).prio = b.prio /\ Schedule(b).timer = b.timer
  BY <1>2, <1>8 DEF KernelType
<1>. QED BY <1>1, <1>3, <1>8, <1>9

-----------------------------------------------------------------------------
(***************************************************************************)
(* Loops.  FoldLeft is defined through a recursive function on the sets of *)
(* a sequence's indices; the loops of ipc.c are folds along suspend lists. *)
(***************************************************************************)

\* Induction up to n
LEMMA UpTo ==
  ASSUME NEW n \in Nat, NEW B, 0 \in B, \A i \in 1..n : i - 1 \in B => i \in B
  PROVE  n \in B
<1> DEFINE C == {i \in 0..n : i \notin B}
<1>1. SUFFICES ASSUME C # {} PROVE FALSE
  BY DEF C
<1>2. C \in SUBSET Nat
  OBVIOUS
<1>3. PICK m : m \in C /\ \A x \in C : m <= x
  <2> HIDE DEF C
  <2>. QED BY <1>1, <1>2, MinNat
<1>. QED BY <1>3

\* The last index of a part of a sequence
LEMMA MaxIndex ==
  ASSUME NEW n \in Nat, NEW s \in SUBSET (1..n), s # {}
  PROVE  Max(s) \in s /\ \A x \in s : Max(s) >= x
<1> DEFINE S == {n - x : x \in s}
           Greatest(x) == x \in s /\ \A y \in s : x >= y
<1>1. S \in SUBSET Nat /\ S # {}
  <2>1. \A x \in s : x \in Int /\ n - x \in Nat
    OBVIOUS
  <2>. QED BY <2>1, Zenon
<1>2. Min(S) \in S /\ \A x \in S : Min(S) <= x
  <2> HIDE DEF S
  <2>. QED BY <1>1, MinNat
<1>3. PICK m \in s : Min(S) = n - m
  BY <1>2
<1>4. ASSUME NEW y \in s PROVE m >= y
  <2>1. n - m <= n - y
    BY <1>2, <1>3
  <2>. QED BY <2>1
<1>5. \E x : Greatest(x)
  BY <1>4
<1>6. Greatest(CHOOSE x : Greatest(x))
  <2> HIDE DEF Greatest
  <2>. QED BY <1>5
<1>7. Max(s) = CHOOSE x : Greatest(x)
  BY DEF Max
<1>. QED BY <1>6, <1>7

\* Induction along a sequence: what holds before the loop and is kept by each round
\* holds after it
LEMMA FoldStays ==
  ASSUME NEW n \in Nat, NEW Y, NEW h, h[{}] \in Y,
         \A s \in SUBSET (1..n) : s # {} /\ h[s \ {Max(s)}] \in Y => h[s] \in Y
  PROVE  h[1..n] \in Y
<1> DEFINE B == {i \in 0..n : h[1..i] \in Y}
<1>1. 0 \in B
  <2>1. 1..0 = {}
    OBVIOUS
  <2>. QED BY <2>1
<1>2. ASSUME NEW m \in 1..n, m - 1 \in B PROVE m \in B
  <2>1. 1..m \in SUBSET (1..n) /\ 1..m # {}
    OBVIOUS
  <2>2. Max(1..m) = m
    <3>1. Max(1..m) \in 1..m /\ \A x \in 1..m : Max(1..m) >= x
      BY <2>1, MaxIndex
    <3>2. m \in 1..m
      OBVIOUS
    <3>. QED BY <3>1, <3>2
  <2>3. (1..m) \ {m} = 1..(m - 1)
    OBVIOUS
  <2>4. h[1..m] \in Y
    BY <1>2, <2>1, <2>2, <2>3
  <2>. QED BY <2>4
<1>3. n \in B
  <2> HIDE DEF B
  <2>. QED BY <1>1, <1>2, UpTo
<1>. QED BY <1>3

\* g is a run of a loop of n rounds from base on, F[i] what its i-th round does
Follows(g, F, base, n) ==
  \A s \in SUBSET (1..n) :
    g[s] = IF s = {} THEN base ELSE F[Max(s)][g[s \ {Max(s)}]]

\* A loop has a run
LEMMA FoldExists ==
  ASSUME NEW Y, NEW base \in Y, NEW n \in Nat, NEW F \in [1..n -> [Y -> Y]]
  PROVE  \E g \in [SUBSET (1..n) -> Y] : Follows(g, F, base, n)
<1> DEFINE Runs(g, i) == \A s \in SUBSET (1..i) :
                           g[s] = IF s = {} THEN base ELSE F[Max(s)][g[s \ {Max(s)}]]
           Good(i) == \E g \in [SUBSET (1..i) -> Y] : Runs(g, i)
           B == {i \in 0..n : ~Good(i)}
<1>1. SUFFICES ASSUME B # {} PROVE FALSE
  <2>1. ASSUME B = {} PROVE Good(n)
    <3> HIDE DEF Good
    <3>. QED BY <2>1
  <2>0. Good(n) => \E g \in [SUBSET (1..n) -> Y] : Follows(g, F, base, n)
    BY DEF Follows
  <2>2. B = {}
    BY <1>1, Zenon
  <2>. QED BY <2>0, <2>1, <2>2
<1>2. B \in SUBSET Nat
  OBVIOUS
<1>3. PICK m : m \in B /\ \A x \in B : m <= x
  <2> HIDE DEF B
  <2>. QED BY <1>1, <1>2, MinNat
<1>4. m \in 1..n
  <2>1. Good(0)
    <3> DEFINE g == [s \in SUBSET (1..0) |-> base]
    <3>1. 1..0 = {}
      OBVIOUS
    <3>2. g \in [SUBSET (1..0) -> Y] /\ Runs(g, 0)
      BY <3>1
    <3>. QED BY <3>2
  <2> HIDE DEF Good
  <2>. QED BY <1>3, <2>1
<1>5. PICK g \in [SUBSET (1..(m - 1)) -> Y] : Runs(g, m - 1)
  <2>1. Good(m - 1)
    <3> HIDE DEF Good
    <3>1. m - 1 \in 0..n /\ ~(m <= m - 1)
      BY <1>4
    <3>. QED BY <1>3, <3>1
  <2>. QED BY <2>1
<1> DEFINE h == [s \in SUBSET (1..m) |-> IF m \in s THEN F[m][g[s \ {m}]] ELSE g[s]]
<1>6. ASSUME NEW s \in SUBSET (1..m) PROVE s \ {m} \in SUBSET (1..(m - 1))
  BY <1>4
<1>7. ASSUME NEW s \in SUBSET (1..m), m \notin s PROVE s \in SUBSET (1..(m - 1))
  BY <1>6, <1>7
<1>8. h \in [SUBSET (1..m) -> Y]
  BY <1>4, <1>5, <1>6, <1>7
<1>9. ASSUME NEW s \in SUBSET (1..m), m \in s
      PROVE h[s] = IF s = {} THEN base ELSE F[Max(s)][h[s \ {Max(s)}]]
  <2>1. Max(s) = m
    <3>1. m \in Nat /\ s # {}
      BY <1>4, <1>9
    <3>2. Max(s) \in s /\ Max(s) >= m
      BY <3>1, <1>9, MaxIndex
    <3>3. Max(s) \in 1..m
      BY <3>2, <1>9
    <3>. QED BY <3>1, <3>2, <3>3
  <2>2. h[s \ {m}] = g[s \ {m}]
    BY <1>6
  <2>. QED BY <1>9, <2>1, <2>2
<1>10. ASSUME NEW s \in SUBSET (1..m), m \notin s
       PROVE h[s] = IF s = {} THEN base ELSE F[Max(s)][h[s \ {Max(s)}]]
  <2>1. s \in SUBSET (1..(m - 1))
    BY <1>7, <1>10
  <2>2. h[s] = g[s] /\ h[s \ {Max(s)}] = g[s \ {Max(s)}]
    BY <1>10, <2>1
  <2>. QED BY <1>5, <2>1, <2>2
<1>11. Runs(h, m)
  BY <1>9, <1>10
<1>. QED BY <1>3, <1>8, <1>11
=============================================================================
