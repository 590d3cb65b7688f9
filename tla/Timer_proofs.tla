----------------------------- MODULE Timer_proofs -----------------------------
(***************************************************************************)
(* Proofs about Timer, for any number of timers and callers, any number of *)
(* tick values and any use of the timers that keeps to OneUser: without it *)
(* two calls about one timer may link it twice.  Where times are compared, *)
(* no soft timer has the timeout RT_TICK_MAX, which reads as an empty list *)
(* (NoneAtTickMax).                                                        *)
(*                                                                         *)
(* First the lists and the tick arithmetic, then LinkInv (which timers are *)
(* linked, and who is about to link one), DueInv (how far from due they    *)
(* may be), and the steps of AbstractTimers.                               *)
(***************************************************************************)
EXTENDS Timer, SequenceTheorems, WellFoundedInduction, TLAPS

-----------------------------------------------------------------------------
(***************************************************************************)
(* Lists.                                                                  *)
(***************************************************************************)

Distinct(s) == \A i, j \in 1..Len(s) : s[i] = s[j] => i = j

\* A list is injective when each of its things is in it once
LEMMA DistinctList ==
  ASSUME NEW S, NEW s \in Seq(S)
  PROVE  IsInjective(s) <=> Distinct(s)
<1>1. DOMAIN s = 1..Len(s)
  OBVIOUS
<1>. QED BY <1>1 DEF IsInjective, Distinct

\* A non-empty set of natural numbers has a least element
LEMMA MinNat ==
  ASSUME NEW S \in SUBSET Nat, S # {}
  PROVE  Min(S) \in S /\ \A x \in S : Min(S) <= x
<1> DEFINE Least(x) == x \in S /\ \A y \in S : x =< y
<1>1. \E n \in S : \A k \in S : n <= k
  <2> DEFINE R == OpToRel(<, Nat)
  <2>1. \E n \in S : \A k \in S : <<k, n>> \notin R
    <3>1. IsWellFoundedOn(R, Nat)
      BY NatLessThanWellFounded
    <3> HIDE DEF R
    <3>. QED BY <3>1, WFMin
  <2>2. ASSUME NEW k \in Nat, NEW n \in Nat, <<k, n>> \notin R PROVE n <= k
    BY <2>2 DEF OpToRel
  <2>. QED BY <2>1, <2>2
<1>2. Min(S) = CHOOSE x : Least(x)
  BY DEF Min
<1>3. \E x : Least(x)
  BY <1>1
<1>4. Least(CHOOSE x : Least(x))
  <2> HIDE DEF Least
  <2>. QED BY <1>3
<1>. QED BY <1>2, <1>4

\* r is s with t as its item n
Inserted(S, r, s, n, t) ==
  /\ r \in Seq(S)
  /\ Len(r) = Len(s) + 1
  /\ \A i \in 1..(n - 1) : r[i] = s[i]
  /\ r[n] = t
  /\ \A i \in (n + 1)..(Len(s) + 1) : r[i] = s[i - 1]

\* What is where after inserting in the middle of a list
LEMMA InsertAtItems ==
  ASSUME NEW S, NEW s \in Seq(S), NEW t \in S, NEW n \in 1..(Len(s) + 1)
  PROVE  Inserted(S, InsertAt(s, n, t), s, n, t)
<1> DEFINE r == InsertAt(s, n, t)
           a == SubSeq(s, 1, n - 1)
           b == SubSeq(s, n, Len(s))
           c == a \o <<t>>
<1>1. Len(s) \in Nat /\ \A i \in 1..Len(s) : s[i] \in S
  BY LenProperties, ElementOfSeq
<1>2. r = c \o b
  BY DEF InsertAt
<1>3. /\ a \in Seq(S) /\ Len(a) = n - 1
      /\ \A i \in 1..(n - 1) : a[i] = s[i]
  <2>1. \A i \in 1..(n - 1) : s[i] \in S
    BY <1>1
  <2>. QED BY <2>1, <1>1, SubSeqProperties
<1>4. /\ b \in Seq(S) /\ Len(b) = Len(s) - n + 1
      /\ \A i \in 1..(Len(s) - n + 1) : b[i] = s[n + i - 1]
  <2>1. \A i \in n..Len(s) : s[i] \in S
    BY <1>1
  <2>. QED BY <2>1, <1>1, SubSeqProperties
<1>5. <<t>> \in Seq(S) /\ Len(<<t>>) = 1 /\ <<t>>[1] = t
  OBVIOUS
<1> HIDE DEF a, b, r
<1>6. /\ c \in Seq(S) /\ Len(c) = n
      /\ \A i \in 1..(n - 1) : c[i] = s[i]
      /\ c[n] = t
  <2>1. /\ c \in Seq(S)
        /\ Len(c) = n
        /\ \A i \in 1..n : c[i] = IF i <= Len(a) THEN a[i] ELSE <<t>>[i - Len(a)]
    BY <1>3, <1>5, <1>1, ConcatProperties
  <2>. QED BY <2>1, <1>3, <1>5, <1>1, SMTT(60)
<1> HIDE DEF c
<1>7. /\ r \in Seq(S)
      /\ Len(r) = Len(s) + 1
      /\ \A i \in 1..(Len(s) + 1) : r[i] = IF i <= n THEN c[i] ELSE b[i - n]
  <2>1. /\ r \in Seq(S) /\ Len(r) = Len(c) + Len(b)
        /\ \A i \in 1..Len(c) + Len(b) : r[i] = IF i <= Len(c) THEN c[i] ELSE b[i - Len(c)]
    BY <1>2, <1>4, <1>6, ConcatProperties, ZenonT(60)
  <2>. QED BY <2>1, <1>4, <1>6, <1>1
<1>8. ASSUME NEW i \in (n + 1)..(Len(s) + 1) PROVE r[i] = s[i - 1]
  <2>1. r[i] = b[i - n] /\ i - n \in 1..(Len(s) - n + 1)
    BY <1>7, <1>1
  <2>2. b[i - n] = s[n + (i - n) - 1] /\ n + (i - n) - 1 = i - 1
    BY <2>1, <1>4, <1>1
  <2>. QED BY <2>1, <2>2
<1>9. \A i \in 1..(n - 1) : r[i] = s[i]
  BY <1>6, <1>7, <1>1
<1>10. r[n] = t
  BY <1>6, <1>7, <1>1
<1>11. Inserted(S, r, s, n, t)
  BY <1>7, <1>8, <1>9, <1>10 DEF Inserted
<1>. QED BY <1>11 DEF r

\* Inserting in the middle of a list
LEMMA InsertAtList ==
  ASSUME NEW S, NEW s \in Seq(S), NEW t \in S, NEW n \in 1..(Len(s) + 1)
  PROVE  /\ InsertAt(s, n, t) \in Seq(S)
         /\ InsertAt(s, n, t) # <<>>
         /\ \A u : Contains(InsertAt(s, n, t), u) <=> Contains(s, u) \/ u = t
         /\ Distinct(s) /\ ~Contains(s, t) => Distinct(InsertAt(s, n, t))
<1> DEFINE r == InsertAt(s, n, t)
<1>1. Len(s) \in Nat /\ \A i \in 1..Len(s) : s[i] \in S
  BY LenProperties, ElementOfSeq
<1>2. /\ r \in Seq(S)
      /\ Len(r) = Len(s) + 1
      /\ \A i \in 1..(n - 1) : r[i] = s[i]
      /\ r[n] = t
      /\ \A i \in (n + 1)..(Len(s) + 1) : r[i] = s[i - 1]
  <2>1. Inserted(S, r, s, n, t)
    BY InsertAtItems
  <2> HIDE DEF r
  <2>. QED BY <2>1 DEF Inserted
<1> HIDE DEF r
<1>3. r # <<>>
  BY <1>1, <1>2
<1>4. ASSUME NEW u PROVE Contains(r, u) <=> Contains(s, u) \/ u = t
  <2>1. ASSUME NEW i \in 1..Len(s) PROVE Contains(r, s[i])
    <3>1. CASE i < n
      <4>1. i \in 1..Len(r) /\ r[i] = s[i]
        BY <3>1, <1>1, <1>2
      <4>. QED BY <4>1 DEF Contains
    <3>2. CASE ~(i < n)
      <4>1. i + 1 \in 1..Len(r) /\ r[i + 1] = s[(i + 1) - 1] /\ (i + 1) - 1 = i
        BY <3>2, <1>1, <1>2, SMTT(60)
      <4>. QED BY <4>1 DEF Contains
    <3>. QED BY <3>1, <3>2
  <2>2. Contains(r, t)
    BY <1>1, <1>2 DEF Contains
  <2>3. ASSUME NEW i \in 1..Len(r) PROVE r[i] = t \/ Contains(s, r[i])
    <3>1. \/ r[i] = t
          \/ i \in 1..Len(s) /\ r[i] = s[i]
          \/ i - 1 \in 1..Len(s) /\ r[i] = s[i - 1]
      BY <1>1, <1>2
    <3>. QED BY <3>1 DEF Contains
  <2>. QED BY <2>1, <2>2, <2>3 DEF Contains
<1>5. ASSUME Distinct(s), ~Contains(s, t) PROVE Distinct(r)
  <2> DEFINE at(i) == IF i < n THEN i ELSE i - 1
  <2>1. ASSUME NEW i \in 1..Len(r), i # n
        PROVE  at(i) \in 1..Len(s) /\ r[i] = s[at(i)] /\ r[i] # t
    <3>1. at(i) \in 1..Len(s) /\ r[i] = s[at(i)]
      BY <2>1, <1>1, <1>2
    <3>. QED BY <3>1, <1>5 DEF Contains
  <2>2. ASSUME NEW i \in 1..Len(r), NEW j \in 1..Len(r), r[i] = r[j] PROVE i = j
    <3>1. CASE i = n \/ j = n
      BY <3>1, <2>1, <2>2, <1>2
    <3>2. CASE i # n /\ j # n
      <4>1. s[at(i)] = s[at(j)]
        BY <3>2, <2>1, <2>2
      <4>2. at(i) = at(j)
        BY <4>1, <3>2, <2>1, <1>5 DEF Distinct
      <4>. QED BY <4>2, <3>2, <1>1, <1>2
    <3>. QED BY <3>1, <3>2
  <2>. QED BY <2>2 DEF Distinct
<1>. QED BY <1>2, <1>3, <1>4, <1>5 DEF r

\* r is s without its item n
Without(S, s, r, n) ==
  /\ n \in 1..Len(s) /\ r \in Seq(S) /\ Len(r) = Len(s) - 1
  /\ \A i \in 1..(n - 1) : r[i] = s[i]
  /\ \A i \in n..(Len(s) - 1) : r[i] = s[i + 1]

\* Where things are after rt_list_remove of something in the list
LEMMA RemoveFirstItems ==
  ASSUME NEW S, NEW s \in Seq(S), NEW t, Contains(s, t)
  PROVE  \E n : s[n] = t /\ Without(S, s, RemoveFirst(s, t), n)
<1> DEFINE r == RemoveFirst(s, t)
           I == {i \in 1..Len(s) : s[i] = t}
           n == SelectInSeq(s, LAMBDA v : v = t)
           a == SubSeq(s, 1, n - 1)
           b == SubSeq(s, n + 1, Len(s))
<1>1. Len(s) \in Nat /\ \A i \in 1..Len(s) : s[i] \in S
  BY LenProperties, ElementOfSeq
<1>2. n = Min(I) /\ r = RemoveAt(s, n)
  BY DEF SelectInSeq, RemoveFirst, Contains
<1>3. I \in SUBSET Nat /\ I # {}
  BY <1>1 DEF Contains
<1>4. n \in 1..Len(s) /\ s[n] = t
  BY <1>2, <1>3, MinNat
<1>5. r = a \o b
  BY <1>2 DEF RemoveAt
<1> HIDE DEF n, r
<1>6. /\ a \in Seq(S) /\ Len(a) = n - 1
      /\ \A i \in 1..(n - 1) : a[i] = s[i]
  <2>1. \A i \in 1..(n - 1) : s[i] \in S
    BY <1>1, <1>4
  <2>. QED BY <2>1, <1>1, <1>4, SubSeqProperties
<1>7. /\ b \in Seq(S) /\ Len(b) = Len(s) - n
      /\ \A i \in 1..(Len(s) - n) : b[i] = s[n + i]
  <2>1. \A i \in (n + 1)..Len(s) : s[i] \in S
    BY <1>1, <1>4
  <2>2. /\ b \in Seq(S) /\ Len(b) = IF n + 1 <= Len(s) THEN Len(s) - (n + 1) + 1 ELSE 0
        /\ \A i \in 1..(Len(s) - (n + 1) + 1) : b[i] = s[(n + 1) + i - 1]
    BY <2>1, <1>1, <1>4, SubSeqProperties
  <2>3. \A i \in 1..(Len(s) - n) : (n + 1) + i - 1 = n + i /\ i \in 1..(Len(s) - (n + 1) + 1)
    BY <1>1, <1>4
  <2> HIDE DEF b
  <2>. QED BY <2>2, <2>3, <1>1, <1>4
<1> HIDE DEF a, b
<1>8. /\ r \in Seq(S) /\ Len(r) = Len(s) - 1
      /\ \A i \in 1..(Len(s) - 1) : r[i] = IF i <= n - 1 THEN a[i] ELSE b[i - (n - 1)]
  <2>1. /\ r \in Seq(S) /\ Len(r) = Len(a) + Len(b)
        /\ \A i \in 1..Len(a) + Len(b) : r[i] = IF i <= Len(a) THEN a[i] ELSE b[i - Len(a)]
    BY <1>5, <1>6, <1>7, ConcatProperties
  <2>. QED BY <2>1, <1>6, <1>7, <1>1, <1>4
<1>9. ASSUME NEW i \in n..(Len(s) - 1) PROVE r[i] = s[i + 1]
  <2>1. r[i] = b[i - (n - 1)] /\ i - (n - 1) \in 1..(Len(s) - n)
    BY <1>8, <1>1, <1>4
  <2>2. b[i - (n - 1)] = s[n + (i - (n - 1))] /\ n + (i - (n - 1)) = i + 1
    BY <2>1, <1>7, <1>1, <1>4
  <2>. QED BY <2>1, <2>2
<1>10. ASSUME NEW i \in 1..(n - 1) PROVE r[i] = s[i]
  <2>1. i \in 1..(Len(s) - 1) /\ i <= n - 1
    BY <1>1, <1>4
  <2>. QED BY <2>1, <1>6, <1>8
<1>11. Without(S, s, r, n)
  BY <1>4, <1>8, <1>9, <1>10 DEF Without
<1>. QED BY <1>4, <1>11 DEF r

\* Where the items of r are in s
LEMMA ItemWithout ==
  ASSUME NEW S, NEW s \in Seq(S), NEW r, NEW n, Without(S, s, r, n),
         NEW i \in 1..Len(r), NEW j, j = IF i < n THEN i ELSE i + 1
  PROVE  j \in 1..Len(s) /\ r[i] = s[j]
<1>0. /\ n \in 1..Len(s) /\ Len(s) \in Nat /\ Len(r) = Len(s) - 1
      /\ \A x \in 1..(n - 1) : r[x] = s[x]
      /\ \A x \in n..(Len(s) - 1) : r[x] = s[x + 1]
  BY LenProperties DEF Without
<1>1. CASE i < n
  <2>1. i \in 1..(n - 1) /\ j = i /\ j \in 1..Len(s)
    BY <1>0, <1>1
  <2>. QED BY <1>0, <2>1
<1>2. CASE ~(i < n)
  <2>1. i \in n..(Len(s) - 1) /\ j = i + 1 /\ j \in 1..Len(s)
    BY <1>0, <1>2
  <2>. QED BY <1>0, <2>1
<1>. QED BY <1>1, <1>2

\* rt_list_remove
LEMMA RemoveFirstList ==
  ASSUME NEW S, NEW s \in Seq(S), NEW t
  PROVE  /\ RemoveFirst(s, t) \in Seq(S)
         /\ ~Contains(s, t) => RemoveFirst(s, t) = s
         /\ Distinct(s) => /\ Distinct(RemoveFirst(s, t))
                           /\ \A u : Contains(RemoveFirst(s, t), u)
                                       <=> Contains(s, u) /\ u # t
<1> DEFINE r == RemoveFirst(s, t)
<1>1. CASE ~Contains(s, t)
  BY <1>1 DEF RemoveFirst, Contains
<1>2. CASE Contains(s, t)
  <2>1. Len(s) \in Nat /\ \A i \in 1..Len(s) : s[i] \in S
    BY LenProperties, ElementOfSeq
  <2> HIDE DEF r
  <2>0. PICK n : s[n] = t /\ Without(S, s, r, n)
    BY <1>2, RemoveFirstItems DEF r
  <2>2. /\ s[n] = t /\ n \in 1..Len(s) /\ r \in Seq(S) /\ Len(r) = Len(s) - 1
        /\ \A i \in 1..(n - 1) : r[i] = s[i]
        /\ \A i \in n..(Len(s) - 1) : r[i] = s[i + 1]
    BY <2>0 DEF Without
  <2> DEFINE at(i) == IF i < n THEN i ELSE i + 1
  <2>5. ASSUME NEW i \in 1..Len(r) PROVE at(i) \in 1..Len(s) /\ r[i] = s[at(i)]
    BY <2>0, ItemWithout
  <2>3. ASSUME Distinct(s) PROVE Distinct(r)
    <3>1. ASSUME NEW i \in 1..Len(r), NEW j \in 1..Len(r), at(i) = at(j) PROVE i = j
      BY ONLY <2>1, <2>2, <3>1
    <3> HIDE DEF at
    <3>. QED BY <2>3, <2>5, <3>1 DEF Distinct
  <2>4. ASSUME Distinct(s), NEW u PROVE Contains(r, u) <=> Contains(s, u) /\ u # t
    <3>1. ASSUME NEW i \in 1..Len(s), s[i] # t PROVE Contains(r, s[i])
      <4>1. CASE i < n
        <5>1. i \in 1..Len(r) /\ r[i] = s[i]
          BY <4>1, <2>1, <2>2
        <5>. QED BY <5>1 DEF Contains
      <4>2. CASE i > n
        <5>1. i - 1 \in 1..Len(r) /\ r[i - 1] = s[(i - 1) + 1] /\ (i - 1) + 1 = i
          BY <4>2, <2>1, <2>2
        <5>. QED BY <5>1 DEF Contains
      <4>. QED BY <4>1, <4>2, <3>1, <2>1, <2>2
    <3>2. ASSUME NEW i \in 1..Len(r) PROVE Contains(s, r[i]) /\ r[i] # t
      <4>1. CASE i < n
        <5>1. r[i] = s[i] /\ i \in 1..Len(s) /\ i # n
          BY <4>1, <2>1, <2>2, SMTT(60)
        <5>. QED BY <5>1, <2>2, <2>4 DEF Contains, Distinct
      <4>2. CASE ~(i < n)
        <5>1. r[i] = s[i + 1] /\ i + 1 \in 1..Len(s) /\ i + 1 # n
          BY <4>2, <2>1, <2>2
        <5>. QED BY <5>1, <2>2, <2>4 DEF Contains, Distinct
      <4>. QED BY <4>1, <4>2
    <3>. QED BY <3>1, <3>2 DEF Contains
  <2>. QED BY <1>2, <2>2, <2>3, <2>4 DEF r
<1>. QED BY <1>1, <1>2

\* The first of a list that is not empty
LEMMA HeadList ==
  ASSUME NEW S, NEW s \in Seq(S), s # <<>>
  PROVE  Head(s) \in S /\ Contains(s, Head(s))
<1>1. Len(s) \in Nat /\ Len(s) # 0 /\ Head(s) = s[1] /\ Head(s) \in S
  BY HeadTailProperties, EmptySeq, LenProperties
<1>. QED BY <1>1 DEF Contains

\* A list in the order of f
Ordered(s, f) == \A i, j \in 1..Len(s) : i < j => f[s[i]] <= f[s[j]]

\* Inserting before everything later and after everything else keeps the order
LEMMA InsertOrdered ==
  ASSUME NEW S, NEW s \in Seq(S), NEW t \in S, NEW n \in 1..(Len(s) + 1),
         NEW f \in [S -> Int], Ordered(s, f),
         \A i \in 1..(n - 1) : f[s[i]] <= f[t],
         \A i \in n..Len(s) : f[t] <= f[s[i]]
  PROVE  Ordered(InsertAt(s, n, t), f)
<1>1. PICK r : r = InsertAt(s, n, t)
  OBVIOUS
<1>2. /\ r \in Seq(S) /\ Len(r) = Len(s) + 1 /\ r[n] = t
      /\ \A i \in 1..(n - 1) : r[i] = s[i]
      /\ \A i \in (n + 1)..(Len(s) + 1) : r[i] = s[i - 1]
  <2>1. Inserted(S, InsertAt(s, n, t), s, n, t)
    BY InsertAtItems
  <2>2. Inserted(S, r, s, n, t)
    BY <1>1, <2>1
  <2>. QED BY <2>2 DEF Inserted
<1>3. Len(s) \in Nat /\ \A i \in 1..Len(s) : f[s[i]] \in Int
  BY LenProperties, ElementOfSeq
<1>4. ASSUME NEW i \in 1..Len(r), NEW j \in 1..Len(r), i < j PROVE f[r[i]] <= f[r[j]]
  <2>1. CASE j < n
    <3>1. i \in 1..(n - 1) /\ j \in 1..(n - 1) /\ i \in 1..Len(s) /\ j \in 1..Len(s)
      BY <1>2, <1>3, <1>4, <2>1
    <3>2. r[i] = s[i] /\ r[j] = s[j]
      BY <1>2, <3>1
    <3>. QED BY <3>1, <3>2, <1>4 DEF Ordered
  <2>2. CASE j = n
    <3>1. r[i] = s[i] /\ r[j] = t /\ i \in 1..(n - 1)
      BY <1>2, <1>3, <1>4, <2>2
    <3>. QED BY <3>1
  <2>3. CASE j > n /\ i < n
    <3>1. /\ i \in 1..(n - 1) /\ j - 1 \in n..Len(s) /\ j \in (n + 1)..(Len(s) + 1)
          /\ i \in 1..Len(s) /\ j - 1 \in 1..Len(s)
      BY ONLY <1>2, <1>3, <1>4, <2>3, n \in 1..(Len(s) + 1)
    <3>2. r[i] = s[i] /\ r[j] = s[j - 1]
      BY ONLY <1>2, <3>1
    <3>3. f[s[i]] <= f[t] /\ f[t] <= f[s[j - 1]]
      BY <3>1
    <3>4. PICK x, y, z : x = f[s[i]] /\ y = f[t] /\ z = f[s[j - 1]]
      OBVIOUS
    <3>5. x \in Int /\ y \in Int /\ z \in Int
      BY <1>3, <3>1, <3>4
    <3>. QED BY ONLY <3>2, <3>3, <3>4, <3>5
  <2>4. CASE i = n
    <3>1. r[i] = t /\ r[j] = s[j - 1] /\ j - 1 \in n..Len(s)
      BY <1>2, <1>3, <1>4, <2>4
    <3>. QED BY <3>1
  <2>5. CASE i > n
    <3>1. /\ i \in (n + 1)..(Len(s) + 1) /\ j \in (n + 1)..(Len(s) + 1)
          /\ i - 1 \in 1..Len(s) /\ j - 1 \in 1..Len(s) /\ i - 1 < j - 1
      BY <1>2, <1>3, <1>4, <2>5
    <3>2. r[i] = s[i - 1] /\ r[j] = s[j - 1]
      BY <1>2, <3>1
    <3>. QED BY <3>1, <3>2 DEF Ordered
  <2>. QED BY <1>2, <1>3, <1>4, <2>1, <2>2, <2>3, <2>4, <2>5
<1>. QED BY <1>1, <1>4 DEF Ordered

\* So does taking something out
LEMMA RemoveOrdered ==
  ASSUME NEW S, NEW s \in Seq(S), NEW t, NEW f \in [S -> Int], Ordered(s, f)
  PROVE  Ordered(RemoveFirst(s, t), f)
<1>1. CASE ~Contains(s, t)
  BY <1>1, RemoveFirstList
<1>2. CASE Contains(s, t)
  <2>1. PICK r : r = RemoveFirst(s, t)
    OBVIOUS
  <2>2. PICK n : Without(S, s, r, n)
    BY <1>2, <2>1, RemoveFirstItems
  <2> DEFINE at(i) == IF i < n THEN i ELSE i + 1
  <2>3. n \in 1..Len(s) /\ Len(s) \in Nat /\ Len(r) = Len(s) - 1 /\ r \in Seq(S)
    BY <2>2, LenProperties DEF Without
  <2>4. ASSUME NEW i \in 1..Len(r) PROVE at(i) \in 1..Len(s) /\ r[i] = s[at(i)]
    BY <2>2, ItemWithout
  <2>5. ASSUME NEW i \in 1..Len(r), NEW j \in 1..Len(r), i < j PROVE at(i) < at(j)
    <3>1. i \in Int /\ j \in Int /\ n \in Int
      BY <2>3
    <3>. QED BY ONLY <2>5, <3>1
  <2>6. ASSUME NEW i \in 1..Len(r), NEW j \in 1..Len(r), i < j PROVE f[r[i]] <= f[r[j]]
    <3>1. PICK x, y : x = at(i) /\ y = at(j)
      OBVIOUS
    <3>2. x < y
      BY <2>5, <2>6, <3>1
    <3>3. x \in 1..Len(s) /\ y \in 1..Len(s) /\ r[i] = s[x] /\ r[j] = s[y]
      BY <2>4, <3>1
    <3>. QED BY <3>2, <3>3 DEF Ordered
  <2>. QED BY <2>1, <2>6 DEF Ordered
<1>. QED BY <1>1, <1>2

-----------------------------------------------------------------------------
(***************************************************************************)
(* The operations on the record m.                                         *)
(***************************************************************************)
Lists == {"hard", "soft"}

MType == [list : [Lists -> Seq(Timer)], deadline : [Timer -> 0..TickMax],
          active : [Timer -> BOOLEAN], init : [Timer -> 0..(Half - 1)],
          periodic : [Timer -> BOOLEAN], stat : {"ready", "suspend"}]

\* A record whose lists hold timers of their kind, each once
Good(r) ==
  /\ r \in MType
  /\ \A x \in Lists : Distinct(r.list[x]) /\ \A t \in Timer : Contains(r.list[x], t) => Kind(t) = x

In(r, t) == Contains(r.list[Kind(t)], t)

\* The lists of r whose timers are in the order of f are in that order in n
KeepsOrder(r, n) ==
  \A x \in Lists, f \in [Timer -> Int] : Ordered(r.list[x], f) => Ordered(n.list[x], f)

\* n is r but for its lists and its active flags
Relisted(r, n) ==
  /\ Good(n)
  /\ n.deadline = r.deadline /\ n.init = r.init /\ n.periodic = r.periodic /\ n.stat = r.stat

LEMMA Put ==
  ASSUME NEW A, NEW B, NEW f \in [A -> B], NEW a \in A, NEW b \in B
  PROVE  /\ [f EXCEPT ![a] = b] \in [A -> B] /\ [f EXCEPT ![a] = b][a] = b
         /\ \A x \in A \ {a} : [f EXCEPT ![a] = b][x] = f[x]
OBVIOUS

LEMMA KindIs ==
  \A t \in Timer : /\ Kind(t) \in Lists
                   /\ t \in Hard <=> Kind(t) = "hard"
                   /\ t \in Soft <=> Kind(t) = "soft"
BY TimerAssumption DEF Kind, Timer, Lists

\* rt_list_remove on a timer's node
LEMMA UnlinkIs ==
  ASSUME NEW r, Good(r), NEW t \in Timer, NEW n, n = Unlink(r, t)
  PROVE  /\ Relisted(r, n) /\ n.active = r.active
         /\ \A u \in Timer : In(n, u) <=> In(r, u) /\ u # t
         /\ \A x \in Lists \ {Kind(t)} : n.list[x] = r.list[x]
         /\ KeepsOrder(r, n)
<1>1. PICK k \in Lists : k = Kind(t)
  BY KindIs
<1>2. PICK s \in Seq(Timer) : s = r.list[k] /\ Distinct(s)
  BY DEF Good, MType
<1>3. PICK q : q = RemoveFirst(s, t)
  OBVIOUS
<1>4. q \in Seq(Timer) /\ Distinct(q) /\ \A u : Contains(q, u) <=> Contains(s, u) /\ u # t
  BY <1>2, <1>3, RemoveFirstList
<1>5. PICK l \in [Lists -> Seq(Timer)] :
        l = [r.list EXCEPT ![k] = q] /\ l[k] = q /\ \A x \in Lists \ {k} : l[x] = r.list[x]
  <2>1. PICK z \in [Lists -> Seq(Timer)] : z = r.list
    BY DEF Good, MType
  <2>2. q \in Seq(Timer)
    BY <1>4
  <2>3. /\ [z EXCEPT ![k] = q] \in [Lists -> Seq(Timer)] /\ [z EXCEPT ![k] = q][k] = q
        /\ \A x \in Lists \ {k} : [z EXCEPT ![k] = q][x] = z[x]
    BY <2>2, Put
  <2>. QED BY <2>1, <2>3
<1>6. /\ n \in MType /\ n.deadline = r.deadline /\ n.init = r.init /\ n.periodic = r.periodic
      /\ n.stat = r.stat /\ n.active = r.active
      /\ n.list[k] = q /\ \A x \in Lists \ {k} : n.list[x] = r.list[x]
  <2>1. n = [r EXCEPT !.list = l]
    BY <1>1, <1>2, <1>3, <1>5 DEF Unlink
  <2>2. n \in MType /\ n.list = l
    BY <2>1 DEF Good, MType
  <2>3. /\ n.deadline = r.deadline /\ n.init = r.init /\ n.periodic = r.periodic
        /\ n.stat = r.stat /\ n.active = r.active
    BY <2>1 DEF Good, MType
  <2>. QED BY <1>5, <2>2, <2>3
<1>7. ASSUME NEW u \in Timer PROVE In(n, u) <=> In(r, u) /\ u # t
  BY <1>1, <1>2, <1>4, <1>6, KindIs DEF In
<1>8. Good(n)
  BY <1>1, <1>2, <1>4, <1>6 DEF Good
<1>9. KeepsOrder(r, n)
  <2>1. SUFFICES ASSUME NEW x \in Lists, NEW f \in [Timer -> Int], Ordered(r.list[x], f)
                 PROVE  Ordered(n.list[x], f)
    BY DEF KeepsOrder
  <2>2. Ordered(s, f) => Ordered(q, f)
    BY <1>2, <1>3, RemoveOrdered
  <2>. QED BY <1>2, <1>6, <2>1, <2>2
<1>. QED BY <1>1, <1>6, <1>7, <1>8, <1>9 DEF Relisted

LEMMA DeactivateIs ==
  ASSUME NEW r, Good(r), NEW t \in Timer, NEW n, n = Deactivate(r, t)
  PROVE  /\ Relisted(r, n) /\ n.active = [r.active EXCEPT ![t] = FALSE] /\ n.list = r.list
         /\ \A u \in Timer : In(n, u) <=> In(r, u)
<1>0. PICK a \in [Timer -> BOOLEAN] : a = [r.active EXCEPT ![t] = FALSE]
  BY DEF Good, MType
<1>1. n = [r EXCEPT !.active = a]
  BY <1>0 DEF Deactivate
<1>2. n \in MType /\ n.active = [r.active EXCEPT ![t] = FALSE] /\ n.list = r.list
  BY <1>0, <1>1 DEF Good, MType
<1>3. n.deadline = r.deadline /\ n.init = r.init /\ n.periodic = r.periodic /\ n.stat = r.stat
  BY <1>1 DEF Good, MType
<1>. QED BY <1>2, <1>3 DEF Relisted, Good, In

\* rt_timer_stop
LEMMA StopIs ==
  ASSUME NEW r, Good(r), NEW t \in Timer, NEW n, n = Stop(r, t)
  PROVE  /\ Relisted(r, n) /\ n.active = [r.active EXCEPT ![t] = FALSE]
         /\ \A u \in Timer : In(n, u) <=> In(r, u) /\ ~(u = t /\ r.active[t])
         /\ \A x \in Lists \ {Kind(t)} : n.list[x] = r.list[x]
         /\ KeepsOrder(r, n)
<1>1. CASE r.active[t]
  <2>1. PICK q : q = Unlink(r, t)
    OBVIOUS
  <2>2. n = Deactivate(q, t)
    BY <1>1, <2>1 DEF Stop
  <2>3. /\ Relisted(r, q) /\ q.active = r.active
        /\ \A u \in Timer : In(q, u) <=> In(r, u) /\ u # t
        /\ \A x \in Lists \ {Kind(t)} : q.list[x] = r.list[x]
        /\ KeepsOrder(r, q)
    BY <2>1, UnlinkIs
  <2>4. Good(q)
    BY <2>3 DEF Relisted
  <2>5. /\ Relisted(q, n) /\ n.active = [q.active EXCEPT ![t] = FALSE] /\ n.list = q.list
        /\ \A u \in Timer : In(n, u) <=> In(q, u)
    BY <2>2, <2>4, DeactivateIs
  <2>. QED BY <1>1, <2>3, <2>5 DEF Relisted, KeepsOrder
<1>2. CASE ~r.active[t]
  <2>1. n = r
    BY <1>2 DEF Stop
  <2>2. r.active \in [Timer -> BOOLEAN]
    BY DEF Good, MType
  <2>3. n.active = [r.active EXCEPT ![t] = FALSE]
    BY <1>2, <2>1, <2>2
  <2>. QED BY <1>2, <2>1, <2>3 DEF Relisted, KeepsOrder
<1>. QED BY <1>1, <1>2

\* The place rt_timer_start walks to is in the list or at its end
LEMMA InsertPosRange ==
  ASSUME NEW s \in Seq(Timer), NEW t, NEW d, NEW p, p = InsertPos(s, t, d)
  PROVE  /\ p \in 1..(Len(s) + 1)
         /\ \A i \in 1..(p - 1) : Diff(d[s[i]], d[t]) \notin 1..(Half - 1)
         /\ p <= Len(s) => Diff(d[s[p]], d[t]) \in 1..(Half - 1)
<1>1. PICK L \in SUBSET Nat : L = {i \in 1..Len(s) : Diff(d[s[i]], d[t]) \in 1..(Half - 1)}
  <2>1. {i \in 1..Len(s) : Diff(d[s[i]], d[t]) \in 1..(Half - 1)} \in SUBSET Nat
    <3>1. 1..Len(s) \subseteq Nat
      OBVIOUS
    <3>. QED BY <3>1, Zenon
  <2>. QED BY <2>1, Zenon
<1>2. p = IF L = {} THEN Len(s) + 1 ELSE Min(L)
  BY <1>1 DEF InsertPos
<1>3. CASE L = {}
  <2>1. p = Len(s) + 1
    BY <1>2, <1>3
  <2>. QED BY <1>1, <1>3, <2>1
<1>4. CASE L # {}
  <2>1. p \in L /\ \A x \in L : p <= x
    <3>1. Min(L) \in L /\ \A x \in L : Min(L) <= x
      BY ONLY L \in SUBSET Nat, <1>4, MinNat
    <3>2. p = Min(L)
      BY <1>2, <1>4
    <3>. QED BY <3>1, <3>2
  <2>2. \A i \in 1..(p - 1) : i \notin L /\ i \in 1..Len(s)
    BY <1>1, <2>1
  <2>. QED BY <1>1, <2>1, <2>2
<1>. QED BY <1>3, <1>4

\* rt_list_insert_after and ACTIVATED, at the end of rt_timer_start
Placed(r, n, t) ==
  n.list[Kind(t)] = InsertAt(r.list[Kind(t)], InsertPos(r.list[Kind(t)], t, r.deadline), t)

LEMMA LinkIs ==
  ASSUME NEW r, Good(r), NEW t \in Timer, ~In(r, t), NEW n, n = Link(r, t)
  PROVE  /\ Relisted(r, n) /\ n.active = [r.active EXCEPT ![t] = TRUE]
         /\ \A u \in Timer : In(n, u) <=> In(r, u) \/ u = t
         /\ \A x \in Lists \ {Kind(t)} : n.list[x] = r.list[x]
         /\ Placed(r, n, t)
<1>1. PICK k \in Lists : k = Kind(t)
  BY KindIs
<1>2. PICK s \in Seq(Timer) : s = r.list[k] /\ Distinct(s)
  BY DEF Good, MType
<1>3. PICK p \in 1..(Len(s) + 1) : p = InsertPos(s, t, r.deadline)
  <2>1. PICK p, b : p = InsertPos(s, t, b) /\ b = r.deadline
    OBVIOUS
  <2>2. p \in 1..(Len(s) + 1)
    BY <2>1, InsertPosRange
  <2>. QED BY <2>1, <2>2
<1>4. PICK q : q = InsertAt(s, p, t)
  OBVIOUS
<1>5. ~Contains(s, t)
  BY <1>1, <1>2 DEF In
<1>6. q \in Seq(Timer) /\ Distinct(q) /\ \A u : Contains(q, u) <=> Contains(s, u) \/ u = t
  BY <1>2, <1>3, <1>4, <1>5, InsertAtList
<1>7. PICK l \in [Lists -> Seq(Timer)] :
        l = [r.list EXCEPT ![k] = q] /\ l[k] = q /\ \A x \in Lists \ {k} : l[x] = r.list[x]
  <2>1. PICK z \in [Lists -> Seq(Timer)] : z = r.list
    BY DEF Good, MType
  <2>2. q \in Seq(Timer)
    BY <1>6
  <2>3. /\ [z EXCEPT ![k] = q] \in [Lists -> Seq(Timer)] /\ [z EXCEPT ![k] = q][k] = q
        /\ \A x \in Lists \ {k} : [z EXCEPT ![k] = q][x] = z[x]
    BY <2>2, Put
  <2>. QED BY <2>1, <2>3
<1>8. PICK a \in [Timer -> BOOLEAN] : a = [r.active EXCEPT ![t] = TRUE]
  BY DEF Good, MType
<1>9. n = [r EXCEPT !.list = l, !.active = a]
  BY <1>1, <1>2, <1>3, <1>4, <1>7, <1>8 DEF Link
<1>10. n \in MType /\ n.list = l /\ n.active = a
  BY <1>9 DEF Good, MType
<1>11. n.deadline = r.deadline /\ n.init = r.init /\ n.periodic = r.periodic /\ n.stat = r.stat
  BY <1>9 DEF Good, MType
<1>12. ASSUME NEW u \in Timer PROVE In(n, u) <=> In(r, u) \/ u = t
  BY <1>1, <1>2, <1>6, <1>7, <1>10, KindIs DEF In
<1>13. Good(n)
  BY <1>1, <1>2, <1>6, <1>7, <1>10 DEF Good
<1>14. Placed(r, n, t)
  BY <1>1, <1>2, <1>3, <1>4, <1>7, <1>10 DEF Placed
<1>. QED BY <1>1, <1>2, <1>7, <1>8, <1>10, <1>11, <1>12, <1>13, <1>14 DEF Relisted

-----------------------------------------------------------------------------
(***************************************************************************)
(* Ticks wrap: how many are left until a deadline.                         *)
(***************************************************************************)
Ticks == 0..TickMax

LEMMA TickSizes ==
  /\ TickRange \in Nat /\ TickMax \in Nat /\ TickMax = TickRange - 1 /\ TickRange >= 4
  /\ Half \in Nat /\ Half >= 1 /\ 2 * Half <= TickMax /\ TickMax <= 2 * Half + 1
<1>1. TickRange \in Nat /\ TickRange >= 4
  BY TimerAssumption
<1>2. TickMax \in Nat /\ TickMax = TickRange - 1
  BY <1>1 DEF TickMax
<1>3. \A n \in Nat : n >= 3 => n \div 2 \in Nat /\ n \div 2 >= 1 /\ 2 * (n \div 2) <= n
                              /\ n <= 2 * (n \div 2) + 1
  OBVIOUS
<1>4. Half = TickMax \div 2
  BY DEF Half
<1>. QED BY <1>1, <1>2, <1>3, <1>4

\* The difference of two ticks
LEMMA DiffIs ==
  ASSUME NEW a \in Ticks, NEW b \in Ticks
  PROVE  /\ Diff(a, b) = IF a >= b THEN a - b ELSE a - b + TickRange
         /\ Diff(a, b) \in Ticks
<1>1. a \in Nat /\ b \in Nat /\ a < TickRange /\ b < TickRange /\ TickRange \in Nat \ {0}
  BY TickSizes DEF Ticks
<1>2. CASE a >= b
  <2>1. a - b \in 0..(TickRange - 1)
    BY <1>1, <1>2
  <2>2. \A z \in 0..(TickRange - 1) : z % TickRange = z
    BY <1>1
  <2>3. Diff(a, b) = a - b
    BY <2>1, <2>2 DEF Diff
  <2>. QED BY <1>2, <2>1, <2>3, TickSizes DEF Ticks
<1>3. CASE ~(a >= b)
  <2>1. a - b \in Int /\ a - b < 0 /\ a - b >= -TickRange
    BY <1>1, <1>3
  <2>2. \A z \in Int : z < 0 /\ z >= -TickRange => z % TickRange = z + TickRange
    BY <1>1
  <2>3. Diff(a, b) = a - b + TickRange
    BY <2>1, <2>2 DEF Diff
  <2>. QED BY <1>1, <1>3, <2>3, TickSizes DEF Ticks
<1>. QED BY <1>2, <1>3

\* n ticks after now
LEMMA SumIs ==
  ASSUME NEW now \in Ticks, NEW n \in Ticks
  PROVE  /\ (now + n) % TickRange = IF now + n < TickRange THEN now + n ELSE now + n - TickRange
         /\ (now + n) % TickRange \in Ticks
<1>1. now \in Nat /\ n \in Nat /\ now < TickRange /\ n < TickRange /\ TickRange \in Nat \ {0}
  BY TickSizes DEF Ticks
<1>2. CASE now + n < TickRange
  <2>1. now + n \in 0..(TickRange - 1)
    BY <1>1, <1>2
  <2>2. \A z \in 0..(TickRange - 1) : z % TickRange = z
    BY <1>1
  <2>. QED BY <1>2, <2>1, <2>2, TickSizes DEF Ticks
<1>3. CASE ~(now + n < TickRange)
  <2>1. now + n \in TickRange..(2 * TickRange - 1)
    BY <1>1, <1>3
  <2>2. \A z \in TickRange..(2 * TickRange - 1) : z % TickRange = z - TickRange
    BY <1>1
  <2>. QED BY <1>1, <1>3, <2>1, <2>2, TickSizes DEF Ticks
<1>. QED BY <1>2, <1>3

\* Ticks from now until d, negative when d is past
Until(d, now) == IF Diff(now, d) < Half THEN - Diff(now, d) ELSE Diff(d, now)

LEMMA LeftUntil ==
  ASSUME NEW t
  PROVE  Left(t) = Until(m.deadline[t], tick) /\ (Due(t, tick) <=> Diff(tick, m.deadline[t]) < Half)
BY DEF Left, Due, Until

LEMMA UntilRange ==
  ASSUME NEW d \in Ticks, NEW now \in Ticks
  PROVE  /\ Until(d, now) \in Int /\ Until(d, now) > - Half /\ Until(d, now) <= TickRange - Half
         /\ Diff(now, d) < Half <=> Until(d, now) <= 0
         /\ Until(d, now) <= 0 => Until(d, now) = - Diff(now, d)
         /\ Until(d, now) >= 0 => Diff(d, now) = Until(d, now)
         /\ Until(d, now) < 0 => Diff(d, now) = Until(d, now) + TickRange
<1>1. PICK N \in Nat, h \in Nat : N = TickRange /\ h = Half /\ h >= 1 /\ 2 * h < N
  BY TickSizes
<1>2. d \in 0..(N - 1) /\ now \in 0..(N - 1)
  BY <1>1, TickSizes DEF Ticks
<1>3. PICK a, b, u : a \in Int /\ b \in Int /\ a = Diff(now, d) /\ b = Diff(d, now) /\ u = Until(d, now)
  BY DiffIs DEF Ticks
<1>4. /\ a = IF now >= d THEN now - d ELSE now - d + N
      /\ b = IF d >= now THEN d - now ELSE d - now + N
  BY <1>1, <1>3, DiffIs
<1>5. u = IF a < h THEN - a ELSE b
  BY <1>1, <1>3 DEF Until
<1>6. /\ u \in Int /\ u > - h /\ u <= N - h /\ (a < h <=> u <= 0)
      /\ (u <= 0 => u = - a) /\ (u >= 0 => b = u) /\ (u < 0 => b = u + N)
  BY <1>1, <1>2, <1>4, <1>5
<1>. QED BY <1>1, <1>3, <1>6

\* The four ways in which d and now can lie
LEMMA UntilIs ==
  ASSUME NEW d \in Ticks, NEW now \in Ticks
  PROVE  Until(d, now) = IF now >= d THEN IF now - d < Half THEN d - now ELSE d - now + TickRange
                         ELSE IF now - d + TickRange < Half THEN d - now - TickRange ELSE d - now
<1>1. PICK N \in Nat, h \in Nat : N = TickRange /\ h = Half /\ h >= 1 /\ 2 * h < N
  BY TickSizes
<1>2. d \in 0..(N - 1) /\ now \in 0..(N - 1)
  BY <1>1, TickSizes DEF Ticks
<1>3. PICK a, b, u : a \in Int /\ b \in Int /\ a = Diff(now, d) /\ b = Diff(d, now) /\ u = Until(d, now)
  BY DiffIs DEF Ticks
<1>4. /\ a = IF now >= d THEN now - d ELSE now - d + N
      /\ b = IF d >= now THEN d - now ELSE d - now + N
  BY <1>1, <1>3, DiffIs
<1>5. u = IF a < h THEN - a ELSE b
  BY <1>1, <1>3 DEF Until
<1>6. u = IF now >= d THEN IF now - d < h THEN d - now ELSE d - now + N
          ELSE IF now - d + N < h THEN d - now - N ELSE d - now
  BY <1>1, <1>2, <1>4, <1>5
<1>. QED BY <1>1, <1>3, <1>6

\* A tick later one tick less is left, until the deadline is taken for a coming one
LEMMA UntilTick ==
  ASSUME NEW d \in Ticks, NEW now \in Ticks, Until(d, now) > 1 - Half,
         NEW next, next = (now + 1) % TickRange
  PROVE  next \in Ticks /\ Until(d, next) = Until(d, now) - 1
<1>1. next \in Ticks /\ next = IF now + 1 < TickRange THEN now + 1 ELSE now + 1 - TickRange
  <2>1. 1 \in Ticks
    BY TickSizes DEF Ticks
  <2>. QED BY <2>1, SumIs
<1>2. PICK N \in Nat, h \in Nat : N = TickRange /\ h = Half /\ h >= 1 /\ 2 * h < N
  BY TickSizes
<1>3. d \in 0..(N - 1) /\ now \in 0..(N - 1) /\ next = IF now + 1 < N THEN now + 1 ELSE now + 1 - N
  BY <1>1, <1>2, TickSizes DEF Ticks
<1>4. PICK u, v : u = Until(d, now) /\ v = Until(d, next) /\ u > 1 - h
  BY <1>2
<1>5. u = IF now >= d THEN IF now - d < h THEN d - now ELSE d - now + N
          ELSE IF now - d + N < h THEN d - now - N ELSE d - now
  BY <1>2, <1>4, UntilIs
<1>6. v = IF next >= d THEN IF next - d < h THEN d - next ELSE d - next + N
          ELSE IF next - d + N < h THEN d - next - N ELSE d - next
  BY <1>1, <1>2, <1>4, UntilIs
<1>7. v = u - 1
  BY <1>2, <1>3, <1>4, <1>5, <1>6
<1>. QED BY <1>1, <1>4, <1>7

LEMMA UntilSet ==
  ASSUME NEW now \in Ticks, NEW n \in 0..(Half - 1), NEW d, d = (now + n) % TickRange
  PROVE  d \in Ticks /\ Until(d, now) = n
<1>1. n \in Ticks
  BY TickSizes DEF Ticks
<1>2. d \in Ticks /\ d = IF now + n < TickRange THEN now + n ELSE now + n - TickRange
  BY <1>1, SumIs
<1>3. PICK N \in Nat, h \in Nat : N = TickRange /\ h = Half /\ h >= 1 /\ 2 * h < N
  BY TickSizes
<1>4. /\ now \in 0..(N - 1) /\ n \in 0..(h - 1) /\ d \in 0..(N - 1)
      /\ d = IF now + n < N THEN now + n ELSE now + n - N
  BY <1>2, <1>3, TickSizes DEF Ticks
<1>5. PICK u : u = Until(d, now)
  OBVIOUS
<1>6. u = IF now >= d THEN IF now - d < h THEN d - now ELSE d - now + N
          ELSE IF now - d + N < h THEN d - now - N ELSE d - now
  BY <1>2, <1>3, <1>5, UntilIs
<1>7. u = n
  BY <1>3, <1>4, <1>6
<1>. QED BY <1>2, <1>5, <1>7

\* rt_timer_start compares deadlines by their difference
LEMMA LaterIs ==
  ASSUME NEW d \in Ticks, NEW e \in Ticks, NEW now \in Ticks,
         Until(d, now) - Until(e, now) < Half, Until(e, now) - Until(d, now) <= Half
  PROVE  Diff(d, e) \in 1..(Half - 1) <=> Until(d, now) > Until(e, now)
<1>1. PICK N \in Nat, h \in Nat : N = TickRange /\ h = Half /\ h >= 1 /\ 2 * h < N
  BY TickSizes
<1>2. d \in 0..(N - 1) /\ e \in 0..(N - 1) /\ now \in 0..(N - 1)
  BY <1>1, TickSizes DEF Ticks
<1>3. PICK u, v, a : /\ u = Until(d, now) /\ v = Until(e, now) /\ a = Diff(d, e)
                     /\ u - v < h /\ v - u <= h
  BY <1>1
<1>4. a = IF d >= e THEN d - e ELSE d - e + N
  BY <1>1, <1>3, DiffIs
<1>5. u = IF now >= d THEN IF now - d < h THEN d - now ELSE d - now + N
          ELSE IF now - d + N < h THEN d - now - N ELSE d - now
  BY <1>1, <1>3, UntilIs
<1>6. v = IF now >= e THEN IF now - e < h THEN e - now ELSE e - now + N
          ELSE IF now - e + N < h THEN e - now - N ELSE e - now
  BY <1>1, <1>3, UntilIs
<1>7. a \in 1..(h - 1) <=> u > v
  BY <1>1, <1>2, <1>3, <1>4, <1>5, <1>6
<1>. QED BY <1>1, <1>3, <1>7

\* Where a timer is linked
LEMMA LinkAt ==
  ASSUME NEW r, Good(r), NEW t \in Timer, ~In(r, t), NEW n, n = Link(r, t),
         NEW k, k = Kind(t), NEW s, s = r.list[k], NEW b, b = r.deadline,
         NEW p, p = InsertPos(s, t, b)
  PROVE  n.list[k] = InsertAt(s, p, t)
<1>1. Placed(r, n, t)
  BY ONLY Good(r), t \in Timer, ~In(r, t), n = Link(r, t), LinkIs
<1>2. n.list[k] = InsertAt(s, InsertPos(s, t, b), t)
  BY <1>1 DEF Placed
<1>. QED BY <1>2

\* The timer is linked in order, if no two timeouts are too far apart
LEMMA LinkOrders ==
  ASSUME NEW r, Good(r), NEW t \in Timer, ~In(r, t), NEW n, n = Link(r, t),
         NEW now \in Ticks, NEW f \in [Timer -> Int],
         \A u \in Timer : f[u] = Until(r.deadline[u], now),
         \A u \in Timer : In(r, u) /\ Kind(u) = Kind(t) => f[u] - f[t] < Half /\ f[t] - f[u] <= Half,
         Ordered(r.list[Kind(t)], f)
  PROVE  Ordered(n.list[Kind(t)], f)
<1>1. PICK k \in Lists : k = Kind(t)
  BY KindIs
<1>2. PICK s \in Seq(Timer) : s = r.list[k]
  BY DEF Good, MType
<1>3. PICK p, b : p = InsertPos(s, t, b) /\ b = r.deadline
  OBVIOUS
<1>4. /\ p \in 1..(Len(s) + 1)
      /\ \A i \in 1..(p - 1) : Diff(r.deadline[s[i]], r.deadline[t]) \notin 1..(Half - 1)
      /\ p <= Len(s) => Diff(r.deadline[s[p]], r.deadline[t]) \in 1..(Half - 1)
  <2>1. /\ p \in 1..(Len(s) + 1)
        /\ \A i \in 1..(p - 1) : Diff(b[s[i]], b[t]) \notin 1..(Half - 1)
        /\ p <= Len(s) => Diff(b[s[p]], b[t]) \in 1..(Half - 1)
    BY <1>3, InsertPosRange
  <2>. QED BY <1>3, <2>1
<1>5. n.list[k] = InsertAt(s, p, t)
  <2>1. /\ Good(r) /\ t \in Timer /\ ~In(r, t) /\ n = Link(r, t)
        /\ k = Kind(t) /\ s = r.list[k] /\ b = r.deadline /\ p = InsertPos(s, t, b)
    BY <1>1, <1>2, <1>3
  <2>. QED BY <2>1, LinkAt
<1>6. \A u \in Timer : r.deadline[u] \in Ticks
  BY DEF Good, MType, Ticks
<1>7. ASSUME NEW i \in 1..Len(s)
      PROVE  /\ s[i] \in Timer /\ f[s[i]] \in Int /\ f[t] \in Int
             /\ Diff(r.deadline[s[i]], r.deadline[t]) \in 1..(Half - 1) <=> f[s[i]] > f[t]
  <2>1. PICK u \in Timer : u = s[i]
    BY <1>2, ElementOfSeq
  <2>2. Contains(s, u)
    BY <2>1 DEF Contains
  <2>3. Kind(u) = k
    BY <1>2, <2>2 DEF Good
  <2>4. In(r, u)
    BY <1>2, <2>2, <2>3 DEF In
  <2>5. f[u] - f[t] < Half /\ f[t] - f[u] <= Half
    BY <1>1, <2>3, <2>4
  <2>6. PICK d \in Ticks : d = r.deadline[u] /\ f[u] = Until(d, now)
    BY <1>6
  <2>7. PICK e \in Ticks : e = r.deadline[t] /\ f[t] = Until(e, now)
    BY <1>6
  <2>8. Diff(d, e) \in 1..(Half - 1) <=> Until(d, now) > Until(e, now)
    BY <2>5, <2>6, <2>7, LaterIs
  <2>. QED BY <2>1, <2>6, <2>7, <2>8
<1>8. Ordered(s, f) /\ Len(s) \in Nat
  BY <1>1, <1>2, LenProperties
<1>9. ASSUME NEW i \in 1..(p - 1) PROVE f[s[i]] <= f[t]
  <2>1. i \in 1..Len(s)
    BY <1>4, <1>8
  <2>2. ~(f[s[i]] > f[t]) /\ f[s[i]] \in Int /\ f[t] \in Int
    BY <1>4, <1>7, <2>1
  <2>. QED BY <2>2
<1>10. ASSUME NEW i \in p..Len(s) PROVE f[t] <= f[s[i]]
  <2>1. p \in 1..Len(s) /\ i \in 1..Len(s) /\ p <= Len(s)
    BY <1>4, <1>8
  <2>2. f[s[p]] > f[t] /\ f[s[p]] \in Int /\ f[t] \in Int /\ f[s[i]] \in Int
    BY <1>4, <1>7, <2>1
  <2>3. f[s[p]] <= f[s[i]]
    <3>1. CASE i = p
      BY <2>2, <3>1
    <3>2. CASE i # p
      <4>1. p < i
        BY <1>4, <1>8, <3>2
      <4>. QED BY <1>8, <2>1, <4>1 DEF Ordered
    <3>. QED BY <3>1, <3>2
  <2>. QED BY <2>2, <2>3
<1>11. Ordered(InsertAt(s, p, t), f)
  BY <1>4, <1>8, <1>9, <1>10, InsertOrdered
<1>. QED BY <1>1, <1>5, <1>11

LEMMA SetDeadlineIs ==
  ASSUME NEW r, Good(r), NEW t \in Timer, tick \in Ticks, NEW n, n = SetDeadline(r, t)
  PROVE  /\ Good(n) /\ n.deadline = [r.deadline EXCEPT ![t] = (tick + r.init[t]) % TickRange]
         /\ n.list = r.list /\ n.active = r.active
         /\ n.init = r.init /\ n.periodic = r.periodic /\ n.stat = r.stat
         /\ \A u \in Timer : In(n, u) <=> In(r, u)
<1>1. PICK e : e = (tick + r.init[t]) % TickRange
  OBVIOUS
<1>2. e \in 0..TickMax
  <2>1. PICK i \in 0..(Half - 1) : i = r.init[t]
    BY DEF Good, MType
  <2>2. i \in Ticks
    BY TickSizes DEF Ticks
  <2>. QED BY <1>1, <2>1, <2>2, SumIs DEF Ticks
<1>3. PICK d \in [Timer -> 0..TickMax] : d = [r.deadline EXCEPT ![t] = e]
  BY <1>2 DEF Good, MType
<1>4. n = [r EXCEPT !.deadline = d]
  BY <1>1, <1>3 DEF SetDeadline
<1>5. n \in MType /\ n.deadline = d
  BY <1>4 DEF Good, MType
<1>6. /\ n.list = r.list /\ n.active = r.active
      /\ n.init = r.init /\ n.periodic = r.periodic /\ n.stat = r.stat
  BY <1>4 DEF Good, MType
<1>. QED BY <1>1, <1>3, <1>5, <1>6 DEF Good, In

\* Linking t into what r is without t, with another deadline, gives n
Joins(r, n, t) ==
  \E q : /\ Good(q) /\ ~In(q, t) /\ n = Link(q, t) /\ q.deadline = n.deadline
         /\ \A u \in Timer : In(q, u) => In(r, u)
         /\ KeepsOrder(r, q)

\* rt_timer_start on a hard timer
LEMMA StartIs ==
  ASSUME NEW r, Good(r), NEW t \in Hard, tick \in Ticks, NEW n, n = Start(r, t)
  PROVE  /\ Good(n) /\ n.init = r.init /\ n.periodic = r.periodic /\ n.stat = r.stat
         /\ n.active = [r.active EXCEPT ![t] = TRUE]
         /\ n.deadline = [r.deadline EXCEPT ![t] = (tick + r.init[t]) % TickRange]
         /\ \A u \in Timer : In(n, u) <=> In(r, u) \/ u = t
         /\ n.list["soft"] = r.list["soft"]
         /\ Joins(r, n, t)
<1>1. t \in Timer /\ t \notin Soft /\ Kind(t) = "hard"
  BY TimerAssumption DEF Timer, Kind
<1>2. PICK a : a = Unlink(r, t)
  OBVIOUS
<1>3. PICK b : b = Deactivate(a, t)
  OBVIOUS
<1>4. PICK q : q = SetDeadline(b, t)
  OBVIOUS
<1>5. n = Link(q, t)
  BY <1>1, <1>2, <1>3, <1>4 DEF Start
<1>6. /\ Relisted(r, a) /\ a.active = r.active
      /\ \A u \in Timer : In(a, u) <=> In(r, u) /\ u # t
      /\ \A x \in Lists \ {"hard"} : a.list[x] = r.list[x]
      /\ KeepsOrder(r, a)
  BY <1>1, <1>2, UnlinkIs
<1>7. Good(a)
  BY <1>6 DEF Relisted
<1>8. /\ Relisted(a, b) /\ b.active = [a.active EXCEPT ![t] = FALSE] /\ b.list = a.list
      /\ \A u \in Timer : In(b, u) <=> In(a, u)
  BY <1>1, <1>3, <1>7, DeactivateIs
<1>9. Good(b)
  BY <1>8 DEF Relisted
<1>10. /\ Good(q) /\ q.deadline = [b.deadline EXCEPT ![t] = (tick + b.init[t]) % TickRange]
       /\ q.list = b.list /\ q.active = b.active
       /\ q.init = b.init /\ q.periodic = b.periodic /\ q.stat = b.stat
       /\ \A u \in Timer : In(q, u) <=> In(b, u)
  BY <1>1, <1>4, <1>9, SetDeadlineIs
<1>11. ~In(q, t)
  BY <1>1, <1>6, <1>8, <1>10
<1>12. /\ Relisted(q, n) /\ n.active = [q.active EXCEPT ![t] = TRUE]
       /\ \A u \in Timer : In(n, u) <=> In(q, u) \/ u = t
       /\ \A x \in Lists \ {"hard"} : n.list[x] = q.list[x]
  <2>1. /\ Relisted(q, n) /\ n.active = [q.active EXCEPT ![t] = TRUE]
        /\ \A u \in Timer : In(n, u) <=> In(q, u) \/ u = t
        /\ \A x \in Lists \ {Kind(t)} : n.list[x] = q.list[x]
    <3>1. Good(q) /\ t \in Timer /\ ~In(q, t) /\ n = Link(q, t)
      BY <1>1, <1>5, <1>10, <1>11
    <3>. QED BY ONLY <3>1, LinkIs
  <2>. QED BY <1>1, <2>1
<1>13. n.list["soft"] = r.list["soft"]
  <2>1. "soft" \in Lists \ {"hard"}
    BY DEF Lists
  <2>. QED BY <1>6, <1>8, <1>10, <1>12, <2>1
<1>14. n.active = [r.active EXCEPT ![t] = TRUE]
  BY <1>6, <1>8, <1>10, <1>12
<1>15. \A u \in Timer : (In(n, u) <=> In(r, u) \/ u = t) /\ (In(q, u) => In(r, u))
  BY <1>6, <1>8, <1>10, <1>12
<1>16. KeepsOrder(r, q)
  BY <1>6, <1>8, <1>10 DEF KeepsOrder
<1>17. /\ Good(n)
       /\ n.init = r.init /\ n.periodic = r.periodic /\ n.stat = r.stat /\ q.deadline = n.deadline
       /\ n.deadline = [r.deadline EXCEPT ![t] = (tick + r.init[t]) % TickRange]
  BY <1>6, <1>8, <1>10, <1>12 DEF Relisted
<1>18. Joins(r, n, t)
  BY <1>5, <1>10, <1>11, <1>15, <1>16, <1>17 DEF Joins
<1>. QED BY <1>13, <1>14, <1>15, <1>17, <1>18

\* rt_thread_resume of the timer thread
LEMMA ResumeIs ==
  ASSUME NEW r, Good(r), NEW n, n = ResumeThread(r)
  PROVE  /\ Good(n) /\ n.stat = "ready"
         /\ n.deadline = r.deadline /\ n.init = r.init /\ n.periodic = r.periodic
         /\ r.stat = "ready" => n = r
         /\ r.stat = "suspend" =>
              /\ n.active = [r.active EXCEPT ![Delay] = FALSE]
              /\ \A u \in Timer : In(n, u) <=> In(r, u) /\ ~(u = Delay /\ r.active[Delay])
         /\ n.list["soft"] = r.list["soft"] /\ KeepsOrder(r, n)
<1>1. Delay \in Timer /\ Kind(Delay) = "hard"
  BY TimerAssumption DEF Timer, Kind
<1>2. CASE r.stat = "ready"
  <2>1. n = r
    BY <1>2 DEF ResumeThread
  <2>. QED BY <1>2, <2>1 DEF KeepsOrder
<1>3. CASE r.stat = "suspend"
  <2>1. PICK q : q = Stop(r, Delay)
    OBVIOUS
  <2>2. n = [q EXCEPT !.stat = "ready"]
    BY <1>3, <2>1 DEF ResumeThread
  <2>3. /\ Relisted(r, q) /\ q.active = [r.active EXCEPT ![Delay] = FALSE]
        /\ \A u \in Timer : In(q, u) <=> In(r, u) /\ ~(u = Delay /\ r.active[Delay])
        /\ \A x \in Lists \ {"hard"} : q.list[x] = r.list[x]
        /\ KeepsOrder(r, q)
    BY <1>1, <2>1, StopIs
  <2>4. q \in MType
    BY <2>3 DEF Relisted, Good
  <2>5. /\ n \in MType /\ n.stat = "ready" /\ n.list = q.list /\ n.active = q.active
        /\ n.deadline = q.deadline /\ n.init = q.init /\ n.periodic = q.periodic
    BY <2>2, <2>4 DEF MType
  <2>6. "soft" \in Lists \ {"hard"}
    BY DEF Lists
  <2>. QED BY <1>3, <2>3, <2>5, <2>6 DEF Relisted, Good, In, KeepsOrder
<1>4. r.stat \in {"ready", "suspend"}
  BY DEF Good, MType
<1>. QED BY <1>2, <1>3, <1>4

\* A timer is started again
Again(r, n, t) ==
  /\ r.periodic[t] /\ r.active[t] /\ n.active = [r.active EXCEPT ![t] = TRUE]
  /\ n.deadline = [r.deadline EXCEPT ![t] = (tick + r.init[t]) % TickRange]
  /\ \A u \in Timer : In(n, u) <=> In(r, u) \/ u = t
  /\ Joins(r, n, t)

\* or stays unlinked
Ended(r, n, t) ==
  /\ n.active = [r.active EXCEPT ![t] = FALSE]
  /\ n.deadline = r.deadline /\ n.list = r.list
  /\ \A u \in Timer : In(n, u) <=> In(r, u)

\* The end of a hard timer's function, which has run on no list of its own
LEMMA AfterIs ==
  ASSUME NEW r, Good(r), NEW t \in Hard, ~In(r, t), tick \in Ticks, NEW n, n = After(r, t)
  PROVE  /\ Good(n) /\ n.init = r.init /\ n.periodic = r.periodic /\ n.stat = r.stat
         /\ n.list["soft"] = r.list["soft"]
         /\ Again(r, n, t) \/ Ended(r, n, t)
<1>1. t \in Timer
  BY DEF Timer
<1>2. PICK d : d = Deactivate(r, t)
  OBVIOUS
<1>3. /\ Relisted(r, d) /\ d.active = [r.active EXCEPT ![t] = FALSE] /\ d.list = r.list
      /\ \A u \in Timer : In(d, u) <=> In(r, u)
  BY <1>1, <1>2, DeactivateIs
<1>4. Good(d) /\ r.active \in [Timer -> BOOLEAN]
  BY <1>3 DEF Relisted, Good, MType
<1>5. CASE r.periodic[t] /\ r.active[t]
  <2>1. n = Start(d, t)
    BY <1>2, <1>5 DEF After
  <2>2. /\ Good(n) /\ n.init = d.init /\ n.periodic = d.periodic /\ n.stat = d.stat
        /\ n.active = [d.active EXCEPT ![t] = TRUE]
        /\ n.deadline = [d.deadline EXCEPT ![t] = (tick + d.init[t]) % TickRange]
        /\ \A u \in Timer : In(n, u) <=> In(d, u) \/ u = t
        /\ n.list["soft"] = d.list["soft"]
        /\ Joins(d, n, t)
    BY <1>4, <2>1, StartIs
  <2>3. n.active = [r.active EXCEPT ![t] = TRUE]
    BY <1>3, <1>4, <2>2
  <2>4. Joins(r, n, t)
    BY <1>3, <2>2 DEF Joins, KeepsOrder
  <2>. QED BY <1>3, <1>5, <2>2, <2>3, <2>4 DEF Relisted, Again
<1>6. CASE ~(r.periodic[t] /\ r.active[t])
  <2>1. n = d
    BY <1>2, <1>6 DEF After
  <2>. QED BY <1>3, <1>4, <2>1 DEF Relisted, Ended
<1>. QED BY <1>5, <1>6

-----------------------------------------------------------------------------
(***************************************************************************)
(* The inductive invariant of the links.                                   *)
(***************************************************************************)

Call == {"deadline", "insert", "wake", "stop", "clear"}

Types ==
  /\ tick \in Ticks /\ Good(m)
  /\ pc \in [Context -> PC] /\ arg \in [Context -> Timer]
  /\ isr \in {"none", "check", "callback"}
  /\ fired \in [hard : Hard \cup {None}, soft : Soft \cup {None}]
  /\ scan \in [next : Ticks, now : Ticks, n : Soft \cup {None},
               back : {"after", "scan"}, ticks : 0..MaxLate]

CallerPart ==
  /\ use \in Uses
  /\ \A c \in Caller : pc[c] \in Call \cup {"run"} /\ (pc[c] \in Call => arg[c] \in use.ctrl[c])

\* Where the timer thread is, while it is suspended and while it runs a function
ThreadPart ==
  /\ pc[TimerThread] # "run"
  /\ pc[TimerThread] \in Call => arg[TimerThread] \in Soft
  /\ fired.soft # None
       <=> \/ pc[TimerThread] \in {"callback", "after"}
           \/ pc[TimerThread] \in Call /\ scan.back = "after"
  /\ pc[TimerThread] = "callback" => scan.back = "after"
  /\ fired.hard # None <=> isr = "callback"
  /\ m.stat = "suspend" => pc[TimerThread] = "check" /\ scan.ticks = 0
  /\ pc[TimerThread] \in {"look", "measure", "sleep", "suspend", "check"} => scan.n = None
  /\ pc[TimerThread] = "sleep" => scan.next < Half

Apart == {"deadline", "insert", "clear"}

\* What a call has unlinked stays so, and is nobody else's, until the call links it
ApartPart == \A c \in Context : pc[c] \in Apart => ~In(m, arg[c])

ClearPart ==
  \A c \in Context : pc[c] \in {"deadline", "insert"} => ~m.active[arg[c]] /\ arg[c] # fired.soft

SolePart ==
  \A c \in Caller : pc[c] \in Apart =>
    /\ arg[c] \notin {fired.hard, fired.soft, scan.n}
    /\ pc[TimerThread] \in {"deadline", "insert"} => arg[TimerThread] # arg[c]

FiredPart == \A t \in {fired.hard, fired.soft} \ {None} : ~In(m, t)

FlagPart == \A t \in Timer : ~Busy(t) => (m.active[t] <=> In(m, t))

DelayPart ==
  /\ In(m, Delay) => m.stat = "suspend"
  /\ ~m.periodic[Delay]
  /\ \A t \in Timer \ {Delay} : m.init[t] \in Times

LinkInv ==
  /\ Types /\ CallerPart /\ ThreadPart
  /\ ApartPart /\ ClearPart /\ SolePart /\ FiredPart /\ FlagPart /\ DelayPart

LEMMA TypesOK == TypeOK <=> Types
<1>1. m \in MType => (Good(m) <=>
        /\ ToSet(m.list["hard"]) \subseteq Hard /\ ToSet(m.list["soft"]) \subseteq Soft
        /\ \A x \in {"hard", "soft"} : IsInjective(m.list[x]))
  <2>1. SUFFICES ASSUME m \in MType
                 PROVE  Good(m) <=>
                          /\ ToSet(m.list["hard"]) \subseteq Hard /\ ToSet(m.list["soft"]) \subseteq Soft
                          /\ \A x \in Lists : IsInjective(m.list[x])
    BY DEF Lists
  <2>2. ASSUME NEW x \in Lists
        PROVE  /\ IsInjective(m.list[x]) <=> Distinct(m.list[x])
               /\ \A t : t \in ToSet(m.list[x]) <=> Contains(m.list[x], t)
               /\ \A t \in ToSet(m.list[x]) : t \in Timer
    <3>1. PICK s \in Seq(Timer) : s = m.list[x]
      BY <2>1 DEF MType
    <3>2. IsInjective(s) <=> Distinct(s)
      BY <3>1, DistinctList
    <3>3. DOMAIN s = 1..Len(s)
      BY <3>1
    <3>4. \A i \in 1..Len(s) : s[i] \in Timer
      BY <3>1, ElementOfSeq
    <3>. QED BY <3>1, <3>2, <3>3, <3>4 DEF ToSet, Contains
  <2>3. Good(m)
          <=> \A x \in Lists :
                Distinct(m.list[x]) /\ \A t \in Timer : Contains(m.list[x], t) => Kind(t) = x
    BY <2>1 DEF Good
  <2>. QED BY <2>2, <2>3, KindIs DEF Lists
<1>2. TypeOK => m \in MType /\ (Types => m \in MType)
  BY DEF TypeOK, MType, Lists
<1>3. CASE m \in MType
  BY <1>1, <1>3 DEF TypeOK, Types, MType, Lists, Ticks
<1>4. CASE m \notin MType
  BY <1>2, <1>4 DEF Types, Good
<1>. QED BY <1>3, <1>4

\* What a use leaves alone
LEMMA UseIs ==
  ASSUME use \in Uses, OneUser
  PROVE  /\ \A c \in Caller : use.ctrl[c] \subseteq Timer \ {Delay}
         /\ \A c, d \in Caller : c # d => use.ctrl[c] \cap use.ctrl[d] = {}
         /\ \A x \in Timer : \A op, t : <<op, t>> \in use.callback[x] =>
              /\ t \in Timer \ {Delay} /\ Kind(t) = Kind(x)
              /\ op = "start" => t # x /\ \A c \in Caller : t \notin use.ctrl[c]
<1>1. /\ use.ctrl \in [Caller -> SUBSET (Timer \ {Delay})]
      /\ use.callback \in [Timer -> SUBSET ({"start", "stop"} \X (Timer \ {Delay}))]
  BY TimerAssumption
<1>2. Exclusive(use)
  BY DEF OneUser
<1>3. ASSUME NEW x \in Timer, NEW op, NEW t, <<op, t>> \in use.callback[x]
      PROVE  /\ t \in Timer \ {Delay} /\ Kind(t) = Kind(x)
             /\ op = "start" => t # x /\ \A c \in Caller : t \notin use.ctrl[c]
  <2>1. PICK call : call = <<op, t>>
    OBVIOUS
  <2>2. call[1] = op /\ call[2] = t
    BY <2>1
  <2>3. call \in use.callback[x] /\ call \in {"start", "stop"} \X (Timer \ {Delay})
    BY <1>1, <1>3, <2>1
  <2>4. call[2] \in Timer \ {Delay}
    BY <2>3
  <2>. QED BY <1>2, <2>2, <2>3, <2>4 DEF Exclusive
<1>. QED BY <1>1, <1>2, <1>3 DEF Exclusive

LEMMA DelayIs == Delay \in Hard /\ Delay \in Timer /\ Delay \notin Soft /\ Kind(Delay) = "hard"
BY TimerAssumption DEF Timer, Kind

\* Nothing else goes on while a thread runs
LEMMA Runs ==
  ASSUME LinkInv, NEW c \in Context, NEW p, At(c, p)
  PROVE  /\ isr = "none" /\ fired.hard = None /\ pc[c] = p
         /\ c = TimerThread => m.stat = "ready"
         /\ c # TimerThread => /\ c \in Caller /\ m.stat = "suspend"
                               /\ pc[TimerThread] = "check"
                               /\ scan.n = None /\ fired.soft = None /\ scan.ticks = 0
BY TimerAssumption DEF LinkInv, ThreadPart, At, Context, Call

\* A call may begin only on a timer no other call has unlinked
LEMMA Begins ==
  ASSUME LinkInv, OneUser, NEW c \in Context, NEW t \in Timer, NEW op, MayCall(c, op, t)
  PROVE  /\ At(c, IF c = TimerThread THEN "callback" ELSE "run")
         /\ t # Delay
         /\ c # TimerThread => t \in use.ctrl[c] /\ \A d \in Caller \ {c} : t \notin use.ctrl[d]
         /\ c = TimerThread => /\ t \in Soft /\ fired.soft \in Soft /\ scan.back = "after"
                               /\ op = "start"
                                    => t # fired.soft /\ \A d \in Caller : t \notin use.ctrl[d]
<1>1. use \in Uses /\ fired.soft \in Soft \cup {None}
  BY DEF LinkInv, CallerPart, Types
<1>2. CASE c = TimerThread
  <2>1. At(c, "callback") /\ <<op, t>> \in use.callback[fired.soft]
    BY <1>2, TimerAssumption DEF MayCall
  <2>2. fired.soft # None /\ scan.back = "after"
    BY <1>2, <2>1 DEF LinkInv, ThreadPart, At
  <2>3. PICK x \in Timer : x = fired.soft /\ x \in Soft
    BY <1>1, <2>2 DEF Timer
  <2>4. /\ t # Delay /\ Kind(t) = Kind(x)
        /\ op = "start" => t # x /\ \A d \in Caller : t \notin use.ctrl[d]
    BY <1>1, <2>1, <2>3, UseIs
  <2>. QED BY <1>2, <2>1, <2>2, <2>3, <2>4, KindIs
<1>3. CASE c # TimerThread
  <2>1. c \in Caller /\ At(c, "run") /\ t \in use.ctrl[c]
    BY <1>3 DEF MayCall
  <2>. QED BY <1>1, <1>3, <2>1, UseIs
<1>. QED BY <1>2, <1>3

\* Two calls are about one timer only if one of them is the timer thread's
LEMMA InCall ==
  ASSUME LinkInv, OneUser, NEW c \in Context, pc[c] \in Call
  PROVE  /\ arg[c] \in Timer /\ arg[c] # Delay
         /\ c \in Caller => \A d \in Caller \ {c} : pc[d] \in Call => arg[d] # arg[c]
<1>1. use \in Uses /\ arg[c] \in Timer
  BY DEF LinkInv, CallerPart, Types
<1>2. CASE c = TimerThread
  BY <1>1, <1>2, TimerAssumption, DelayIs DEF LinkInv, ThreadPart
<1>3. CASE c # TimerThread
  <2>1. c \in Caller /\ arg[c] \in use.ctrl[c]
    BY <1>3 DEF LinkInv, CallerPart, Context
  <2>2. \A d \in Caller : pc[d] \in Call => arg[d] \in use.ctrl[d]
    BY DEF LinkInv, CallerPart
  <2>. QED BY <1>1, <2>1, <2>2, UseIs
<1>. QED BY <1>2, <1>3

\* The parts of the invariant are kept one by one, first with what a step does to m
LEMMA Typed ==
  ASSUME LinkInv, Good(m'), tick' \in Ticks, NEW c \in Context, NEW p \in PC, NEW t \in Timer,
         pc' = pc \/ pc' = [pc EXCEPT ![c] = p], arg' = arg \/ arg' = [arg EXCEPT ![c] = t],
         isr' = isr, fired' = fired, scan' = scan
  PROVE  Types'
BY DEF LinkInv, Types

LEMMA StartUnlinkKeeps ==
  ASSUME LinkInv, OneUser, NEW c \in Context, NEW t \in Timer, StartUnlink(c, t)
  PROVE  LinkInv'
<1>1. /\ At(c, IF c = TimerThread THEN "callback" ELSE "run") /\ t # Delay
      /\ c # TimerThread => t \in use.ctrl[c] /\ \A d \in Caller \ {c} : t \notin use.ctrl[d]
      /\ c = TimerThread => /\ t \in Soft /\ fired.soft \in Soft /\ scan.back = "after"
                            /\ t # fired.soft /\ \A d \in Caller : t \notin use.ctrl[d]
  BY Begins DEF StartUnlink
<1>2. /\ isr = "none" /\ fired.hard = None
      /\ c = TimerThread => m.stat = "ready" /\ pc[c] = "callback"
      /\ c # TimerThread => /\ c \in Caller /\ m.stat = "suspend" /\ pc[c] = "run"
                            /\ pc[TimerThread] = "check"
                            /\ scan.n = None /\ fired.soft = None /\ scan.ticks = 0
  BY <1>1, Runs
<1>3. /\ pc' = [pc EXCEPT ![c] = "deadline"] /\ arg' = [arg EXCEPT ![c] = t]
      /\ tick' = tick /\ isr' = isr /\ fired' = fired /\ use' = use /\ scan' = scan
  BY DEF StartUnlink, Goto
<1>4. PICK q : q = Unlink(m, t) /\ m' = Deactivate(q, t)
  BY DEF StartUnlink
<1>5. /\ Relisted(m, q) /\ q.active = m.active
      /\ \A u \in Timer : In(q, u) <=> In(m, u) /\ u # t
  BY <1>4, UnlinkIs DEF LinkInv, Types
<1>6. /\ Good(m') /\ m'.stat = m.stat /\ m'.init = m.init /\ m'.periodic = m.periodic
      /\ m'.active = [m.active EXCEPT ![t] = FALSE]
      /\ \A u \in Timer : In(m', u) <=> In(m, u) /\ u # t
  BY <1>4, <1>5, DeactivateIs DEF Relisted
<1>7. Types'
  BY <1>3, <1>6, Typed DEF LinkInv, Types, PC
<1>8. CallerPart'
  BY <1>1, <1>2, <1>3 DEF LinkInv, CallerPart, Types, Context, Call
<1>9. ThreadPart'
  BY <1>1, <1>2, <1>3, <1>6 DEF LinkInv, ThreadPart, Types, Context, Call
<1>10. ApartPart'
  BY <1>3, <1>6 DEF LinkInv, ApartPart, Types
<1>11. ClearPart'
  BY <1>1, <1>2, <1>3, <1>6, TimerAssumption DEF LinkInv, ClearPart, Types, Good, MType
<1>12. SolePart'
  BY <1>1, <1>2, <1>3, TimerAssumption DEF LinkInv, SolePart, CallerPart, Types, Context,
     Call, Apart, Timer
<1>13. FiredPart'
  BY <1>3, <1>6 DEF LinkInv, FiredPart, Types, Timer
<1>14. FlagPart'
  <2>1. pc'[c] = "deadline" /\ arg'[c] = t /\ pc[c] \in {"run", "callback"}
    BY <1>2, <1>3 DEF LinkInv, Types
  <2>2. \A d \in Context \ {c} : pc'[d] = pc[d] /\ arg'[d] = arg[d]
    BY <1>3 DEF LinkInv, Types
  <2>3. Busy(t)'
    BY <2>1 DEF Busy
  <2>4. ASSUME NEW x \in Timer, ~Busy(x)' PROVE ~Busy(x)
    BY <1>3, <2>1, <2>2, <2>4 DEF Busy
  <2>5. \A x \in Timer \ {t} : m'.active[x] = m.active[x] /\ (In(m', x) <=> In(m, x))
    BY <1>6 DEF LinkInv, Types, Good, MType
  <2>. QED BY <2>3, <2>4, <2>5 DEF LinkInv, FlagPart
<1>15. DelayPart'
  BY <1>3, <1>6, DelayIs DEF LinkInv, DelayPart
<1>. QED BY <1>7, <1>8, <1>9, <1>10, <1>11, <1>12, <1>13, <1>14, <1>15 DEF LinkInv

\* Where a call that goes on is, and what else is then going on
LEMMA Continues ==
  ASSUME LinkInv, OneUser, NEW c \in Context, NEW p \in Call, At(c, p)
  PROVE  /\ isr = "none" /\ fired.hard = None /\ pc[c] = p
         /\ arg[c] \in Timer /\ arg[c] # Delay
         /\ c # TimerThread => /\ c \in Caller /\ m.stat = "suspend"
                               /\ pc[TimerThread] = "check"
                               /\ scan.n = None /\ fired.soft = None /\ scan.ticks = 0
                               /\ \A d \in Caller \ {c} : pc[d] \in Call => arg[d] # arg[c]
         /\ c = TimerThread => m.stat = "ready" /\ (fired.soft # None <=> scan.back = "after")
<1>1. pc[c] \in Call
  BY Runs
<1>. QED BY <1>1, Runs, InCall DEF LinkInv, ThreadPart, Call

LEMMA StartDeadlineKeeps ==
  ASSUME LinkInv, OneUser, NEW c \in Context, StartDeadline(c)
  PROVE  LinkInv'
<1>1. /\ isr = "none" /\ fired.hard = None /\ pc[c] = "deadline" /\ arg[c] \in Timer
      /\ c # TimerThread => c \in Caller
  BY Continues DEF StartDeadline, Call
<1>2. /\ pc' = [pc EXCEPT ![c] = "insert"] /\ arg' = arg
      /\ tick' = tick /\ isr' = isr /\ fired' = fired /\ use' = use /\ scan' = scan
  BY DEF StartDeadline, Goto
<1>3. m' = SetDeadline(m, arg[c])
  BY DEF StartDeadline
<1>4. /\ Good(m') /\ m'.stat = m.stat /\ m'.init = m.init /\ m'.periodic = m.periodic
      /\ m'.active = m.active /\ \A u \in Timer : In(m', u) <=> In(m, u)
  BY <1>1, <1>3, SetDeadlineIs DEF LinkInv, Types
<1>5. Types'
  BY <1>1, <1>2, <1>4, Typed DEF LinkInv, Types, PC
<1>6. CallerPart'
  BY <1>1, <1>2 DEF LinkInv, CallerPart, Types, Context, Call
<1>7. ThreadPart'
  BY <1>1, <1>2, <1>4 DEF LinkInv, ThreadPart, Types, Context, Call
<1>8. ApartPart'
  BY <1>1, <1>2, <1>4 DEF LinkInv, ApartPart, Types, Apart
<1>9. ClearPart'
  BY <1>1, <1>2, <1>4 DEF LinkInv, ClearPart, Types
<1>10. SolePart'
  BY <1>1, <1>2 DEF LinkInv, SolePart, Types, Context, Apart
<1>11. FiredPart'
  BY <1>2, <1>4 DEF LinkInv, FiredPart, Types, Timer
<1>12. FlagPart'
  BY <1>1, <1>2, <1>4 DEF LinkInv, FlagPart, Busy, Types, Context
<1>13. DelayPart'
  BY <1>2, <1>4, DelayIs DEF LinkInv, DelayPart
<1>. QED BY <1>5, <1>6, <1>7, <1>8, <1>9, <1>10, <1>11, <1>12, <1>13 DEF LinkInv

LEMMA StartInsertKeeps ==
  ASSUME LinkInv, OneUser, NEW c \in Context, StartInsert(c)
  PROVE  LinkInv'
<1>1. PICK t : t = arg[c]
  OBVIOUS
<1>2. /\ isr = "none" /\ fired.hard = None /\ pc[c] = "insert" /\ t \in Timer /\ t # Delay
      /\ c # TimerThread => /\ c \in Caller /\ m.stat = "suspend" /\ pc[TimerThread] = "check"
                            /\ scan.n = None /\ fired.soft = None
                            /\ \A d \in Caller \ {c} : pc[d] \in Call => arg[d] # t
      /\ c = TimerThread => m.stat = "ready" /\ (fired.soft # None <=> scan.back = "after")
  BY <1>1, Continues DEF StartInsert, Call
<1>3. PICK p \in PC :
        /\ pc' = [pc EXCEPT ![c] = p] /\ arg' = arg
        /\ p = "wake" \/ p = IF c = TimerThread THEN scan.back ELSE "run"
        /\ c = TimerThread => p = "wake"
  <2>1. c = TimerThread => t \in Soft
    BY <1>1, <1>2 DEF LinkInv, ThreadPart, Call
  <2>. QED BY <1>1, <2>1 DEF StartInsert, Goto, Return, PC
<1>4. tick' = tick /\ isr' = isr /\ fired' = fired /\ use' = use /\ scan' = scan
  BY DEF StartInsert
<1>5. ~In(m, t) /\ t # fired.soft
  BY <1>1, <1>2 DEF LinkInv, ApartPart, ClearPart, Apart
<1>6. /\ Good(m') /\ m'.stat = m.stat /\ m'.init = m.init /\ m'.periodic = m.periodic
      /\ m'.active = [m.active EXCEPT ![t] = TRUE]
      /\ \A u \in Timer : In(m', u) <=> In(m, u) \/ u = t
  <2>1. m' = Link(m, t)
    BY <1>1 DEF StartInsert
  <2>2. Good(m)
    BY DEF LinkInv, Types
  <2>3. /\ Relisted(m, m') /\ m'.active = [m.active EXCEPT ![t] = TRUE]
        /\ \A u \in Timer : In(m', u) <=> In(m, u) \/ u = t
    BY <1>2, <1>5, <2>1, <2>2, LinkIs
  <2>. QED BY <2>3 DEF Relisted
<1>7. Types'
  BY <1>3, <1>4, <1>6, Typed DEF LinkInv, Types
<1>8. CallerPart'
  BY <1>2, <1>3, <1>4 DEF LinkInv, CallerPart, Types, Context, Call
<1>9. ThreadPart'
  BY <1>2, <1>3, <1>4, <1>6 DEF LinkInv, ThreadPart, Types, Context, Call
<1>10. ASSUME NEW d \in Context, pc'[d] \in Apart PROVE pc[d] = pc'[d] /\ d # c /\ arg[d] # t
  <2>1. pc[d] = pc'[d] /\ d # c
    BY <1>3, <1>10 DEF LinkInv, Types, Apart
  <2>2. d \in Caller => pc[d] \in Call
    BY <1>10, <2>1 DEF LinkInv, CallerPart, Apart, Call
  <2>3. CASE c = TimerThread
    BY <1>1, <1>2, <1>10, <2>1, <2>3 DEF LinkInv, SolePart, Context
  <2>4. CASE c # TimerThread
    BY <1>2, <1>10, <2>1, <2>2, <2>4 DEF Context, Apart
  <2>. QED BY <2>1, <2>3, <2>4
<1>11. ApartPart'
  BY <1>3, <1>6, <1>10 DEF LinkInv, ApartPart, Types
<1>12. ClearPart'
  BY <1>3, <1>4, <1>6, <1>10 DEF LinkInv, ClearPart, Types, Good, MType, Apart
<1>13. SolePart'
  BY <1>2, <1>3, <1>4, <1>10 DEF LinkInv, SolePart, Types, Context
<1>14. FiredPart'
  BY <1>2, <1>4, <1>5, <1>6 DEF LinkInv, FiredPart, Types, Timer
<1>15. FlagPart'
  BY <1>1, <1>2, <1>3, <1>4, <1>6 DEF LinkInv, FlagPart, Busy, Types, Good, MType
<1>16. DelayPart'
  BY <1>2, <1>4, <1>6, DelayIs DEF LinkInv, DelayPart
<1>. QED BY <1>7, <1>8, <1>9, <1>11, <1>12, <1>13, <1>14, <1>15, <1>16 DEF LinkInv

LEMMA StartWakeKeeps ==
  ASSUME LinkInv, OneUser, NEW c \in Context, StartWake(c)
  PROVE  LinkInv'
<1>1. /\ isr = "none" /\ fired.hard = None /\ pc[c] = "wake"
      /\ c # TimerThread => /\ c \in Caller /\ m.stat = "suspend" /\ pc[TimerThread] = "check"
                            /\ scan.n = None /\ fired.soft = None /\ scan.ticks = 0
      /\ c = TimerThread => m.stat = "ready" /\ (fired.soft # None <=> scan.back = "after")
  BY Continues DEF StartWake, Call
<1>2. PICK p \in PC :
        /\ pc' = [pc EXCEPT ![c] = p] /\ arg' = arg
        /\ p = IF c = TimerThread THEN scan.back ELSE "run"
  BY DEF StartWake, Goto, Return, PC, LinkInv, Types
<1>3. tick' = tick /\ isr' = isr /\ fired' = fired /\ use' = use /\ scan' = scan
  BY DEF StartWake
<1>4. /\ Good(m') /\ m'.stat = "ready" /\ m'.init = m.init /\ m'.periodic = m.periodic
      /\ m.stat = "ready" => m' = m
      /\ m.stat = "suspend" =>
           /\ m'.active = [m.active EXCEPT ![Delay] = FALSE]
           /\ \A u \in Timer : In(m', u) <=> In(m, u) /\ ~(u = Delay /\ m.active[Delay])
  BY ResumeIs DEF StartWake, LinkInv, Types
<1>5. ~Busy(Delay)
  <2>1. \A d \in Context : pc[d] \in Call => arg[d] # Delay
    BY InCall
  <2>. QED BY <1>1, <2>1, DelayIs, TimerAssumption DEF Busy, Call, LinkInv, Types
<1>6. m.active[Delay] <=> In(m, Delay)
  BY <1>5, DelayIs DEF LinkInv, FlagPart
<1>7. /\ \A u \in Timer : In(m', u) => In(m, u)
      /\ \A u \in Timer \ {Delay} : (In(m', u) <=> In(m, u)) /\ m'.active[u] = m.active[u]
      /\ ~In(m', Delay) /\ ~m'.active[Delay]
  <2>1. m.stat = "ready" => ~In(m, Delay)
    BY DEF LinkInv, DelayPart
  <2>2. m.stat \in {"ready", "suspend"} /\ m.active \in [Timer -> BOOLEAN]
    BY DEF LinkInv, Types, Good, MType
  <2>. QED BY <1>4, <1>6, <2>1, <2>2, DelayIs
<1>8. Types'
  BY <1>2, <1>3, <1>4, Typed DEF LinkInv, Types
<1>9. CallerPart'
  BY <1>1, <1>2, <1>3, TimerAssumption DEF LinkInv, CallerPart, Types, Context, Call
<1>10. ThreadPart'
  BY <1>1, <1>2, <1>3, <1>4 DEF LinkInv, ThreadPart, Types, Context, Call
<1>11. \A d \in Context : pc'[d] \in Apart => pc[d] = pc'[d]
  BY <1>2 DEF LinkInv, Types, Apart
<1>12. ApartPart'
  BY <1>2, <1>7, <1>11 DEF LinkInv, ApartPart, Types
<1>13. ClearPart'
  BY <1>2, <1>3, <1>7, <1>11 DEF LinkInv, ClearPart, Types, Apart
<1>14. SolePart'
  BY <1>2, <1>3, <1>11 DEF LinkInv, SolePart, Types, Context, Apart
<1>15. FiredPart'
  BY <1>3, <1>7 DEF LinkInv, FiredPart, Types, Timer
<1>16. FlagPart'
  BY <1>1, <1>2, <1>3, <1>7 DEF LinkInv, FlagPart, Busy, Types
<1>17. DelayPart'
  BY <1>3, <1>4, <1>7 DEF LinkInv, DelayPart
<1>. QED BY <1>8, <1>9, <1>10, <1>12, <1>13, <1>14, <1>15, <1>16, <1>17 DEF LinkInv

LEMMA StopTestKeeps ==
  ASSUME LinkInv, OneUser, NEW c \in Context, NEW t \in Timer, StopTest(c, t)
  PROVE  LinkInv'
<1>1. /\ At(c, IF c = TimerThread THEN "callback" ELSE "run") /\ t # Delay
      /\ c # TimerThread => t \in use.ctrl[c]
      /\ c = TimerThread => t \in Soft /\ fired.soft \in Soft /\ scan.back = "after"
  BY Begins DEF StopTest
<1>2. /\ isr = "none" /\ fired.hard = None
      /\ c = TimerThread => m.stat = "ready" /\ pc[c] = "callback"
      /\ c # TimerThread => /\ c \in Caller /\ m.stat = "suspend" /\ pc[c] = "run"
                            /\ pc[TimerThread] = "check"
  BY <1>1, Runs
<1>3. /\ pc' = [pc EXCEPT ![c] = "stop"] /\ arg' = [arg EXCEPT ![c] = t] /\ m' = m
      /\ tick' = tick /\ isr' = isr /\ fired' = fired /\ use' = use /\ scan' = scan
  BY DEF StopTest, Goto
<1>4. Types'
  BY <1>3, Typed DEF LinkInv, Types, PC
<1>5. CallerPart'
  BY <1>1, <1>2, <1>3 DEF LinkInv, CallerPart, Types, Context, Call
<1>6. ThreadPart'
  BY <1>1, <1>2, <1>3, TimerAssumption DEF LinkInv, ThreadPart, Types, Context, Call
<1>7. \A d \in Context : pc'[d] \in Apart => pc[d] = pc'[d] /\ arg[d] = arg'[d]
  BY <1>3 DEF LinkInv, Types, Apart
<1>8. ApartPart'
  BY <1>3, <1>7 DEF LinkInv, ApartPart
<1>9. ClearPart'
  BY <1>3, <1>7 DEF LinkInv, ClearPart, Apart
<1>10. SolePart'
  BY <1>3, <1>7 DEF LinkInv, SolePart, Context, Apart
<1>11. FiredPart'
  BY <1>3 DEF LinkInv, FiredPart
<1>12. FlagPart'
  BY <1>1, <1>2, <1>3 DEF LinkInv, FlagPart, Busy, Types
<1>13. DelayPart'
  BY <1>3 DEF LinkInv, DelayPart
<1>. QED BY <1>4, <1>5, <1>6, <1>8, <1>9, <1>10, <1>11, <1>12, <1>13 DEF LinkInv

LEMMA StopUnlinkKeeps ==
  ASSUME LinkInv, OneUser, NEW c \in Context, StopUnlink(c)
  PROVE  LinkInv'
<1>1. PICK t : t = arg[c]
  OBVIOUS
<1>2. /\ isr = "none" /\ fired.hard = None /\ pc[c] = "stop" /\ t \in Timer /\ t # Delay
      /\ c # TimerThread => /\ c \in Caller /\ m.stat = "suspend" /\ pc[TimerThread] = "check"
                            /\ scan.n = None /\ fired.soft = None
      /\ c = TimerThread => m.stat = "ready"
  BY <1>1, Continues DEF StopUnlink, Call
<1>3. /\ pc' = [pc EXCEPT ![c] = "clear"] /\ arg' = arg
      /\ tick' = tick /\ isr' = isr /\ fired' = fired /\ use' = use /\ scan' = scan
  BY DEF StopUnlink, Goto
<1>4. m' = Unlink(m, t)
  BY <1>1 DEF StopUnlink
<1>5. /\ Good(m') /\ m'.stat = m.stat /\ m'.init = m.init /\ m'.periodic = m.periodic
      /\ m'.active = m.active
      /\ \A u \in Timer : In(m', u) <=> In(m, u) /\ u # t
  <2>1. Good(m) /\ t \in Timer
    BY <1>2 DEF LinkInv, Types
  <2>2. PICK n : n = Unlink(m, t)
    OBVIOUS
  <2>3. /\ Relisted(m, n) /\ n.active = m.active
        /\ \A u \in Timer : In(n, u) <=> In(m, u) /\ u # t
    BY ONLY <2>1, <2>2, UnlinkIs
  <2>. QED BY <1>4, <2>2, <2>3 DEF Relisted
<1>6. Types'
  BY <1>1, <1>2, <1>3, <1>5, Typed DEF LinkInv, Types, PC
<1>7. CallerPart'
  BY <1>2, <1>3 DEF LinkInv, CallerPart, Types, Context, Call
<1>8. ThreadPart'
  BY <1>2, <1>3, <1>5 DEF LinkInv, ThreadPart, Types, Context, Call
<1>9. ApartPart'
  BY <1>1, <1>3, <1>5 DEF LinkInv, ApartPart, Types
<1>10. ClearPart'
  BY <1>3, <1>5 DEF LinkInv, ClearPart, Types
<1>11. SolePart'
  BY <1>1, <1>2, <1>3, TimerAssumption DEF LinkInv, SolePart, Types, Context, Apart
<1>12. FiredPart'
  BY <1>3, <1>5 DEF LinkInv, FiredPart, Types, Timer
<1>13. FlagPart'
  BY <1>1, <1>2, <1>3, <1>5 DEF LinkInv, FlagPart, Busy, Types
<1>14. DelayPart'
  BY <1>3, <1>5, DelayIs DEF LinkInv, DelayPart
<1>. QED BY <1>6, <1>7, <1>8, <1>9, <1>10, <1>11, <1>12, <1>13, <1>14 DEF LinkInv

LEMMA StopClearKeeps ==
  ASSUME LinkInv, OneUser, NEW c \in Context, StopClear(c)
  PROVE  LinkInv'
<1>1. PICK t : t = arg[c]
  OBVIOUS
<1>2. /\ isr = "none" /\ fired.hard = None /\ pc[c] = "clear" /\ t \in Timer /\ t # Delay
      /\ c # TimerThread => /\ c \in Caller /\ m.stat = "suspend" /\ pc[TimerThread] = "check"
                            /\ scan.n = None /\ fired.soft = None
      /\ c = TimerThread => m.stat = "ready" /\ (fired.soft # None <=> scan.back = "after")
  BY <1>1, Continues DEF StopClear, Call
<1>3. PICK p \in PC :
        /\ pc' = [pc EXCEPT ![c] = p] /\ arg' = arg
        /\ p = IF c = TimerThread THEN scan.back ELSE "run"
  BY DEF StopClear, Goto, Return, PC, LinkInv, Types
<1>4. tick' = tick /\ isr' = isr /\ fired' = fired /\ use' = use /\ scan' = scan
  BY DEF StopClear
<1>5. /\ Good(m') /\ m'.stat = m.stat /\ m'.init = m.init /\ m'.periodic = m.periodic
      /\ m'.active = [m.active EXCEPT ![t] = FALSE]
      /\ \A u \in Timer : In(m', u) <=> In(m, u)
  <2>1. Good(m) /\ t \in Timer
    BY <1>2 DEF LinkInv, Types
  <2>2. PICK n : n = Deactivate(m, t)
    OBVIOUS
  <2>3. /\ Relisted(m, n) /\ n.active = [m.active EXCEPT ![t] = FALSE]
        /\ \A u \in Timer : In(n, u) <=> In(m, u)
    BY ONLY <2>1, <2>2, DeactivateIs
  <2>4. m' = n
    BY <1>1, <2>2 DEF StopClear
  <2>. QED BY <2>3, <2>4 DEF Relisted
<1>6. ~In(m, t)
  BY <1>1, <1>2 DEF LinkInv, ApartPart, Apart
<1>7. Types'
  BY <1>3, <1>4, <1>5, Typed DEF LinkInv, Types
<1>8. CallerPart'
  BY <1>2, <1>3, <1>4, TimerAssumption DEF LinkInv, CallerPart, Types, Context, Call
<1>9. ThreadPart'
  BY <1>2, <1>3, <1>4, <1>5 DEF LinkInv, ThreadPart, Types, Context, Call
<1>10. \A d \in Context : pc'[d] \in Apart => pc[d] = pc'[d]
  BY <1>3 DEF LinkInv, Types, Apart
<1>11. ApartPart'
  BY <1>3, <1>5, <1>10 DEF LinkInv, ApartPart, Types
<1>12. ClearPart'
  BY <1>3, <1>4, <1>5, <1>10 DEF LinkInv, ClearPart, Types, Good, MType, Apart
<1>13. SolePart'
  BY <1>2, <1>3, <1>4, <1>10 DEF LinkInv, SolePart, Types, Context, Apart
<1>14. FiredPart'
  BY <1>4, <1>5 DEF LinkInv, FiredPart, Types, Timer
<1>15. FlagPart'
  BY <1>1, <1>2, <1>3, <1>4, <1>5, <1>6 DEF LinkInv, FlagPart, Busy, Types, Good, MType
<1>16. DelayPart'
  BY <1>4, <1>5, DelayIs DEF LinkInv, DelayPart
<1>. QED BY <1>7, <1>8, <1>9, <1>11, <1>12, <1>13, <1>14, <1>15, <1>16 DEF LinkInv

LEMMA ControlKeeps ==
  ASSUME LinkInv, OneUser, NEW c \in Context, NEW t \in Timer, Control(c, t)
  PROVE  LinkInv'
<1>1. c \in Caller /\ t \in use.ctrl[c] /\ use \in Uses
  BY DEF Control, LinkInv, CallerPart
<1>2. t # Delay
  BY <1>1, UseIs
<1>3. PICK o \in [init : Times, periodic : BOOLEAN] :
        m' = [m EXCEPT !.init[t] = o.init] \/ m' = [m EXCEPT !.periodic[t] = o.periodic]
  <2>1. use.command[t] \subseteq [init : Times, periodic : BOOLEAN]
    BY <1>1, TimerAssumption
  <2>. QED BY <2>1 DEF Control
<1>4. /\ pc' = pc /\ arg' = arg
      /\ tick' = tick /\ isr' = isr /\ fired' = fired /\ use' = use /\ scan' = scan
  BY DEF Control
<1>5. /\ Good(m') /\ m'.stat = m.stat /\ m'.active = m.active
      /\ \A u \in Timer : In(m', u) <=> In(m, u)
      /\ m'.periodic[Delay] = m.periodic[Delay]
      /\ \A u \in Timer : m'.init[u] = m.init[u] \/ (u = t /\ m'.init[u] \in Times)
  <2>1. Good(m) /\ m \in MType
    BY DEF LinkInv, Types, Good
  <2>2. o.init \in Times /\ o.init \in 0..(Half - 1) /\ o.periodic \in BOOLEAN
    BY <1>3, TimerAssumption, TickSizes
  <2>3. CASE m' = [m EXCEPT !.init[t] = o.init]
    <3>1. PICK i \in [Timer -> 0..(Half - 1)] : i = [m.init EXCEPT ![t] = o.init]
      BY <2>1, <2>2 DEF MType
    <3>2. m' = [m EXCEPT !.init = i]
      BY <2>3, <3>1
    <3>3. /\ m' \in MType /\ m'.stat = m.stat /\ m'.active = m.active /\ m'.list = m.list
          /\ m'.periodic = m.periodic /\ m'.init = i
      BY <2>1, <3>2 DEF MType
    <3>4. \A u \in Timer : i[u] = m.init[u] \/ (u = t /\ i[u] = o.init)
      <4>1. PICK j \in [Timer -> 0..(Half - 1)] : j = m.init
        BY <2>1 DEF MType
      <4>2. PICK n : n = o.init
        OBVIOUS
      <4>3. i = [j EXCEPT ![t] = n]
        BY <3>1, <4>1, <4>2
      <4>4. \A u \in Timer : i[u] = IF u = t THEN n ELSE j[u]
        BY <4>3
      <4>. QED BY <4>1, <4>2, <4>4
    <3>. QED BY <2>1, <2>2, <3>3, <3>4 DEF Good, In
  <2>4. CASE m' = [m EXCEPT !.periodic[t] = o.periodic]
    <3>1. PICK i \in [Timer -> BOOLEAN] : i = [m.periodic EXCEPT ![t] = o.periodic]
      BY <2>1, <2>2 DEF MType
    <3>2. m' = [m EXCEPT !.periodic = i]
      BY <2>4, <3>1
    <3>3. /\ m' \in MType /\ m'.stat = m.stat /\ m'.active = m.active /\ m'.list = m.list
          /\ m'.periodic = i /\ m'.init = m.init
      BY <2>1, <3>2 DEF MType
    <3>4. i[Delay] = m.periodic[Delay]
      BY <1>2, <2>1, <3>1, DelayIs DEF MType
    <3>5. Good(m') /\ \A u \in Timer : In(m', u) <=> In(m, u)
      BY <2>1, <3>3 DEF Good, In
    <3>. QED BY <3>3, <3>4, <3>5
  <2>. QED BY <1>3, <2>3, <2>4
<1>6. Types'
  BY <1>4, <1>5 DEF LinkInv, Types
<1>7. CallerPart' /\ ThreadPart' /\ SolePart'
  BY <1>4, <1>5 DEF LinkInv, CallerPart, ThreadPart, SolePart
<1>8. ApartPart' /\ ClearPart'
  BY <1>4, <1>5 DEF LinkInv, ApartPart, ClearPart, Types
<1>9. FiredPart'
  BY <1>4, <1>5 DEF LinkInv, FiredPart, Types, Timer
<1>10. FlagPart'
  BY <1>4, <1>5 DEF LinkInv, FlagPart, Busy
<1>11. DelayPart'
  BY <1>4, <1>5, DelayIs DEF LinkInv, DelayPart
<1>. QED BY <1>6, <1>7, <1>8, <1>9, <1>10, <1>11 DEF LinkInv

LEMMA DetachKeeps ==
  ASSUME LinkInv, OneUser, NEW c \in Context, NEW t \in Timer, Detach(c, t)
  PROVE  LinkInv'
<1>1. c \in Caller /\ t \in use.ctrl[c] /\ use \in Uses /\ At(c, "run")
  BY DEF Detach, LinkInv, CallerPart
<1>2. t # Delay
  BY <1>1, UseIs
<1>3. /\ pc' = pc /\ arg' = arg
      /\ tick' = tick /\ isr' = isr /\ fired' = fired /\ use' = use /\ scan' = scan
  BY DEF Detach
<1>4. PICK q : q = Unlink(m, t)
  OBVIOUS
<1>5. PICK r : r = Deactivate(q, t)
  OBVIOUS
<1>6. m' = [r EXCEPT !.init[t] = Created[t].init, !.periodic[t] = Created[t].periodic]
  BY <1>4, <1>5 DEF Detach
<1>7. /\ Relisted(m, q) /\ q.active = m.active
      /\ \A u \in Timer : In(q, u) <=> In(m, u) /\ u # t
  BY <1>4, UnlinkIs DEF LinkInv, Types
<1>8. /\ Good(r) /\ r.stat = m.stat /\ r.init = m.init /\ r.periodic = m.periodic
      /\ r.active = [m.active EXCEPT ![t] = FALSE]
      /\ \A u \in Timer : In(r, u) <=> In(m, u) /\ u # t
  BY <1>5, <1>7, DeactivateIs DEF Relisted
<1>9. /\ Good(m') /\ m'.stat = m.stat /\ m'.periodic[Delay] = m.periodic[Delay]
      /\ m'.active = [m.active EXCEPT ![t] = FALSE]
      /\ \A u \in Timer : In(m', u) <=> In(m, u) /\ u # t
      /\ \A u \in Timer : m'.init[u] = m.init[u] \/ (u = t /\ m'.init[u] \in Times)
  <2>1. PICK j, b : j = Created[t].init /\ b = Created[t].periodic
    OBVIOUS
  <2>2. j \in Times /\ j \in 0..(Half - 1) /\ b \in BOOLEAN
    <3>1. Created \in [Timer -> [init : Times, periodic : BOOLEAN]]
      BY TimerAssumption
    <3>2. j \in Times /\ b \in BOOLEAN
      BY <2>1, <3>1
    <3>3. Times \subseteq 1..(Half - 1)
      BY TimerAssumption
    <3>. QED BY <3>2, <3>3, TickSizes
  <2>3. PICK f \in [Timer -> 0..(Half - 1)], g \in [Timer -> BOOLEAN] : f = r.init /\ g = r.periodic
    BY <1>8 DEF Good, MType
  <2>4. PICK h, k : h = [f EXCEPT ![t] = j] /\ k = [g EXCEPT ![t] = b]
    OBVIOUS
  <2>5. h \in [Timer -> 0..(Half - 1)] /\ k \in [Timer -> BOOLEAN]
    BY <2>2, <2>3, <2>4
  <2>6. m' = [r EXCEPT !.init = h, !.periodic = k]
    BY <1>6, <2>1, <2>3, <2>4
  <2>7. /\ m' \in MType /\ m'.stat = r.stat /\ m'.active = r.active /\ m'.list = r.list
        /\ m'.init = h /\ m'.periodic = k
    BY <1>8, <2>5, <2>6 DEF Good, MType
  <2>8. k[Delay] = g[Delay] /\ \A u \in Timer : h[u] = f[u] \/ (u = t /\ h[u] = j)
    BY <1>2, <2>4, DelayIs
  <2>9. Good(m') /\ \A u \in Timer : In(m', u) <=> In(r, u)
    BY <1>8, <2>7 DEF Good, In
  <2>. QED BY <1>8, <2>2, <2>3, <2>7, <2>8, <2>9
<1>10. Types'
  BY <1>3, <1>9 DEF LinkInv, Types
<1>11. CallerPart' /\ ThreadPart' /\ SolePart'
  BY <1>3, <1>9 DEF LinkInv, CallerPart, ThreadPart, SolePart
<1>12. ApartPart' /\ ClearPart'
  BY <1>3, <1>9 DEF LinkInv, ApartPart, ClearPart, Types, Good, MType
<1>13. FiredPart'
  BY <1>3, <1>9 DEF LinkInv, FiredPart, Types, Timer
<1>14. FlagPart'
  <2>1. \A x \in Timer : Busy(x)' <=> Busy(x)
    BY <1>3 DEF Busy
  <2>2. \A x \in Timer : m'.active[x] = IF x = t THEN FALSE ELSE m.active[x]
    BY <1>9 DEF LinkInv, Types, Good, MType
  <2>. QED BY <1>9, <2>1, <2>2 DEF LinkInv, FlagPart
<1>15. DelayPart'
  BY <1>3, <1>9, DelayIs DEF LinkInv, DelayPart
<1>. QED BY <1>10, <1>11, <1>12, <1>13, <1>14, <1>15 DEF LinkInv

LEMMA TickKeeps ==
  ASSUME LinkInv, Tick
  PROVE  LinkInv'
<1>1. /\ pc' = pc /\ arg' = arg /\ fired' = fired /\ use' = use
      /\ isr = "none" /\ isr' = "check"
      /\ scan' = [scan EXCEPT !.ticks = IF m.stat = "ready" THEN @ + 1 ELSE @]
  BY DEF Tick
<1>2. tick' \in Ticks
  <2>1. 1 \in Ticks /\ tick \in Ticks
    BY TickSizes DEF Ticks, LinkInv, Types
  <2>. QED BY <2>1, SumIs DEF Tick
<1>3. /\ Good(m') /\ m'.stat = m.stat /\ m'.active = m.active
      /\ m'.init = m.init /\ m'.periodic = m.periodic
      /\ \A u \in Timer : In(m', u) <=> In(m, u)
  <2>1. PICK d : d = [t \in Timer |-> IF Read(t) THEN m.deadline[t] ELSE 0]
    OBVIOUS
  <2>2. Good(m) /\ m \in MType
    BY DEF LinkInv, Types, Good
  <2>3. d \in [Timer -> 0..TickMax]
    BY <2>1, <2>2, TickSizes DEF MType
  <2>4. m' = [m EXCEPT !.deadline = d]
    BY <2>1 DEF Tick
  <2>5. /\ m' \in MType /\ m'.stat = m.stat /\ m'.active = m.active /\ m'.list = m.list
        /\ m'.init = m.init /\ m'.periodic = m.periodic
    BY <2>2, <2>3, <2>4 DEF MType
  <2>6. Good(m') /\ \A u \in Timer : In(m', u) <=> In(m, u)
    BY <2>2, <2>5 DEF Good, In
  <2>. QED BY <2>5, <2>6
<1>4. /\ scan'.next = scan.next /\ scan'.now = scan.now /\ scan'.n = scan.n /\ scan'.back = scan.back
      /\ scan'.ticks \in 0..MaxLate /\ scan' \in [next : Ticks, now : Ticks, n : Soft \cup {None},
                                                 back : {"after", "scan"}, ticks : 0..MaxLate]
      /\ m.stat = "suspend" => scan'.ticks = scan.ticks
  <2>1. m.stat = "ready" => scan.ticks < MaxLate
    BY DEF Tick, Timely
  <2>2. scan.ticks \in 0..MaxLate /\ MaxLate \in Nat
    BY TimerAssumption DEF LinkInv, Types
  <2>. QED BY <1>1, <2>1, <2>2 DEF LinkInv, Types
<1>5. Types'
  BY <1>1, <1>2, <1>3, <1>4 DEF LinkInv, Types
<1>6. CallerPart'
  BY <1>1 DEF LinkInv, CallerPart
<1>7. ThreadPart'
  BY <1>1, <1>3, <1>4 DEF LinkInv, ThreadPart
<1>8. SolePart'
  BY <1>1, <1>4 DEF LinkInv, SolePart
<1>9. ApartPart' /\ ClearPart'
  BY <1>1, <1>3 DEF LinkInv, ApartPart, ClearPart, Types
<1>10. FiredPart'
  BY <1>1, <1>3 DEF LinkInv, FiredPart, Types, Timer
<1>11. FlagPart'
  BY <1>1, <1>3 DEF LinkInv, FlagPart, Busy
<1>12. DelayPart'
  BY <1>1, <1>3, DelayIs DEF LinkInv, DelayPart
<1>. QED BY <1>5, <1>6, <1>7, <1>8, <1>9, <1>10, <1>11, <1>12 DEF LinkInv

\* The first hard timer
LEMMA HardHead ==
  ASSUME Good(m), m.list["hard"] # <<>>
  PROVE  Head(m.list["hard"]) \in Hard /\ In(m, Head(m.list["hard"]))
<1>1. PICK s \in Seq(Timer) : s = m.list["hard"]
  BY DEF Good, MType, Lists
<1>2. Head(s) \in Timer /\ Contains(s, Head(s))
  BY <1>1, HeadList
<1>3. Kind(Head(s)) = "hard"
  BY <1>1, <1>2 DEF Good, Lists
<1>. QED BY <1>1, <1>2, <1>3, KindIs DEF In

LEMMA CheckFireKeeps ==
  ASSUME LinkInv, CheckFire
  PROVE  LinkInv'
<1>1. PICK t : t = Head(m.list["hard"])
  OBVIOUS
<1>2. t \in Hard /\ t \in Timer /\ In(m, t)
  BY <1>1, HardHead DEF CheckFire, HardDue, LinkInv, Types, Timer
<1>3. /\ pc' = pc /\ arg' = arg /\ use' = use /\ tick' = tick /\ scan' = scan
      /\ isr = "check" /\ isr' = "callback" /\ fired' = [fired EXCEPT !.hard = t]
  BY <1>1 DEF CheckFire
<1>4. /\ Good(m') /\ m'.stat = m.stat /\ m'.init = m.init /\ m'.periodic = m.periodic
      /\ m'.active = m.active
      /\ \A u \in Timer : In(m', u) <=> In(m, u) /\ u # t
  BY <1>1, <1>2, UnlinkIs DEF CheckFire, LinkInv, Types, Relisted
<1>5. /\ fired'.hard = t /\ fired'.soft = fired.soft /\ fired.hard = None /\ t # None
      /\ fired' \in [hard : Hard \cup {None}, soft : Soft \cup {None}]
  BY <1>2, <1>3, TimerAssumption DEF LinkInv, Types, ThreadPart
<1>6. Types'
  BY <1>3, <1>4, <1>5 DEF LinkInv, Types
<1>7. CallerPart'
  BY <1>3 DEF LinkInv, CallerPart
<1>8. ThreadPart'
  BY <1>3, <1>4, <1>5 DEF LinkInv, ThreadPart
<1>9. ApartPart' /\ ClearPart'
  BY <1>3, <1>4, <1>5 DEF LinkInv, ApartPart, ClearPart, Types
<1>10. SolePart'
  BY <1>2, <1>3, <1>5 DEF LinkInv, SolePart, ApartPart, Context
<1>11. FiredPart'
  BY <1>2, <1>4, <1>5 DEF LinkInv, FiredPart, Types, Timer
<1>12. FlagPart'
  BY <1>2, <1>3, <1>4, <1>5, TimerAssumption DEF LinkInv, FlagPart, Busy, Timer
<1>13. DelayPart'
  BY <1>3, <1>4, DelayIs DEF LinkInv, DelayPart
<1>. QED BY <1>6, <1>7, <1>8, <1>9, <1>10, <1>11, <1>12, <1>13 DEF LinkInv

LEMMA CheckDoneKeeps ==
  ASSUME LinkInv, CheckDone
  PROVE  LinkInv'
<1>1. /\ pc' = pc /\ arg' = arg /\ use' = use /\ tick' = tick /\ scan' = scan /\ m' = m
      /\ isr = "check" /\ isr' = "none" /\ fired' = fired
  BY DEF CheckDone
<1>2. Types' /\ CallerPart' /\ ThreadPart' /\ DelayPart'
  BY <1>1 DEF LinkInv, Types, CallerPart, ThreadPart, DelayPart
<1>3. ApartPart' /\ ClearPart' /\ SolePart' /\ FiredPart'
  BY <1>1 DEF LinkInv, ApartPart, ClearPart, SolePart, FiredPart
<1>4. FlagPart'
  BY <1>1 DEF LinkInv, FlagPart, Busy
<1>. QED BY <1>2, <1>3, <1>4 DEF LinkInv

\* What a hard timer's function leaves to the timer x: nothing has happened to it, it was
\* started, which nobody else may, or it was stopped
Fate(r, x) ==
  \/ (In(r, x) <=> In(m, x)) /\ r.active[x] = m.active[x]
  \/ /\ x \in Hard \ {Delay} /\ x # fired.hard /\ \A c \in Caller : x \notin use.ctrl[c]
     /\ In(r, x) /\ r.active[x]
  \/ x # Delay /\ ~In(r, x) /\ ~r.active[x]

LEMMA RanIs ==
  ASSUME LinkInv, OneUser, isr = "callback", NEW r, r \in Ran(fired.hard)
  PROVE  /\ Good(r) /\ r.init = m.init /\ r.periodic = m.periodic
         /\ ~In(r, fired.hard)
         /\ r.stat = IF fired.hard = Delay THEN "ready" ELSE m.stat
         /\ \A x \in Timer : Fate(r, x)
<1>1. PICK t : t = fired.hard
  OBVIOUS
<1>2. t \in Hard /\ t \in Timer /\ Kind(t) = "hard" /\ ~In(m, t)
  BY <1>1, KindIs DEF LinkInv, Types, ThreadPart, FiredPart, Timer
<1>3. Good(m) /\ m \in MType /\ tick \in Ticks /\ use \in Uses
  BY DEF LinkInv, Types, Good, CallerPart
<1>4. ASSUME NEW op, NEW u, <<op, u>> \in use.callback[t]
      PROVE  /\ u \in Hard /\ u \in Timer /\ u # Delay
             /\ op = "start" => u # t /\ \A c \in Caller : u \notin use.ctrl[c]
  <2>1. /\ u \in Timer \ {Delay} /\ Kind(u) = Kind(t)
        /\ op = "start" => u # t /\ \A c \in Caller : u \notin use.ctrl[c]
    BY <1>2, <1>3, <1>4, UseIs
  <2>. QED BY <1>2, <2>1, KindIs
<1>. SUFFICES /\ Good(r) /\ r.init = m.init /\ r.periodic = m.periodic /\ ~In(r, t)
              /\ r.stat = IF t = Delay THEN "ready" ELSE m.stat
              /\ \A x \in Timer : Fate(r, x)
  BY <1>1
<1>5. CASE t = Delay
  <2>1. r = [m EXCEPT !.stat = "ready"]
    BY <1>1, <1>5 DEF Ran
  <2>2. /\ r \in MType /\ r.stat = "ready" /\ r.list = m.list /\ r.active = m.active
        /\ r.init = m.init /\ r.periodic = m.periodic
    BY <1>3, <2>1 DEF MType
  <2>3. Good(r) /\ \A x \in Timer : In(r, x) <=> In(m, x)
    BY <1>3, <2>2 DEF Good, In
  <2>. QED BY <1>1, <1>2, <1>5, <2>2, <2>3 DEF Fate
<1>6. CASE t # Delay /\ r = m
  <2>1. \A x \in Timer : Fate(r, x)
    BY <1>6 DEF Fate
  <2>. QED BY <1>2, <1>3, <1>6, <2>1
<1>7. ASSUME t # Delay, NEW u \in Timer, <<"start", u>> \in use.callback[t], r = Start(m, u)
      PROVE  /\ Good(r) /\ r.init = m.init /\ r.periodic = m.periodic
             /\ ~In(r, t) /\ r.stat = m.stat /\ \A x \in Timer : Fate(r, x)
  <2>1. u \in Hard /\ u # Delay /\ u # t /\ \A c \in Caller : u \notin use.ctrl[c]
    BY <1>4, <1>7
  <2>2. /\ Good(r) /\ r.init = m.init /\ r.periodic = m.periodic /\ r.stat = m.stat
        /\ r.active = [m.active EXCEPT ![u] = TRUE]
        /\ \A x \in Timer : In(r, x) <=> In(m, x) \/ x = u
    <3>1. Good(m) /\ u \in Hard /\ tick \in Ticks /\ r = Start(m, u)
      BY <1>3, <1>7, <2>1
    <3>2. /\ Good(r) /\ r.init = m.init /\ r.periodic = m.periodic /\ r.stat = m.stat
          /\ r.active = [m.active EXCEPT ![u] = TRUE]
          /\ r.deadline = [m.deadline EXCEPT ![u] = (tick + m.init[u]) % TickRange]
          /\ \A x \in Timer : In(r, x) <=> In(m, x) \/ x = u
          /\ r.list["soft"] = m.list["soft"]
      BY ONLY <3>1, StartIs
    <3>. QED BY <3>2
  <2>3. \A x \in Timer : r.active[x] = IF x = u THEN TRUE ELSE m.active[x]
    BY <1>3, <2>2 DEF MType
  <2>. QED BY <1>1, <1>2, <2>1, <2>2, <2>3 DEF Fate
<1>8. ASSUME t # Delay, NEW u \in Timer, <<"stop", u>> \in use.callback[t], r = Stop(m, u)
      PROVE  /\ Good(r) /\ r.init = m.init /\ r.periodic = m.periodic
             /\ ~In(r, t) /\ r.stat = m.stat /\ \A x \in Timer : Fate(r, x)
  <2>1. u \in Hard /\ u # Delay
    BY <1>4, <1>8
  <2>2. /\ Good(r) /\ r.init = m.init /\ r.periodic = m.periodic /\ r.stat = m.stat
        /\ r.active = [m.active EXCEPT ![u] = FALSE]
        /\ \A x \in Timer : In(r, x) <=> In(m, x) /\ ~(x = u /\ m.active[u])
    <3>1. Good(m) /\ u \in Timer /\ r = Stop(m, u)
      BY <1>3, <1>8
    <3>2. /\ Relisted(m, r) /\ r.active = [m.active EXCEPT ![u] = FALSE]
          /\ \A x \in Timer : In(r, x) <=> In(m, x) /\ ~(x = u /\ m.active[u])
      BY ONLY <3>1, StopIs
    <3>. QED BY <3>2 DEF Relisted
  <2>3. \A x \in Timer : r.active[x] = IF x = u THEN FALSE ELSE m.active[x]
    BY <1>3, <2>2 DEF MType
  <2>4. m.active[u] \in BOOLEAN
    BY <1>3 DEF MType
  <2>. QED BY <1>1, <1>2, <2>1, <2>2, <2>3, <2>4 DEF Fate
<1>9. \/ t = Delay
      \/ t # Delay /\ r = m
      \/ \E u \in Timer : t # Delay /\ <<"start", u>> \in use.callback[t] /\ r = Start(m, u)
      \/ \E u \in Timer : t # Delay /\ <<"stop", u>> \in use.callback[t] /\ r = Stop(m, u)
  BY <1>1 DEF Ran
<1>. QED BY <1>5, <1>6, <1>7, <1>8, <1>9

LEMMA CheckCallbackKeeps ==
  ASSUME LinkInv, OneUser, CheckCallback
  PROVE  LinkInv'
<1>1. PICK t : t = fired.hard
  OBVIOUS
<1>2. t \in Hard /\ t \in Timer /\ t # None /\ t \notin Soft
  BY <1>1, TimerAssumption DEF CheckCallback, LinkInv, Types, ThreadPart, Timer
<1>3. PICK r : r \in Ran(t) /\ m' = After(r, t)
  BY <1>1 DEF CheckCallback
<1>4. /\ pc' = pc /\ arg' = arg /\ use' = use /\ tick' = tick /\ scan' = scan
      /\ isr = "callback" /\ isr' = "check" /\ fired' = [fired EXCEPT !.hard = None]
  BY DEF CheckCallback
<1>5. /\ fired'.hard = None /\ fired'.soft = fired.soft
      /\ fired' \in [hard : Hard \cup {None}, soft : Soft \cup {None}]
  BY <1>4 DEF LinkInv, Types
<1>6. /\ Good(r) /\ r.init = m.init /\ r.periodic = m.periodic /\ ~In(r, t)
      /\ r.stat = IF t = Delay THEN "ready" ELSE m.stat
      /\ \A x \in Timer : Fate(r, x)
  BY <1>1, <1>3, <1>4, RanIs
<1>7. /\ Good(m') /\ m'.init = m.init /\ m'.periodic = m.periodic
      /\ m'.stat = IF t = Delay THEN "ready" ELSE m.stat
      /\ \A x \in Timer \ {t} : Fate(m', x)
      /\ In(m', t) <=> m'.active[t]
      /\ ~r.periodic[t] => ~In(m', t)
  <2>1. tick \in Ticks
    BY DEF LinkInv, Types
  <2>2. /\ Good(m') /\ m'.init = r.init /\ m'.periodic = r.periodic /\ m'.stat = r.stat
        /\ \/ /\ r.periodic[t] /\ m'.active = [r.active EXCEPT ![t] = TRUE]
              /\ \A u \in Timer : In(m', u) <=> In(r, u) \/ u = t
           \/ /\ m'.active = [r.active EXCEPT ![t] = FALSE]
              /\ \A u \in Timer : In(m', u) <=> In(r, u)
    <3>1. Good(r) /\ t \in Hard /\ ~In(r, t) /\ tick \in Ticks /\ m' = After(r, t)
      BY <1>2, <1>3, <1>6, <2>1
    <3>2. /\ Good(m') /\ m'.init = r.init /\ m'.periodic = r.periodic /\ m'.stat = r.stat
          /\ Again(r, m', t) \/ Ended(r, m', t)
      BY <3>1, AfterIs
    <3>. QED BY <3>2 DEF Again, Ended
  <2>3. r.active \in [Timer -> BOOLEAN]
    BY <1>6 DEF Good, MType
  <2>4. /\ In(m', t) <=> m'.active[t]
        /\ ~r.periodic[t] => ~In(m', t)
        /\ \A x \in Timer \ {t} : (In(m', x) <=> In(r, x)) /\ m'.active[x] = r.active[x]
    BY <1>2, <1>6, <2>2, <2>3
  <2>. QED BY <1>6, <2>2, <2>4 DEF Fate
<1>8. \A x \in Timer \ {t} :
        \/ (In(m', x) <=> In(m, x)) /\ m'.active[x] = m.active[x]
        \/ x \in Hard \ {Delay} /\ In(m', x) /\ m'.active[x] /\ \A c \in Caller : x \notin use.ctrl[c]
        \/ x # Delay /\ ~In(m', x) /\ ~m'.active[x]
  BY <1>7 DEF Fate
<1>9. Types'
  BY <1>4, <1>5, <1>7 DEF LinkInv, Types
<1>10. CallerPart'
  BY <1>4 DEF LinkInv, CallerPart
<1>11. ThreadPart'
  BY <1>4, <1>5, <1>7 DEF LinkInv, ThreadPart
<1>12. ASSUME NEW c \in Context, pc[c] \in Apart
       PROVE  /\ arg[c] \in Timer \ {t}
              /\ \/ (In(m', arg[c]) <=> In(m, arg[c])) /\ m'.active[arg[c]] = m.active[arg[c]]
                 \/ ~In(m', arg[c]) /\ ~m'.active[arg[c]]
  <2>1. arg[c] \in Timer /\ pc[c] \in Call
    BY <1>12 DEF LinkInv, Types, Apart, Call
  <2>2. CASE c = TimerThread
    <3>1. arg[c] \in Soft /\ arg[c] \notin Hard
      BY <2>1, <2>2, TimerAssumption DEF LinkInv, ThreadPart
    <3>. QED BY <1>2, <1>8, <2>1, <3>1
  <2>3. CASE c # TimerThread
    <3>1. c \in Caller
      BY <2>3 DEF Context
    <3>2. arg[c] \in use.ctrl[c] /\ arg[c] # t
      BY <1>1, <1>12, <2>1, <3>1 DEF LinkInv, CallerPart, SolePart
    <3>. QED BY <1>8, <2>1, <3>1, <3>2
  <2>. QED BY <2>2, <2>3
<1>13. ApartPart'
  BY <1>4, <1>12 DEF LinkInv, ApartPart
<1>14. ClearPart'
  BY <1>4, <1>5, <1>12 DEF LinkInv, ClearPart, Apart
<1>15. SolePart'
  <2>1. ASSUME NEW c \in Caller, pc[c] \in Apart PROVE arg[c] # None
    BY <2>1, <1>12, TimerAssumption DEF Context
  <2>. QED BY <1>4, <1>5, <2>1 DEF LinkInv, SolePart
<1>16. FiredPart'
  <2>1. ASSUME NEW x, x = fired.soft, x # None PROVE x \in Timer \ {t} /\ x \notin Hard /\ ~In(m, x)
    BY <1>2, <2>1, TimerAssumption DEF LinkInv, Types, FiredPart, Timer
  <2>. QED BY <1>5, <1>8, <2>1 DEF FiredPart
<1>17. FlagPart'
  <2>1. ASSUME NEW x \in Timer \ {t}, ~Busy(x)' PROVE ~Busy(x)
    BY <1>1, <1>4, <1>5, <2>1 DEF Busy
  <2>2. \A x \in Timer \ {t} : ~Busy(x)' => (m'.active[x] <=> In(m', x))
    BY <1>8, <2>1 DEF LinkInv, FlagPart
  <2>. QED BY <1>7, <2>2 DEF FlagPart
<1>18. DelayPart'
  <2>1. ~m.periodic[Delay] /\ (In(m, Delay) => m.stat = "suspend")
    BY DEF LinkInv, DelayPart
  <2>2. In(m', Delay) => m'.stat = "suspend"
    BY <1>6, <1>7, <1>8, <2>1, DelayIs
  <2>. QED BY <1>7, <2>1, <2>2, DelayIs DEF LinkInv, DelayPart
<1>. QED BY <1>9, <1>10, <1>11, <1>13, <1>14, <1>15, <1>16, <1>17, <1>18 DEF LinkInv

\* A step of the timer thread that links nothing and calls nothing
LEMMA ThreadKeeps ==
  ASSUME LinkInv, OneUser, NEW p \in PC, At(TimerThread, pc[TimerThread]),
         pc' = [pc EXCEPT ![TimerThread] = p], p \notin Call, pc[TimerThread] \notin Call,
         arg' \in [Context -> Timer], \A c \in Caller : arg'[c] = arg[c],
         m' = m, tick' = tick, isr' = isr, use' = use, fired' = fired,
         scan' \in [next : Ticks, now : Ticks, n : Soft \cup {None},
                    back : {"after", "scan"}, ticks : 0..MaxLate],
         scan'.n = None \/ scan'.n = scan.n \/ (scan'.n \in Timer /\ In(m, scan'.n)),
         ThreadPart'
  PROVE  LinkInv'
<1>1. TimerThread \in Context /\ TimerThread \notin Caller /\ Context = Caller \cup {TimerThread}
  BY TimerAssumption DEF Context
<1>2. \A c \in Caller : pc'[c] = pc[c] /\ arg'[c] = arg[c]
  BY <1>1 DEF LinkInv, Types
<1>3. pc'[TimerThread] = p
  BY <1>1 DEF LinkInv, Types
<1>4. Types'
  BY DEF LinkInv, Types
<1>5. CallerPart'
  BY <1>2 DEF LinkInv, CallerPart
<1>6. ApartPart' /\ ClearPart' /\ FiredPart'
  BY <1>1, <1>2, <1>3 DEF LinkInv, ApartPart, ClearPart, FiredPart, Apart, Call
<1>7. SolePart'
  <2>1. ASSUME NEW c \in Caller, pc[c] \in Apart PROVE arg[c] # None /\ ~In(m, arg[c])
    <3>1. c \in Context /\ arg[c] \in Timer
      BY <1>1, <2>1 DEF LinkInv, Types
    <3>. QED BY <2>1, <3>1, TimerAssumption DEF LinkInv, ApartPart
  <2>. QED BY <1>2, <1>3, <2>1 DEF LinkInv, SolePart, Call
<1>8. FlagPart'
  BY <1>1, <1>2, <1>3 DEF LinkInv, FlagPart, Busy, Call
<1>9. DelayPart'
  BY DEF LinkInv, DelayPart
<1>. QED BY <1>4, <1>5, <1>6, <1>7, <1>8, <1>9 DEF LinkInv

\* The timer thread is suspended, or goes on, at a place between two functions
LEMMA ThreadIs ==
  ASSUME LinkInv, NEW p, At(TimerThread, p)
  PROVE  /\ isr = "none" /\ fired.hard = None /\ pc[TimerThread] = p /\ m.stat = "ready"
         /\ TimerThread \in Context /\ TimerThread \notin Caller
         /\ Good(m) /\ m \in MType /\ ~In(m, Delay)
<1>1. TimerThread \in Context /\ TimerThread \notin Caller
  BY TimerAssumption DEF Context
<1>2. isr = "none" /\ fired.hard = None /\ pc[TimerThread] = p /\ m.stat = "ready"
  BY <1>1, Runs
<1>. QED BY <1>1, <1>2 DEF LinkInv, Types, Good, DelayPart

\* The first soft timer
LEMMA SoftHead ==
  ASSUME Good(m), m.list["soft"] # <<>>
  PROVE  Head(m.list["soft"]) \in Soft /\ In(m, Head(m.list["soft"]))
<1>1. PICK s \in Seq(Timer) : s = m.list["soft"]
  BY DEF Good, MType, Lists
<1>2. Head(s) \in Timer /\ Contains(s, Head(s))
  BY <1>1, HeadList
<1>3. Kind(Head(s)) = "soft"
  BY <1>1, <1>2 DEF Good, Lists
<1>. QED BY <1>1, <1>2, <1>3, KindIs DEF In

LEMMA LookKeeps ==
  ASSUME LinkInv, OneUser, Look
  PROVE  LinkInv'
<1>1. /\ isr = "none" /\ fired.hard = None /\ pc[TimerThread] = "look" /\ m.stat = "ready"
      /\ TimerThread \in Context /\ TimerThread \notin Caller /\ Good(m) /\ m \in MType
  BY ThreadIs DEF Look
<1>2. PICK p : p = IF NextTimeout = TickMax THEN "suspend" ELSE "measure"
  OBVIOUS
<1>3. /\ pc' = [pc EXCEPT ![TimerThread] = p] /\ p \in PC
      /\ m' = m /\ tick' = tick /\ isr' = isr /\ use' = use /\ fired' = fired /\ arg' = arg
  BY <1>2 DEF Look, Goto, PC
<1>4. NextTimeout \in Ticks
  <2>1. CASE m.list["soft"] = <<>>
    BY <2>1, TickSizes DEF NextTimeout, Ticks
  <2>2. CASE m.list["soft"] # <<>>
    <3>1. Head(m.list["soft"]) \in Timer
      BY <1>1, <2>2, SoftHead DEF Timer
    <3>. QED BY <1>1, <2>2, <3>1 DEF NextTimeout, MType, Ticks
  <2>. QED BY <2>1, <2>2
<1>5. /\ scan' \in [next : Ticks, now : Ticks, n : Soft \cup {None},
                    back : {"after", "scan"}, ticks : 0..MaxLate]
      /\ scan'.n = scan.n /\ scan'.back = scan.back /\ scan'.ticks = scan.ticks
  BY <1>4 DEF Look, LinkInv, Types
<1>6. pc'[TimerThread] = p
  BY <1>1, <1>3 DEF LinkInv, Types
<1>7. ThreadPart'
  BY <1>1, <1>2, <1>3, <1>5, <1>6 DEF LinkInv, ThreadPart, Call
<1>8. At(TimerThread, pc[TimerThread]) /\ p \notin Call /\ pc[TimerThread] \notin Call
  BY <1>1, <1>2 DEF Look, Call
<1>9. arg' \in [Context -> Timer] /\ \A c \in Caller : arg'[c] = arg[c]
  BY <1>3 DEF LinkInv, Types
<1>. QED BY <1>3, <1>5, <1>7, <1>8, <1>9, ThreadKeeps

LEMMA MeasureKeeps ==
  ASSUME LinkInv, OneUser, Measure
  PROVE  LinkInv'
<1>1. /\ isr = "none" /\ fired.hard = None /\ pc[TimerThread] = "measure" /\ m.stat = "ready"
      /\ TimerThread \in Context /\ TimerThread \notin Caller
  BY ThreadIs DEF Measure
<1>2. PICK d \in Ticks : d = Diff(scan.next, tick)
  BY DiffIs DEF LinkInv, Types
<1>3. PICK p : p = IF d < Half THEN "sleep" ELSE "check"
  OBVIOUS
<1>4. /\ pc' = [pc EXCEPT ![TimerThread] = p] /\ p \in PC
      /\ scan' = [scan EXCEPT !.next = IF d < Half THEN d ELSE 0]
      /\ m' = m /\ tick' = tick /\ isr' = isr /\ use' = use /\ fired' = fired /\ arg' = arg
  BY <1>2, <1>3 DEF Measure, Goto, PC
<1>5. /\ scan' \in [next : Ticks, now : Ticks, n : Soft \cup {None},
                    back : {"after", "scan"}, ticks : 0..MaxLate]
      /\ scan'.n = scan.n /\ scan'.back = scan.back /\ scan'.ticks = scan.ticks
      /\ p = "sleep" => scan'.next < Half
  BY <1>3, <1>4, TickSizes DEF LinkInv, Types, Ticks
<1>6. pc'[TimerThread] = p
  BY <1>1, <1>4 DEF LinkInv, Types
<1>7. ThreadPart'
  BY <1>1, <1>3, <1>4, <1>5, <1>6 DEF LinkInv, ThreadPart, Call
<1>8. At(TimerThread, pc[TimerThread]) /\ p \notin Call /\ pc[TimerThread] \notin Call
  BY <1>1, <1>3 DEF Measure, Call
<1>9. arg' \in [Context -> Timer] /\ \A c \in Caller : arg'[c] = arg[c]
  BY <1>4 DEF LinkInv, Types
<1>. QED BY <1>4, <1>5, <1>7, <1>8, <1>9, ThreadKeeps

LEMMA CheckSoftKeeps ==
  ASSUME LinkInv, OneUser, CheckSoft
  PROVE  LinkInv'
<1>1. /\ isr = "none" /\ fired.hard = None /\ pc[TimerThread] = "check" /\ m.stat = "ready"
      /\ TimerThread \in Context /\ TimerThread \notin Caller /\ Good(m)
  BY ThreadIs DEF CheckSoft
<1>2. First \in Soft \cup {None} /\ (First = None \/ In(m, First))
  BY <1>1, SoftHead DEF First
<1>3. /\ pc' = [pc EXCEPT ![TimerThread] = "scan"]
      /\ scan' = [scan EXCEPT !.n = First, !.now = tick]
      /\ m' = m /\ tick' = tick /\ isr' = isr /\ use' = use /\ fired' = fired /\ arg' = arg
  BY DEF CheckSoft, Goto
<1>4. /\ scan' \in [next : Ticks, now : Ticks, n : Soft \cup {None},
                    back : {"after", "scan"}, ticks : 0..MaxLate]
      /\ scan'.n = First /\ scan'.back = scan.back /\ scan'.ticks = scan.ticks
  BY <1>2, <1>3 DEF LinkInv, Types
<1>5. pc'[TimerThread] = "scan"
  BY <1>1, <1>3 DEF LinkInv, Types
<1>6. ThreadPart'
  BY <1>1, <1>3, <1>4, <1>5 DEF LinkInv, ThreadPart, Call
<1>7. At(TimerThread, pc[TimerThread]) /\ "scan" \notin Call /\ pc[TimerThread] \notin Call
  BY <1>1 DEF CheckSoft, Call
<1>8. arg' \in [Context -> Timer] /\ (\A c \in Caller : arg'[c] = arg[c]) /\ "scan" \in PC
  BY <1>3 DEF LinkInv, Types, PC
<1>9. scan'.n = None \/ scan'.n = scan.n \/ (scan'.n \in Timer /\ In(m, scan'.n))
  BY <1>2, <1>4, TimerAssumption DEF Timer
<1>. QED BY <1>3, <1>4, <1>6, <1>7, <1>8, <1>9, ThreadKeeps

LEMMA SoftCallbackKeeps ==
  ASSUME LinkInv, OneUser, SoftCallback
  PROVE  LinkInv'
<1>1. /\ isr = "none" /\ fired.hard = None /\ pc[TimerThread] = "callback" /\ m.stat = "ready"
      /\ TimerThread \in Context /\ TimerThread \notin Caller
  BY ThreadIs DEF SoftCallback
<1>2. /\ pc' = [pc EXCEPT ![TimerThread] = "after"] /\ scan' = scan
      /\ m' = m /\ tick' = tick /\ isr' = isr /\ use' = use /\ fired' = fired /\ arg' = arg
  BY DEF SoftCallback, Goto
<1>3. pc'[TimerThread] = "after"
  BY <1>1, <1>2 DEF LinkInv, Types
<1>4. ThreadPart'
  BY <1>1, <1>2, <1>3 DEF LinkInv, ThreadPart, Call
<1>5. At(TimerThread, pc[TimerThread]) /\ "after" \notin Call /\ pc[TimerThread] \notin Call
  BY <1>1 DEF SoftCallback, Call
<1>6. /\ arg' \in [Context -> Timer] /\ (\A c \in Caller : arg'[c] = arg[c]) /\ "after" \in PC
      /\ scan' \in [next : Ticks, now : Ticks, n : Soft \cup {None},
                    back : {"after", "scan"}, ticks : 0..MaxLate]
  BY <1>2 DEF LinkInv, Types, PC
<1>. QED BY <1>2, <1>4, <1>5, <1>6, ThreadKeeps

LEMMA SoftDoneKeeps ==
  ASSUME LinkInv, OneUser, SoftDone
  PROVE  LinkInv'
<1>1. /\ isr = "none" /\ fired.hard = None /\ pc[TimerThread] = "scan" /\ m.stat = "ready"
      /\ TimerThread \in Context /\ TimerThread \notin Caller
  BY ThreadIs DEF SoftDone
<1>2. /\ pc' = [pc EXCEPT ![TimerThread] = "look"]
      /\ arg' = [arg EXCEPT ![TimerThread] = Delay]
      /\ scan' = [scan EXCEPT !.n = None, !.now = 0, !.back = "after"]
      /\ m' = m /\ tick' = tick /\ isr' = isr /\ use' = use /\ fired' = fired
  BY DEF SoftDone, Goto
<1>3. pc'[TimerThread] = "look"
  BY <1>1, <1>2 DEF LinkInv, Types
<1>4. /\ scan' \in [next : Ticks, now : Ticks, n : Soft \cup {None},
                    back : {"after", "scan"}, ticks : 0..MaxLate]
      /\ scan'.n = None /\ scan'.back = "after" /\ scan'.ticks = scan.ticks
  <2>1. 0 \in Ticks
    BY TickSizes DEF Ticks
  <2>. QED BY <1>2, <2>1 DEF LinkInv, Types
<1>5. ThreadPart'
  BY <1>1, <1>2, <1>3, <1>4 DEF LinkInv, ThreadPart, Call
<1>6. At(TimerThread, pc[TimerThread]) /\ "look" \notin Call /\ pc[TimerThread] \notin Call
  BY <1>1 DEF SoftDone, Call
<1>7. arg' \in [Context -> Timer] /\ (\A c \in Caller : arg'[c] = arg[c]) /\ "look" \in PC
  BY <1>1, <1>2, DelayIs DEF LinkInv, Types, PC
<1>. QED BY <1>2, <1>4, <1>5, <1>6, <1>7, ThreadKeeps

LEMMA SuspendKeeps ==
  ASSUME LinkInv, OneUser, Suspend
  PROVE  LinkInv'
<1>1. /\ isr = "none" /\ fired.hard = None /\ pc[TimerThread] = "suspend" /\ m.stat = "ready"
      /\ TimerThread \in Context /\ TimerThread \notin Caller /\ Good(m) /\ ~In(m, Delay)
  BY ThreadIs DEF Suspend
<1>2. /\ pc' = [pc EXCEPT ![TimerThread] = "check"] /\ arg' = arg
      /\ scan' = [scan EXCEPT !.next = 0, !.ticks = 0]
      /\ tick' = tick /\ isr' = isr /\ use' = use /\ fired' = fired
  BY DEF Suspend, Goto
<1>3. PICK q : q = Stop(m, Delay) /\ m' = [q EXCEPT !.stat = "suspend"]
  BY DEF Suspend
<1>4. /\ Relisted(m, q) /\ q.active = [m.active EXCEPT ![Delay] = FALSE]
      /\ \A u \in Timer : In(q, u) <=> In(m, u) /\ ~(u = Delay /\ m.active[Delay])
  BY <1>1, <1>3, DelayIs, StopIs
<1>5. /\ Good(m') /\ m'.stat = "suspend" /\ m'.active = [m.active EXCEPT ![Delay] = FALSE]
      /\ m'.init = m.init /\ m'.periodic = m.periodic
      /\ \A u \in Timer : In(m', u) <=> In(m, u)
  <2>1. q \in MType
    BY <1>4 DEF Relisted, Good
  <2>2. /\ m' \in MType /\ m'.stat = "suspend" /\ m'.list = q.list /\ m'.active = q.active
        /\ m'.init = q.init /\ m'.periodic = q.periodic
    BY <1>3, <2>1 DEF MType
  <2>3. Good(m') /\ \A u \in Timer : In(m', u) <=> In(q, u)
    BY <1>4, <2>2 DEF Relisted, Good, In
  <2>. QED BY <1>1, <1>4, <2>2, <2>3 DEF Relisted
<1>6. \A u \in Timer : m'.active[u] = IF u = Delay THEN FALSE ELSE m.active[u]
  BY <1>1, <1>5 DEF Good, MType
<1>7. /\ scan' \in [next : Ticks, now : Ticks, n : Soft \cup {None},
                    back : {"after", "scan"}, ticks : 0..MaxLate]
      /\ scan'.n = scan.n /\ scan'.back = scan.back /\ scan'.ticks = 0
  <2>1. 0 \in Ticks /\ 0 \in 0..MaxLate
    BY TickSizes, TimerAssumption DEF Ticks
  <2>. QED BY <1>2, <2>1 DEF LinkInv, Types
<1>8. Types'
  BY <1>1, <1>2, <1>5, <1>7 DEF LinkInv, Types, PC
<1>9. CallerPart'
  BY <1>1, <1>2 DEF LinkInv, CallerPart, Types
<1>10. ThreadPart'
  BY <1>1, <1>2, <1>5, <1>7 DEF LinkInv, ThreadPart, Types, Call
<1>11. \A c \in Context : pc'[c] \in Apart => pc[c] = pc'[c] /\ c # TimerThread
  BY <1>1, <1>2 DEF LinkInv, Types, Apart
<1>12. ApartPart' /\ ClearPart'
  BY <1>2, <1>5, <1>6, <1>11 DEF LinkInv, ApartPart, ClearPart, Types, Apart
<1>13. SolePart'
  BY <1>1, <1>2, <1>7, <1>11 DEF LinkInv, SolePart, Types, Context
<1>14. FiredPart'
  BY <1>2, <1>5 DEF LinkInv, FiredPart, Types, Timer
<1>15. FlagPart'
  BY <1>1, <1>2, <1>5, <1>6 DEF LinkInv, FlagPart, Busy, Types
<1>16. DelayPart'
  BY <1>2, <1>5, DelayIs DEF LinkInv, DelayPart
<1>. QED BY <1>8, <1>9, <1>10, <1>12, <1>13, <1>14, <1>15, <1>16 DEF LinkInv

\* rt_thread_delay has set the timer of the timer thread
LEMMA SleepKeeps ==
  ASSUME LinkInv, OneUser, Sleep
  PROVE  LinkInv'
<1>1. /\ isr = "none" /\ fired.hard = None /\ pc[TimerThread] = "sleep" /\ m.stat = "ready"
      /\ TimerThread \in Context /\ TimerThread \notin Caller /\ Good(m) /\ ~In(m, Delay)
  BY ThreadIs DEF Sleep
<1>2. /\ pc' = [pc EXCEPT ![TimerThread] = "check"] /\ arg' = arg
      /\ scan' = [scan EXCEPT !.next = 0, !.ticks = 0]
      /\ tick' = tick /\ isr' = isr /\ use' = use /\ fired' = fired
  BY DEF Sleep, Goto
<1>3. fired.soft = None /\ scan.next \in 0..(Half - 1) /\ tick \in Ticks
  BY <1>1, TickSizes DEF LinkInv, ThreadPart, Types, Call, Ticks
<1>4. PICK q : q = Stop(m, Delay)
  OBVIOUS
<1>5. PICK r : r = [q EXCEPT !.stat = "suspend", !.init[Delay] = scan.next]
  OBVIOUS
<1>6. m' = Start(r, Delay)
  BY <1>4, <1>5 DEF Sleep
<1>7. /\ Relisted(m, q) /\ q.active = [m.active EXCEPT ![Delay] = FALSE]
      /\ \A u \in Timer : In(q, u) <=> In(m, u) /\ ~(u = Delay /\ m.active[Delay])
  BY <1>1, <1>4, DelayIs, StopIs
<1>8. /\ Good(r) /\ r.stat = "suspend" /\ r.active = q.active /\ r.periodic = m.periodic
      /\ r.init = [m.init EXCEPT ![Delay] = scan.next]
      /\ \A u \in Timer : In(r, u) <=> In(m, u)
  <2>1. q \in MType /\ q.init = m.init /\ q.periodic = m.periodic
    BY <1>7 DEF Relisted, Good
  <2>2. PICK i \in [Timer -> 0..(Half - 1)] : i = [m.init EXCEPT ![Delay] = scan.next]
    BY <1>1, <1>3 DEF Good, MType
  <2>3. r = [q EXCEPT !.stat = "suspend", !.init = i]
    BY <1>5, <2>1, <2>2
  <2>4. /\ r \in MType /\ r.stat = "suspend" /\ r.list = q.list /\ r.active = q.active
        /\ r.init = i /\ r.periodic = q.periodic
    BY <2>1, <2>3 DEF MType
  <2>5. Good(r) /\ \A u \in Timer : In(r, u) <=> In(q, u)
    BY <1>7, <2>4 DEF Relisted, Good, In
  <2>. QED BY <1>1, <1>7, <2>1, <2>2, <2>4, <2>5
<1>9. /\ Good(m') /\ m'.init = r.init /\ m'.periodic = r.periodic /\ m'.stat = r.stat
      /\ m'.active = [r.active EXCEPT ![Delay] = TRUE]
      /\ m'.deadline = [r.deadline EXCEPT ![Delay] = (tick + r.init[Delay]) % TickRange]
      /\ \A u \in Timer : In(m', u) <=> In(r, u) \/ u = Delay
      /\ m'.list["soft"] = r.list["soft"]
  <2>1. Good(r) /\ Delay \in Hard /\ tick \in Ticks /\ m' = Start(r, Delay)
    BY <1>3, <1>6, <1>8, DelayIs
  <2>. QED BY <2>1, StartIs
<1>10. /\ \A u \in Timer : In(m', u) <=> In(m, u) \/ u = Delay
       /\ \A u \in Timer : m'.active[u] = IF u = Delay THEN TRUE ELSE m.active[u]
       /\ \A u \in Timer \ {Delay} : m'.init[u] = m.init[u]
       /\ m'.periodic = m.periodic /\ m'.stat = "suspend"
  <2>1. PICK a \in [Timer -> BOOLEAN], i \in [Timer -> 0..(Half - 1)] : a = m.active /\ i = m.init
    BY <1>1 DEF Good, MType
  <2>2. m'.active = [[a EXCEPT ![Delay] = FALSE] EXCEPT ![Delay] = TRUE]
    BY <1>7, <1>8, <1>9, <2>1
  <2>3. \A u \in Timer : m'.active[u] = IF u = Delay THEN TRUE ELSE m.active[u]
    BY <2>1, <2>2
  <2>4. m'.init = [i EXCEPT ![Delay] = scan.next]
    BY <1>8, <1>9, <2>1
  <2>5. \A u \in Timer \ {Delay} : m'.init[u] = m.init[u]
    BY <2>1, <2>4
  <2>. QED BY <1>8, <1>9, <2>3, <2>5
<1>11. /\ scan' \in [next : Ticks, now : Ticks, n : Soft \cup {None},
                     back : {"after", "scan"}, ticks : 0..MaxLate]
       /\ scan'.n = scan.n /\ scan'.back = scan.back /\ scan'.ticks = 0
  <2>1. 0 \in Ticks /\ 0 \in 0..MaxLate
    BY TickSizes, TimerAssumption DEF Ticks
  <2>. QED BY <1>2, <2>1 DEF LinkInv, Types
<1>12. Types'
  BY <1>1, <1>2, <1>9, <1>11 DEF LinkInv, Types, PC
<1>13. CallerPart'
  BY <1>1, <1>2 DEF LinkInv, CallerPart, Types
<1>14. ThreadPart'
  BY <1>1, <1>2, <1>10, <1>11 DEF LinkInv, ThreadPart, Types, Call
<1>15. \A c \in Context : pc'[c] \in Apart =>
         pc[c] = pc'[c] /\ c # TimerThread /\ arg[c] \in Timer /\ arg[c] # Delay
  <2>1. \A c \in Context : pc'[c] \in Apart => pc[c] = pc'[c] /\ c # TimerThread
    BY <1>1, <1>2 DEF LinkInv, Types, Apart
  <2>2. \A c \in Context : pc[c] \in Apart => arg[c] \in Timer /\ arg[c] # Delay
    BY InCall DEF Apart, Call
  <2>. QED BY <2>1, <2>2
<1>16. ApartPart' /\ ClearPart'
  BY <1>2, <1>10, <1>15 DEF LinkInv, ApartPart, ClearPart, Apart
<1>17. SolePart'
  BY <1>1, <1>2, <1>11, <1>15 DEF LinkInv, SolePart, Types, Context
<1>18. FiredPart'
  BY <1>1, <1>2, <1>3 DEF FiredPart
<1>19. FlagPart'
  BY <1>1, <1>2, <1>10 DEF LinkInv, FlagPart, Busy, Types
<1>20. DelayPart'
  BY <1>2, <1>10, DelayIs DEF LinkInv, DelayPart
<1>. QED BY <1>12, <1>13, <1>14, <1>16, <1>17, <1>18, <1>19, <1>20 DEF LinkInv

\* The timer after t is linked, unless t is not
LEMMA FollowingIs ==
  ASSUME Good(m), NEW t \in Soft, NEW n, n = Following(t)
  PROVE  \/ n = t \/ n = None
         \/ n \in Soft /\ In(m, n)
<1>1. PICK s \in Seq(Timer) : s = m.list["soft"]
  BY DEF Good, MType, Lists
<1>2. t \in Timer /\ Kind(t) = "soft"
  BY KindIs DEF Timer
<1>3. CASE ~Linked(t)
  BY <1>3 DEF Following
<1>4. CASE Linked(t)
  <2>1. \E j \in 1..Len(s) : s[j] = t
    BY <1>1, <1>2, <1>4 DEF Linked, Contains
  <2>2. PICK i \in 1..Len(s) : i = CHOOSE j \in 1..Len(s) : s[j] = t
    BY <2>1
  <2>3. n = IF i = Len(s) THEN None ELSE s[i + 1]
    BY <1>1, <1>4, <2>2 DEF Following
  <2>4. ASSUME i # Len(s) PROVE n \in Soft /\ In(m, n)
    <3>1. Len(s) \in Nat
      BY LenProperties
    <3>2. PICK j \in 1..Len(s) : j = i + 1
      BY <2>4, <3>1
    <3>3. PICK u \in Timer : u = s[j]
      BY ElementOfSeq
    <3>4. Contains(s, u)
      BY <3>3 DEF Contains
    <3>5. Kind(u) = "soft"
      BY <1>1, <3>4 DEF Good, Lists
    <3>6. u \in Soft
      BY <3>5, KindIs
    <3>. QED BY <1>1, <2>3, <2>4, <3>2, <3>3, <3>4, <3>5, <3>6 DEF In
  <2>. QED BY <2>3, <2>4
<1>. QED BY <1>3, <1>4

LEMMA SoftFireKeeps ==
  ASSUME LinkInv, OneUser, SoftFire
  PROVE  LinkInv'
<1>1. /\ isr = "none" /\ fired.hard = None /\ pc[TimerThread] = "scan" /\ m.stat = "ready"
      /\ TimerThread \in Context /\ TimerThread \notin Caller /\ Good(m)
  BY ThreadIs DEF SoftFire
<1>2. PICK t \in Soft : t = scan.n
  BY DEF SoftFire, SoftDue, LinkInv, Types
<1>3. t \in Timer /\ t # None /\ t \notin Hard /\ t # Delay
  BY TimerAssumption, DelayIs DEF Timer
<1>4. PICK n : n = Following(t)
  OBVIOUS
<1>5. n \in Soft \cup {None} /\ (n = t \/ n = None \/ (n \in Timer /\ In(m, n)))
  BY <1>1, <1>2, <1>4, FollowingIs DEF Timer
<1>6. /\ pc' = [pc EXCEPT ![TimerThread] = "callback"] /\ arg' = arg
      /\ scan' = [scan EXCEPT !.n = n, !.now = 0, !.back = "after"]
      /\ fired' = [fired EXCEPT !.soft = t]
      /\ tick' = tick /\ isr' = isr /\ use' = use
  BY <1>2, <1>4 DEF SoftFire, Goto
<1>7. /\ Good(m') /\ m'.stat = m.stat /\ m'.init = m.init /\ m'.periodic = m.periodic
      /\ m'.active = m.active
      /\ \A u \in Timer : In(m', u) <=> In(m, u) /\ u # t
  BY <1>1, <1>2, <1>3, UnlinkIs DEF SoftFire, Relisted
<1>8. /\ scan' \in [next : Ticks, now : Ticks, n : Soft \cup {None},
                    back : {"after", "scan"}, ticks : 0..MaxLate]
      /\ scan'.n = n /\ scan'.back = "after" /\ scan'.ticks = scan.ticks
  <2>1. 0 \in Ticks
    BY TickSizes DEF Ticks
  <2>. QED BY <1>5, <1>6, <2>1 DEF LinkInv, Types
<1>9. /\ fired'.soft = t /\ fired'.hard = fired.hard /\ fired.soft = None
      /\ fired' \in [hard : Hard \cup {None}, soft : Soft \cup {None}]
  BY <1>1, <1>2, <1>6 DEF LinkInv, Types, ThreadPart, Call
<1>10. Types'
  BY <1>1, <1>6, <1>7, <1>8, <1>9 DEF LinkInv, Types, PC
<1>11. CallerPart'
  BY <1>1, <1>6 DEF LinkInv, CallerPart, Types
<1>12. ThreadPart'
  BY <1>1, <1>3, <1>6, <1>7, <1>8, <1>9 DEF LinkInv, ThreadPart, Types, Call
<1>13. \A c \in Context : pc'[c] \in Apart =>
         /\ pc[c] = pc'[c] /\ c # TimerThread /\ arg[c] \in Timer
         /\ arg[c] # t /\ ~In(m, arg[c]) /\ arg[c] # n
  <2>1. \A c \in Context : pc'[c] \in Apart => pc[c] = pc'[c] /\ c # TimerThread
    BY <1>1, <1>6 DEF LinkInv, Types, Apart
  <2>2. ASSUME NEW c \in Caller, pc[c] \in Apart
        PROVE  arg[c] \in Timer /\ arg[c] # t /\ ~In(m, arg[c]) /\ arg[c] # n
    <3>1. c \in Context /\ arg[c] \in Timer
      BY DEF LinkInv, Types, Context
    <3>2. arg[c] # t /\ ~In(m, arg[c])
      BY <1>2, <2>2, <3>1 DEF LinkInv, SolePart, ApartPart
    <3>. QED BY <1>5, <3>1, <3>2, TimerAssumption
  <2>. QED BY <2>1, <2>2 DEF Context
<1>14. ApartPart' /\ ClearPart'
  BY <1>6, <1>7, <1>9, <1>13 DEF LinkInv, ApartPart, ClearPart, Apart
<1>15. SolePart'
  BY <1>1, <1>6, <1>8, <1>9, <1>13 DEF LinkInv, SolePart, Types, Context
<1>16. FiredPart'
  BY <1>1, <1>3, <1>7, <1>9 DEF FiredPart
<1>17. FlagPart'
  <2>1. ASSUME NEW x \in Timer, ~Busy(x)' PROVE x # t /\ ~Busy(x)
    <3>1. x # t
      BY <1>9, <2>1 DEF Busy
    <3>2. x \notin {fired.hard, fired.soft}
      BY <1>1, <1>9, TimerAssumption
    <3>3. ~\E c \in Context : pc[c] \in {"deadline", "insert", "stop", "clear"} /\ arg[c] = x
      BY <1>1, <1>6, <2>1 DEF Busy, LinkInv, Types
    <3>. QED BY <3>1, <3>2, <3>3 DEF Busy
  <2>. QED BY <1>7, <2>1 DEF LinkInv, FlagPart
<1>18. DelayPart'
  BY <1>3, <1>6, <1>7, DelayIs DEF LinkInv, DelayPart
<1>. QED BY <1>10, <1>11, <1>12, <1>14, <1>15, <1>16, <1>17, <1>18 DEF LinkInv

LEMMA SoftAfterKeeps ==
  ASSUME LinkInv, OneUser, SoftAfter
  PROVE  LinkInv'
<1>1. /\ isr = "none" /\ fired.hard = None /\ pc[TimerThread] = "after" /\ m.stat = "ready"
      /\ TimerThread \in Context /\ TimerThread \notin Caller /\ Good(m)
  BY ThreadIs DEF SoftAfter
<1>2. PICK t \in Soft : t = fired.soft
  BY <1>1 DEF LinkInv, Types, ThreadPart
<1>3. t \in Timer /\ t # None /\ t # Delay /\ ~In(m, t)
  BY <1>2, TimerAssumption, DelayIs DEF Timer, LinkInv, FiredPart
<1>4. PICK again \in BOOLEAN : again = (m.periodic[t] /\ m.active[t])
  OBVIOUS
<1>5. PICK p, b : p = (IF again THEN "deadline" ELSE "scan") /\ b = IF again THEN "scan" ELSE "after"
  OBVIOUS
<1>6. /\ pc' = [pc EXCEPT ![TimerThread] = p] /\ arg' = [arg EXCEPT ![TimerThread] = t]
      /\ scan' = [scan EXCEPT !.now = tick, !.back = b]
      /\ fired' = [fired EXCEPT !.soft = None]
      /\ tick' = tick /\ isr' = isr /\ use' = use
  BY <1>2, <1>4, <1>5 DEF SoftAfter, Goto
<1>7. PICK q : q = (IF again THEN Unlink(m, t) ELSE m) /\ m' = Deactivate(q, t)
  BY <1>2, <1>4 DEF SoftAfter
<1>8. /\ Good(q) /\ q.stat = m.stat /\ q.init = m.init /\ q.periodic = m.periodic /\ q.active = m.active
      /\ \A u \in Timer : In(q, u) <=> In(m, u)
  <2>1. CASE again
    <3>1. q = Unlink(m, t)
      BY <1>7, <2>1
    <3>2. /\ Relisted(m, q) /\ q.active = m.active
          /\ \A u \in Timer : In(q, u) <=> In(m, u) /\ u # t
      BY <1>1, <1>3, <3>1, UnlinkIs
    <3>. QED BY <1>3, <3>2 DEF Relisted
  <2>2. CASE ~again
    BY <1>1, <1>7, <2>2
  <2>. QED BY <2>1, <2>2
<1>9. /\ Good(m') /\ m'.stat = m.stat /\ m'.init = m.init /\ m'.periodic = m.periodic
      /\ m'.active = [m.active EXCEPT ![t] = FALSE]
      /\ \A u \in Timer : In(m', u) <=> In(m, u)
  BY <1>3, <1>7, <1>8, DeactivateIs DEF Relisted
<1>10. \A u \in Timer : m'.active[u] = IF u = t THEN FALSE ELSE m.active[u]
  BY <1>1, <1>9 DEF Good, MType
<1>11. /\ scan' \in [next : Ticks, now : Ticks, n : Soft \cup {None},
                     back : {"after", "scan"}, ticks : 0..MaxLate]
       /\ scan'.n = scan.n /\ scan'.back = b /\ scan'.ticks = scan.ticks
  BY <1>5, <1>6 DEF LinkInv, Types
<1>12. /\ fired'.soft = None /\ fired'.hard = fired.hard
       /\ fired' \in [hard : Hard \cup {None}, soft : Soft \cup {None}]
  BY <1>6 DEF LinkInv, Types
<1>13. /\ p \in PC /\ pc'[TimerThread] = p /\ arg'[TimerThread] = t
       /\ \A c \in Caller : pc'[c] = pc[c] /\ arg'[c] = arg[c]
       /\ \A c \in Context : c \in Caller \/ c = TimerThread
  BY <1>1, <1>5, <1>6 DEF LinkInv, Types, PC, Context
<1>14. Types'
  BY <1>1, <1>3, <1>6, <1>9, <1>11, <1>12, <1>13 DEF LinkInv, Types
<1>15. CallerPart'
  BY <1>6, <1>13 DEF LinkInv, CallerPart
<1>16. ThreadPart'
  BY <1>1, <1>5, <1>6, <1>9, <1>11, <1>12, <1>13 DEF LinkInv, ThreadPart, Call
<1>17. ASSUME NEW c \in Caller, pc[c] \in Apart
       PROVE  /\ c \in Context /\ arg[c] \in Timer /\ arg[c] # t /\ arg[c] # None
              /\ arg[c] # scan.n /\ ~In(m, arg[c])
              /\ pc[c] \in {"deadline", "insert"} => ~m.active[arg[c]]
  <2>1. c \in Context
    BY DEF Context
  <2>2. arg[c] \in Timer
    BY <2>1 DEF LinkInv, Types
  <2>. QED BY <1>2, <1>17, <2>1, <2>2, TimerAssumption DEF LinkInv, SolePart, ApartPart, ClearPart
<1>18. ApartPart'
  BY <1>3, <1>9, <1>13, <1>17 DEF ApartPart
<1>19. ClearPart'
  <2>1. ASSUME NEW c \in Caller, pc'[c] \in {"deadline", "insert"}
        PROVE  ~m'.active[arg'[c]] /\ arg'[c] # fired'.soft
    <3>1. pc[c] \in {"deadline", "insert"} /\ arg'[c] = arg[c]
      BY <1>13, <2>1
    <3>2. arg[c] \in Timer /\ arg[c] # t /\ arg[c] # None /\ ~m.active[arg[c]]
      BY <1>17, <3>1 DEF Apart
    <3>3. ~m'.active[arg[c]] /\ arg[c] # fired'.soft
      BY <1>10, <1>12, <3>2
    <3>. QED BY <3>1, <3>3
  <2>2. ~m'.active[t] /\ t # fired'.soft
    BY <1>3, <1>10, <1>12
  <2>3. ASSUME NEW c \in Context, pc'[c] \in {"deadline", "insert"}
        PROVE  ~m'.active[arg'[c]] /\ arg'[c] # fired'.soft
    <3>1. CASE c \in Caller
      BY <2>1, <2>3, <3>1
    <3>2. CASE c = TimerThread
      BY <1>13, <2>2, <3>2
    <3>. QED BY <1>13, <3>1, <3>2
  <2>. QED BY <2>3 DEF ClearPart
<1>20. SolePart'
  BY <1>1, <1>11, <1>12, <1>13, <1>17 DEF SolePart
<1>21. FiredPart'
  BY <1>1, <1>12 DEF FiredPart
<1>22. FlagPart'
  <2>1. ASSUME NEW x \in Timer \ {t}, ~Busy(x)' PROVE ~Busy(x)
    <3>1. x \notin {fired.hard, fired.soft}
      BY <1>1, <1>2, <2>1, TimerAssumption
    <3>2. ~\E c \in Context : pc[c] \in {"deadline", "insert", "stop", "clear"} /\ arg[c] = x
      BY <1>1, <1>13, <2>1 DEF Busy, Context
    <3>. QED BY <3>1, <3>2 DEF Busy
  <2>. QED BY <1>3, <1>9, <1>10, <2>1 DEF LinkInv, FlagPart
<1>23. DelayPart'
  BY <1>6, <1>9, DelayIs DEF LinkInv, DelayPart
<1>. QED BY <1>14, <1>15, <1>16, <1>18, <1>19, <1>20, <1>21, <1>22, <1>23 DEF LinkInv

LEMMA LinkInit ==
  ASSUME Init
  PROVE  LinkInv
<1>1. /\ m \in MType /\ m.stat = "ready"
      /\ \A x \in Lists : m.list[x] = <<>>
      /\ \A t \in Timer :
           ~m.active[t] /\ m.periodic[t] = Created[t].periodic /\ m.init[t] = Created[t].init
  <2>1. /\ m.list = [x \in {"hard", "soft"} |-> <<>>] /\ m.deadline = [t \in Timer |-> 0]
        /\ m.active = [t \in Timer |-> FALSE] /\ m.init = [t \in Timer |-> Created[t].init]
        /\ m.periodic = [t \in Timer |-> Created[t].periodic] /\ m.stat = "ready"
    BY DEF Init
  <2>2. \A t \in Timer : Created[t].init \in 0..(Half - 1) /\ Created[t].periodic \in BOOLEAN
    <3>1. Created \in [Timer -> [init : Times, periodic : BOOLEAN]] /\ Times \subseteq 1..(Half - 1)
      BY TimerAssumption
    <3>2. 1..(Half - 1) \subseteq 0..(Half - 1)
      BY TickSizes
    <3>. QED BY <3>1, <3>2
  <2>3. /\ m.list \in [Lists -> Seq(Timer)] /\ m.deadline \in [Timer -> 0..TickMax]
        /\ m.active \in [Timer -> BOOLEAN] /\ m.init \in [Timer -> 0..(Half - 1)]
        /\ m.periodic \in [Timer -> BOOLEAN] /\ m.stat \in {"ready", "suspend"}
    BY <2>1, <2>2, TickSizes DEF Lists
  <2>4. m = [list |-> m.list, deadline |-> m.deadline, active |-> m.active, init |-> m.init,
             periodic |-> m.periodic, stat |-> m.stat]
    BY DEF Init
  <2>. QED BY <2>1, <2>3, <2>4 DEF MType, Lists
<1>2. \A x \in Lists : Distinct(m.list[x]) /\ \A t : ~Contains(m.list[x], t)
  BY <1>1 DEF Distinct, Contains
<1>3. Good(m) /\ \A t \in Timer : ~In(m, t)
  BY <1>1, <1>2, KindIs DEF Good, In
<1>4. /\ TimerThread \in Context /\ TimerThread \notin Caller
      /\ pc[TimerThread] = "look" /\ \A c \in Caller : pc[c] = "run"
      /\ \A c \in Context : pc[c] \in {"look", "run"}
  BY TimerAssumption DEF Init, Context
<1>5. Types
  <2>1. 0 \in Ticks /\ 0 \in 0..MaxLate /\ tick \in Ticks
    BY TickSizes, TimerAssumption DEF Ticks, Init
  <2>2. pc \in [Context -> PC] /\ arg \in [Context -> Timer]
    BY DelayIs DEF Init, PC
  <2>. QED BY <1>3, <2>1, <2>2 DEF Types, Init
<1>6. CallerPart
  BY <1>4 DEF CallerPart, Init, Call
<1>7. ThreadPart
  BY <1>1, <1>4 DEF ThreadPart, Init, Call
<1>8. ApartPart /\ ClearPart /\ SolePart
  BY <1>4, <1>3 DEF ApartPart, ClearPart, SolePart, Apart, Context
<1>9. FiredPart
  BY DEF FiredPart, Init
<1>10. FlagPart
  BY <1>1, <1>3 DEF FlagPart
<1>11. DelayPart
  BY <1>1, <1>3, DelayIs, TimerAssumption DEF DelayPart
<1>. QED BY <1>5, <1>6, <1>7, <1>8, <1>9, <1>10, <1>11 DEF LinkInv

LEMMA LinkNext ==
  ASSUME LinkInv, OneUser, [Next]_vars
  PROVE  LinkInv'
<1>1. ASSUME NEW c \in Context, Begin(c) PROVE LinkInv'
  BY <1>1, StartUnlinkKeeps, StopTestKeeps, ControlKeeps, DetachKeeps DEF Begin
<1>2. ASSUME NEW c \in Context, Continue(c) PROVE LinkInv'
  BY <1>2, StartDeadlineKeeps, StartInsertKeeps, StartWakeKeeps, StopUnlinkKeeps, StopClearKeeps
     DEF Continue
<1>3. CASE ThreadStep
  BY <1>1, <1>2, <1>3, LookKeeps, SuspendKeeps, MeasureKeeps, SleepKeeps, CheckSoftKeeps, SoftFireKeeps,
     SoftCallbackKeeps, SoftAfterKeeps, SoftDoneKeeps DEF ThreadStep, Context
<1>4. CASE Interrupt
  BY <1>4, TickKeeps, CheckFireKeeps, CheckCallbackKeeps, CheckDoneKeeps DEF Interrupt
<1>5. CASE UNCHANGED vars
  <2>1. /\ m' = m /\ tick' = tick /\ pc' = pc /\ arg' = arg /\ isr' = isr /\ fired' = fired
        /\ use' = use /\ scan' = scan
    BY <1>5 DEF vars
  <2>2. Types' /\ CallerPart' /\ ThreadPart' /\ DelayPart'
    BY <2>1 DEF LinkInv, Types, CallerPart, ThreadPart, DelayPart
  <2>3. ApartPart' /\ ClearPart' /\ SolePart' /\ FiredPart' /\ FlagPart'
    BY <2>1 DEF LinkInv, ApartPart, ClearPart, SolePart, FiredPart, FlagPart, Busy
  <2>. QED BY <2>2, <2>3 DEF LinkInv
<1>. QED BY <1>1, <1>2, <1>3, <1>4, <1>5 DEF Next, Context

LEMMA LinkAlways == OneUser => (Spec => []LinkInv)
<1>. SUFFICES ASSUME OneUser PROVE Spec => []LinkInv
  OBVIOUS
<1>1. Init => LinkInv
  BY LinkInit
<1>2. LinkInv /\ [Next]_vars => LinkInv'
  BY LinkNext
<1>. QED BY <1>1, <1>2, PTL DEF Spec

\* Every list holds timers of its kind, each once, and the state stays in its types,
\* whatever calls and interrupts are interleaved (rt_timer_start, rt_timer_stop,
\* rt_timer_check and rt_soft_timer_check unlink and link with interrupts enabled between)
THEOREM TimerTypes == OneUser => (Spec => []TypeOK)
<1>1. LinkInv => TypeOK
  BY TypesOK DEF LinkInv
<1>. QED BY <1>1, LinkAlways, PTL

\* RT_TIMER_FLAG_ACTIVATED is set for the timers that are linked, and for no others, when
\* no call is about them: rt_timer_stop can stop what runs and refuses what does not
THEOREM TimerFlags == OneUser => (Spec => []ActiveIffLinked)
<1>1. LinkInv => ActiveIffLinked
  BY DEF LinkInv, FlagPart, ActiveIffLinked, Linked, In
<1>. QED BY <1>1, LinkAlways, PTL

-----------------------------------------------------------------------------
(***************************************************************************)
(* The inductive invariant of the timeouts, as long as no soft timer has a *)
(* timeout of RT_TICK_MAX.                                                 *)
(***************************************************************************)
Span == Half - 1 - 2 * MaxLate

LEMMA Late ==
  /\ MaxLate \in Nat /\ MaxLate >= 1 /\ Half >= 2 * MaxLate + 2
  /\ Span \in Nat /\ Span = Half - 1 - 2 * MaxLate
  /\ Times \subseteq 1..Span
<1>1. PICK h \in Nat, l \in Nat : h = Half /\ l = MaxLate /\ l >= 1
  BY TickSizes, TimerAssumption
<1>2. Times \subseteq 1..(h - 1) /\ Times # {} /\ \A n \in Times : n + 2 * l < h
  BY <1>1, TimerAssumption
<1>3. h >= 2 * l + 2 /\ h - 1 - 2 * l \in Nat
  <2>1. PICK n \in Times : n + 2 * l < h /\ n \in 1..(h - 1)
    BY <1>2
  <2>. QED BY <1>1, <2>1
<1>4. ASSUME NEW n \in Times PROVE n \in 1..(h - 1 - 2 * l)
  <2>1. n \in 1..(h - 1) /\ n + 2 * l < h
    BY <1>2
  <2>. QED BY <1>1, <2>1
<1>. QED BY <1>1, <1>3, <1>4 DEF Span

\* Ticks left at now for the timer t in the record r
To(r, now, t) == Until(r.deadline[t], now)

Lefts(r, now) == [t \in Timer |-> To(r, now, t)]

\* Less is left when it is later, by at most a tick more in the interrupt
InIsr == IF isr = "none" THEN 0 ELSE 1

OrderPart == \A x \in Lists : Ordered(m.list[x], Lefts(m, tick))

\* No timer is overdue, or far off, by so much that ticks could be taken the wrong way round
HardWindow == \A t \in Hard : In(m, t) => To(m, tick, t) \in (0 - MaxLate - InIsr)..Span

SoftWindow == \A t \in Soft : In(m, t) => To(m, tick, t) \in (0 - MaxLate - 1 - scan.ticks)..Span

StartWindow ==
  /\ \A c \in Context : pc[c] = "insert" => To(m, tick, arg[c]) \in (0 - MaxLate)..Span
  /\ \A c \in Caller : pc[c] = "wake" /\ In(m, arg[c]) => To(m, tick, arg[c]) >= 0 - MaxLate

DelayWindow == In(m, Delay) => To(m, tick, Delay) >= 0 - InIsr

\* Somebody sees to it that the timer thread looks at s in time
Attended(s) ==
  \/ fired.hard = Delay
  \/ In(m, Delay) /\ To(m, tick, Delay) <= To(m, tick, s) + MaxLate
  \/ \E c \in Caller : pc[c] = "wake" /\ arg[c] = s

AttendPart == m.stat = "suspend" => \A s \in Soft : In(m, s) => Attended(s)

\* What the timer thread has read of the list before it sleeps
SleepPart ==
  /\ pc[TimerThread] = "suspend" => m.list["soft"] = <<>>
  /\ pc[TimerThread] = "measure" =>
       m.list["soft"] # <<>> /\ scan.next = m.deadline[Head(m.list["soft"])]
  /\ pc[TimerThread] = "sleep" =>
       /\ m.list["soft"] # <<>> /\ scan.next \in 0..Span
       /\ scan.next <= To(m, tick, Head(m.list["soft"])) + scan.ticks

DueInv ==
  /\ OrderPart /\ HardWindow /\ SoftWindow /\ StartWindow /\ DelayWindow
  /\ AttendPart /\ SleepPart

LEMMA ToIs ==
  ASSUME NEW r, Good(r), NEW now \in Ticks, NEW t \in Timer
  PROVE  /\ To(r, now, t) \in Int /\ To(r, now, t) > 0 - Half
         /\ Lefts(r, now)[t] = To(r, now, t)
         /\ Lefts(r, now) \in [Timer -> Int]
<1>1. ASSUME NEW u \in Timer PROVE To(r, now, u) \in Int /\ To(r, now, u) > 0 - Half
  <2>1. PICK d \in Ticks : d = r.deadline[u]
    BY DEF Good, MType, Ticks
  <2>2. PICK z : z = Until(d, now)
    OBVIOUS
  <2>3. z \in Int /\ z > - Half
    BY <2>2, UntilRange
  <2>. QED BY <2>1, <2>2, <2>3, TickSizes DEF To
<1>. QED BY <1>1 DEF Lefts

LEMMA LeftIs ==
  ASSUME NEW t
  PROVE  Left(t) = To(m, tick, t)
BY LeftUntil DEF To

\* A step that links nothing and lets no time pass
LEMMA Shrinks ==
  ASSUME LinkInv, DueInv, tick' = tick, m'.deadline = m.deadline, KeepsOrder(m, m'),
         \A u \in Timer : In(m', u) => In(m, u),
         isr' = "none" <=> isr = "none", scan'.ticks = scan.ticks,
         \A c \in Context : pc'[c] \in {"insert", "wake"} => pc'[c] = pc[c] /\ arg'[c] = arg[c],
         m'.stat = "suspend" => m.stat = "suspend" /\ \A s \in Soft : Attended(s) => Attended(s)',
         SleepPart'
  PROVE  DueInv'
<1>1. \A t : To(m', tick', t) = To(m, tick, t)
  BY DEF To
<1>2. Lefts(m', tick') = Lefts(m, tick) /\ InIsr' = InIsr
  BY <1>1 DEF Lefts, InIsr
<1>3. OrderPart'
  <2>1. Lefts(m, tick) \in [Timer -> Int]
    BY DelayIs, ToIs DEF LinkInv, Types
  <2>. QED BY <1>2, <2>1 DEF DueInv, OrderPart, KeepsOrder
<1>4. HardWindow' /\ SoftWindow'
  BY <1>1, <1>2 DEF DueInv, HardWindow, SoftWindow, Timer
<1>5. StartWindow'
  <2>1. \A c \in Caller : c \in Context
    BY DEF Context
  <2>2. \A c \in Context : arg[c] \in Timer
    BY DEF LinkInv, Types
  <2>. QED BY <1>1, <2>1, <2>2 DEF DueInv, StartWindow
<1>6. DelayWindow'
  BY <1>1, <1>2, DelayIs DEF DueInv, DelayWindow
<1>7. AttendPart'
  BY DEF DueInv, AttendPart, Timer
<1>. QED BY <1>3, <1>4, <1>5, <1>6, <1>7 DEF DueInv

\* An attended timer stays so while the timer thread's timer and the calls go on
LEMMA StaysAttended ==
  ASSUME NEW s, Attended(s), tick' = tick, m'.deadline = m.deadline,
         In(m, Delay) => In(m', Delay), fired.hard = Delay => fired'.hard = Delay,
         \A c \in Caller : pc[c] = "wake" => pc'[c] = "wake" /\ arg'[c] = arg[c]
  PROVE  Attended(s)'
BY DEF Attended, To

\* A step of a call other than the setting and the linking of its timer
LEMMA CallDue ==
  ASSUME LinkInv, OneUser, DueInv, NEW c \in Context, NEW p, At(c, p), p # "wake",
         NEW q, pc' = [pc EXCEPT ![c] = q], q \notin {"insert", "wake", "suspend", "measure", "sleep"},
         \A d \in Context \ {c} : arg'[d] = arg[d], tick' = tick, isr' = isr, fired' = fired,
         scan' = scan,
         m'.deadline = m.deadline, m'.stat = m.stat, KeepsOrder(m, m'),
         \A u \in Timer : In(m', u) => In(m, u), In(m, Delay) => In(m', Delay)
  PROVE  DueInv'
<1>1. /\ pc[c] = p
      /\ c # TimerThread => pc[TimerThread] = "check"
      /\ c = TimerThread => m.stat = "ready"
  BY Runs
<1>2. pc'[c] = q /\ \A d \in Context \ {c} : pc'[d] = pc[d]
  BY DEF LinkInv, Types
<1>3. \A d \in Context : pc'[d] \in {"insert", "wake"} => pc'[d] = pc[d] /\ arg'[d] = arg[d]
  BY <1>2
<1>4. \A d \in Caller : pc[d] = "wake" => pc'[d] = "wake" /\ arg'[d] = arg[d]
  BY <1>1, <1>2 DEF Context
<1>5. \A s \in Soft : Attended(s) => Attended(s)'
  BY <1>4, StaysAttended
<1>6. SleepPart'
  <2>1. pc'[TimerThread] \notin {"suspend", "measure", "sleep"}
    BY <1>1, <1>2 DEF Context
  <2>. QED BY <2>1 DEF SleepPart
<1>7. (isr' = "none" <=> isr = "none") /\ scan'.ticks = scan.ticks
  OBVIOUS
<1>8. m'.stat = "suspend" => m.stat = "suspend" /\ \A s \in Soft : Attended(s) => Attended(s)'
  BY <1>5
<1>. QED BY <1>3, <1>6, <1>7, <1>8, Shrinks

LEMMA StartUnlinkDue ==
  ASSUME LinkInv, OneUser, DueInv, NEW c \in Context, NEW t \in Timer, StartUnlink(c, t)
  PROVE  DueInv'
<1>1. PICK p : p = (IF c = TimerThread THEN "callback" ELSE "run") /\ At(c, p) /\ p # "wake" /\ t # Delay
  BY Begins DEF StartUnlink
<1>2. PICK q : q = Unlink(m, t) /\ m' = Deactivate(q, t)
  BY DEF StartUnlink
<1>3. /\ Relisted(m, q) /\ (\A u \in Timer : In(q, u) <=> In(m, u) /\ u # t) /\ KeepsOrder(m, q)
  BY <1>2, UnlinkIs DEF LinkInv, Types
<1>4. Relisted(q, m') /\ m'.list = q.list /\ \A u \in Timer : In(m', u) <=> In(q, u)
  <2>1. Good(q)
    BY <1>3 DEF Relisted
  <2>2. PICK n : n = Deactivate(q, t)
    OBVIOUS
  <2>3. Relisted(q, n) /\ n.list = q.list /\ \A u \in Timer : In(n, u) <=> In(q, u)
    BY ONLY t \in Timer, <2>1, <2>2, DeactivateIs
  <2>. QED BY <1>2, <2>2, <2>3
<1>5. /\ m'.deadline = m.deadline /\ m'.stat = m.stat /\ KeepsOrder(m, m')
      /\ (\A u \in Timer : In(m', u) => In(m, u)) /\ (In(m, Delay) => In(m', Delay))
  BY <1>1, <1>3, <1>4, DelayIs DEF Relisted, KeepsOrder
<1>6. /\ pc' = [pc EXCEPT ![c] = "deadline"] /\ (\A d \in Context \ {c} : arg'[d] = arg[d])
      /\ tick' = tick /\ isr' = isr /\ fired' = fired /\ scan' = scan
  BY DEF StartUnlink, Goto, LinkInv, Types
<1>. QED BY <1>1, <1>5, <1>6, CallDue

LEMMA StopTestDue ==
  ASSUME LinkInv, OneUser, DueInv, NEW c \in Context, NEW t \in Timer, StopTest(c, t)
  PROVE  DueInv'
<1>1. PICK p : p = (IF c = TimerThread THEN "callback" ELSE "run") /\ At(c, p) /\ p # "wake"
  BY Begins DEF StopTest
<1>2. /\ pc' = [pc EXCEPT ![c] = "stop"] /\ (\A d \in Context \ {c} : arg'[d] = arg[d]) /\ m' = m
      /\ tick' = tick /\ isr' = isr /\ fired' = fired /\ scan' = scan /\ KeepsOrder(m, m')
  BY DEF StopTest, Goto, LinkInv, Types, KeepsOrder
<1>. QED BY <1>1, <1>2, CallDue

LEMMA StopUnlinkDue ==
  ASSUME LinkInv, OneUser, DueInv, NEW c \in Context, StopUnlink(c)
  PROVE  DueInv'
<1>1. At(c, "stop") /\ arg[c] \in Timer /\ arg[c] # Delay
  BY Continues DEF StopUnlink, Call
<1>2. /\ Relisted(m, m') /\ (\A u \in Timer : In(m', u) <=> In(m, u) /\ u # arg[c]) /\ KeepsOrder(m, m')
  BY <1>1, UnlinkIs DEF StopUnlink, LinkInv, Types
<1>3. /\ m'.deadline = m.deadline /\ m'.stat = m.stat /\ KeepsOrder(m, m')
      /\ (\A u \in Timer : In(m', u) => In(m, u)) /\ (In(m, Delay) => In(m', Delay))
  BY <1>1, <1>2, DelayIs DEF Relisted
<1>4. /\ pc' = [pc EXCEPT ![c] = "clear"] /\ (\A d \in Context \ {c} : arg'[d] = arg[d])
      /\ tick' = tick /\ isr' = isr /\ fired' = fired /\ scan' = scan
  BY DEF StopUnlink, Goto, LinkInv, Types
<1>. QED BY <1>1, <1>3, <1>4, CallDue

LEMMA StopClearDue ==
  ASSUME LinkInv, OneUser, DueInv, NEW c \in Context, StopClear(c)
  PROVE  DueInv'
<1>1. At(c, "clear") /\ arg[c] \in Timer
  BY Continues DEF StopClear, Call
<1>2. Relisted(m, m') /\ m'.list = m.list /\ \A u \in Timer : In(m', u) <=> In(m, u)
  BY <1>1, DeactivateIs DEF StopClear, LinkInv, Types
<1>3. /\ m'.deadline = m.deadline /\ m'.stat = m.stat /\ KeepsOrder(m, m')
      /\ (\A u \in Timer : In(m', u) => In(m, u)) /\ (In(m, Delay) => In(m', Delay))
  BY <1>2, DelayIs DEF Relisted, KeepsOrder
<1>4. PICK q : q = (IF c = TimerThread THEN scan.back ELSE "run") /\ pc' = [pc EXCEPT ![c] = q]
  BY DEF StopClear, Return, Goto
<1>5. q \notin {"insert", "wake", "suspend", "measure", "sleep"}
  BY <1>4 DEF LinkInv, Types
<1>6. /\ (\A d \in Context \ {c} : arg'[d] = arg[d])
      /\ tick' = tick /\ isr' = isr /\ fired' = fired /\ scan' = scan
  BY DEF StopClear, LinkInv, Types
<1>. QED BY <1>1, <1>3, <1>4, <1>5, <1>6, CallDue

LEMMA ControlDue ==
  ASSUME LinkInv, OneUser, DueInv, NEW c \in Context, NEW t \in Timer, Control(c, t)
  PROVE  DueInv'
<1>1. PICK o : m' = [m EXCEPT !.init[t] = o.init] \/ m' = [m EXCEPT !.periodic[t] = o.periodic]
  BY DEF Control
<1>2. /\ m'.deadline = m.deadline /\ m'.stat = m.stat /\ m'.list = m.list
  BY <1>1 DEF LinkInv, Types, Good, MType
<1>3. KeepsOrder(m, m') /\ \A u \in Timer : In(m', u) <=> In(m, u)
  BY <1>2 DEF KeepsOrder, In
<1>4. /\ pc' = pc /\ arg' = arg /\ tick' = tick
      /\ isr' = isr /\ fired' = fired /\ scan' = scan /\ At(c, "run")
  BY DEF Control
<1>5. pc' = [pc EXCEPT ![c] = "run"]
  BY <1>4 DEF At, LinkInv, Types
<1>. QED BY <1>2, <1>3, <1>4, <1>5, DelayIs, CallDue

LEMMA DetachDue ==
  ASSUME LinkInv, OneUser, DueInv, NEW c \in Context, NEW t \in Timer, Detach(c, t)
  PROVE  DueInv'
<1>1. t \in use.ctrl[c] /\ use \in Uses /\ c \in Caller /\ At(c, "run")
  BY DEF Detach, LinkInv, CallerPart
<1>2. t # Delay
  BY <1>1, UseIs
<1>3. PICK q : q = Unlink(m, t)
  OBVIOUS
<1>4. PICK r : r = Deactivate(q, t)
  OBVIOUS
<1>5. m' = [r EXCEPT !.init[t] = Created[t].init, !.periodic[t] = Created[t].periodic]
  BY <1>3, <1>4 DEF Detach
<1>6. /\ Relisted(m, q) /\ (\A u \in Timer : In(q, u) <=> In(m, u) /\ u # t) /\ KeepsOrder(m, q)
  BY <1>3, UnlinkIs DEF LinkInv, Types
<1>7. Relisted(q, r) /\ r.list = q.list /\ \A u \in Timer : In(r, u) <=> In(q, u)
  BY <1>4, <1>6, DeactivateIs DEF Relisted
<1>8. /\ m'.deadline = r.deadline /\ m'.stat = r.stat /\ m'.list = r.list
  BY <1>5, <1>7 DEF Relisted, Good, MType
<1>9. \A u \in Timer : In(m', u) <=> In(m, u) /\ u # t
  BY <1>6, <1>7, <1>8 DEF In
<1>10. /\ m'.deadline = m.deadline /\ m'.stat = m.stat /\ KeepsOrder(m, m')
  BY <1>6, <1>7, <1>8 DEF Relisted, KeepsOrder
<1>11. /\ pc' = pc /\ arg' = arg /\ tick' = tick /\ isr' = isr /\ fired' = fired /\ scan' = scan
  BY DEF Detach
<1>12. pc' = [pc EXCEPT ![c] = "run"]
  BY <1>1, <1>11 DEF At, LinkInv, Types
<1>. QED BY <1>1, <1>2, <1>9, <1>10, <1>11, <1>12, DelayIs, CallDue

LEMMA StartWakeDue ==
  ASSUME LinkInv, OneUser, DueInv, NEW c \in Context, StartWake(c)
  PROVE  DueInv'
<1>1. /\ At(c, "wake") /\ pc[c] = "wake"
      /\ c # TimerThread => m.stat = "suspend" /\ pc[TimerThread] = "check"
      /\ c = TimerThread => m.stat = "ready"
  BY Continues DEF StartWake, Call
<1>2. PICK q : q = (IF c = TimerThread THEN scan.back ELSE "run") /\ pc' = [pc EXCEPT ![c] = q]
  BY DEF StartWake, Return, Goto
<1>3. q \in {"run", "after", "scan"}
  BY <1>2 DEF LinkInv, Types
<1>4. /\ arg' = arg /\ tick' = tick /\ isr' = isr /\ fired' = fired /\ scan' = scan
  BY DEF StartWake
<1>5. /\ m'.stat = "ready" /\ m'.deadline = m.deadline /\ KeepsOrder(m, m')
      /\ m.stat = "ready" => m' = m
      /\ m.stat = "suspend" => \A u \in Timer : In(m', u) <=> In(m, u) /\ ~(u = Delay /\ m.active[Delay])
  <2>1. Good(m) /\ m' = ResumeThread(m)
    BY DEF StartWake, LinkInv, Types
  <2>2. PICK r : r = m
    OBVIOUS
  <2>3. PICK n : n = ResumeThread(r)
    OBVIOUS
  <2>6. Good(r)
    BY <2>1, <2>2
  <2>4. /\ Good(n) /\ n.stat = "ready"
        /\ n.deadline = r.deadline /\ n.init = r.init /\ n.periodic = r.periodic
        /\ r.stat = "ready" => n = r
        /\ r.stat = "suspend" =>
             /\ n.active = [r.active EXCEPT ![Delay] = FALSE]
             /\ \A u \in Timer : In(n, u) <=> In(r, u) /\ ~(u = Delay /\ r.active[Delay])
        /\ n.list["soft"] = r.list["soft"] /\ KeepsOrder(r, n)
    BY ONLY <2>3, <2>6, ResumeIs
  <2>5. m' = n /\ r = m
    BY <2>1, <2>2, <2>3
  <2>. QED BY <2>4, <2>5
<1>6. \A u \in Timer : In(m', u) => In(m, u)
  BY <1>5 DEF LinkInv, Types, Good, MType
<1>7. \A d \in Context : pc'[d] \in {"insert", "wake"} => pc'[d] = pc[d] /\ arg'[d] = arg[d]
  BY <1>2, <1>3, <1>4 DEF LinkInv, Types
<1>8. SleepPart'
  <2>1. pc'[TimerThread] \notin {"suspend", "measure", "sleep"}
    BY <1>1, <1>2, <1>3, TimerAssumption DEF LinkInv, Types, Context
  <2>. QED BY <2>1 DEF SleepPart
<1>9. (isr' = "none" <=> isr = "none") /\ scan'.ticks = scan.ticks /\ m'.stat # "suspend"
  BY <1>4, <1>5
<1>. QED BY <1>4, <1>5, <1>6, <1>7, <1>8, <1>9, Shrinks

\* A step of the timer thread that links nothing
LEMMA ThreadDue ==
  ASSUME LinkInv, DueInv, NEW p, At(TimerThread, p), NEW q, q \notin {"insert", "wake"},
         pc' = [pc EXCEPT ![TimerThread] = q], \A c \in Caller : arg'[c] = arg[c],
         tick' = tick, isr' = isr, scan'.ticks = scan.ticks,
         m'.deadline = m.deadline, m'.stat = m.stat, KeepsOrder(m, m'),
         \A u \in Timer : In(m', u) => In(m, u),
         SleepPart'
  PROVE  DueInv'
<1>1. m.stat = "ready"
  BY ThreadIs
<1>2. \A d \in Context : pc'[d] \in {"insert", "wake"} => pc'[d] = pc[d] /\ arg'[d] = arg[d]
  BY DEF LinkInv, Types, Context
<1>3. m'.stat # "suspend" /\ (isr' = "none" <=> isr = "none")
  BY <1>1
<1>. QED BY <1>2, <1>3, Shrinks

\* rt_timer_list_next_timeout: nobody's timeout reads as an empty list
LEMMA LookDue ==
  ASSUME LinkInv, DueInv, NoneAtTickMax, Look
  PROVE  DueInv'
<1>1. At(TimerThread, "look") /\ Good(m) /\ TimerThread \in Context
  BY ThreadIs DEF Look
<1>2. PICK q : q = IF NextTimeout = TickMax THEN "suspend" ELSE "measure"
  OBVIOUS
<1>3. /\ pc' = [pc EXCEPT ![TimerThread] = q] /\ q \notin {"insert", "wake"}
      /\ arg' = arg /\ tick' = tick /\ isr' = isr /\ m' = m
      /\ scan' = [scan EXCEPT !.next = NextTimeout]
  BY <1>2 DEF Look, Goto
<1>4. scan'.ticks = scan.ticks /\ scan'.next = NextTimeout
  BY <1>3 DEF LinkInv, Types
<1>5. SleepPart'
  <2>1. pc'[TimerThread] = q
    BY <1>1, <1>3 DEF LinkInv, Types
  <2>2. m.list["soft"] = <<>> => NextTimeout = TickMax
    BY DEF NextTimeout
  <2>3. m.list["soft"] # <<>> => /\ NextTimeout = m.deadline[Head(m.list["soft"])]
                                 /\ NextTimeout # TickMax
    <3>1. ASSUME m.list["soft"] # <<>> PROVE Head(m.list["soft"]) \in Soft
      BY <1>1, <3>1, SoftHead
    <3>. QED BY <3>1 DEF NextTimeout, NoneAtTickMax
  <2>. QED BY <1>2, <1>3, <1>4, <2>1, <2>2, <2>3 DEF SleepPart
<1>6. KeepsOrder(m, m') /\ \A c \in Caller : arg'[c] = arg[c]
  BY <1>3 DEF KeepsOrder
<1>. QED BY <1>1, <1>3, <1>4, <1>5, <1>6, ThreadDue

\* What is left of the first timeout, which is not taken for one far off when it is past
LEMMA MeasureDue ==
  ASSUME LinkInv, DueInv, Measure
  PROVE  DueInv'
<1>1. At(TimerThread, "measure") /\ Good(m) /\ TimerThread \in Context /\ pc[TimerThread] = "measure"
  BY ThreadIs DEF Measure
<1>2. PICK d : d = Diff(scan.next, tick)
  OBVIOUS
<1>3. PICK q : q = IF d < Half THEN "sleep" ELSE "check"
  OBVIOUS
<1>4. /\ pc' = [pc EXCEPT ![TimerThread] = q] /\ q \notin {"insert", "wake"}
      /\ arg' = arg /\ tick' = tick /\ isr' = isr /\ m' = m
      /\ scan' = [scan EXCEPT !.next = IF d < Half THEN d ELSE 0]
  BY <1>2, <1>3 DEF Measure, Goto
<1>5. scan'.ticks = scan.ticks /\ (q = "sleep" => scan'.next = d)
  BY <1>3, <1>4 DEF LinkInv, Types
<1>6. m.list["soft"] # <<>> /\ scan.next = m.deadline[Head(m.list["soft"])]
  BY <1>1 DEF DueInv, SleepPart
<1>7. PICK t \in Soft : t = Head(m.list["soft"]) /\ In(m, t) /\ t \in Timer
  BY <1>1, <1>6, SoftHead DEF Timer
<1>8. d < Half => d \in 0..Span /\ d <= To(m, tick, t) + scan.ticks
  <2>1. PICK e \in Ticks, now \in Ticks : e = m.deadline[t] /\ now = tick
    BY <1>7 DEF LinkInv, Types, Good, MType, Ticks
  <2>2. PICK u : u = Until(e, now) /\ u = To(m, tick, t)
    BY <2>1 DEF To
  <2>3. /\ u \in Int
        /\ u >= 0 => d = u
        /\ u < 0 => d = u + TickRange
    <3>1. /\ Until(e, now) \in Int
          /\ Until(e, now) >= 0 => Diff(e, now) = Until(e, now)
          /\ Until(e, now) < 0 => Diff(e, now) = Until(e, now) + TickRange
      BY ONLY e \in Ticks, now \in Ticks, UntilRange
    <3>2. d = Diff(e, now)
      BY <1>2, <1>6, <1>7, <2>1
    <3>. QED BY ONLY <2>2, <3>1, <3>2
  <2>4. u \in (0 - MaxLate - 1 - scan.ticks)..Span /\ scan.ticks \in 0..MaxLate
    BY <1>7, <2>2 DEF DueInv, SoftWindow, LinkInv, Types
  <2>5. PICK k \in Nat, l \in Nat, h \in Nat : k = scan.ticks /\ l = MaxLate /\ h = Half /\ k <= l
    BY <2>4, Late, TickSizes
  <2>6. TickRange >= 2 * h + 1 /\ TickRange \in Nat /\ h >= 2 * l + 2 /\ Span = h - 1 - 2 * l
    BY <2>5, Late, TickSizes
  <2>7. d < h => d \in 0..Span /\ d <= u + k
    BY <2>3, <2>4, <2>5, <2>6
  <2>. QED BY <2>2, <2>5, <2>7
<1>9. SleepPart'
  <2>1. pc'[TimerThread] = q
    BY <1>1, <1>4 DEF LinkInv, Types
  <2>2. To(m', tick', t) = To(m, tick, t)
    BY <1>4 DEF To
  <2>. QED BY <1>3, <1>4, <1>5, <1>6, <1>7, <1>8, <2>1, <2>2 DEF SleepPart
<1>10. KeepsOrder(m, m') /\ \A c \in Caller : arg'[c] = arg[c]
  BY <1>4 DEF KeepsOrder
<1>. QED BY <1>1, <1>4, <1>5, <1>9, <1>10, ThreadDue

LEMMA ScanDue ==
  ASSUME LinkInv, DueInv, CheckSoft \/ SoftCallback \/ SoftDone
  PROVE  DueInv'
<1>1. PICK p, q : /\ At(TimerThread, p) /\ pc' = [pc EXCEPT ![TimerThread] = q]
                  /\ q \in {"scan", "after", "look"}
  BY DEF CheckSoft, SoftCallback, SoftDone, Goto
<1>2. TimerThread \in Context /\ TimerThread \notin Caller
  BY <1>1, ThreadIs
<1>3. /\ m' = m /\ tick' = tick /\ isr' = isr /\ scan'.ticks = scan.ticks
      /\ \A c \in Caller : arg'[c] = arg[c]
  BY <1>2 DEF CheckSoft, SoftCallback, SoftDone, LinkInv, Types, Context
<1>4. SleepPart'
  <2>1. pc'[TimerThread] = q
    BY <1>1, <1>2 DEF LinkInv, Types
  <2>. QED BY <1>1, <2>1 DEF SleepPart
<1>5. KeepsOrder(m, m') /\ q \notin {"insert", "wake"}
  BY <1>1, <1>3 DEF KeepsOrder
<1>. QED BY <1>1, <1>3, <1>4, <1>5, ThreadDue

LEMMA SoftFireDue ==
  ASSUME LinkInv, DueInv, SoftFire
  PROVE  DueInv'
<1>1. At(TimerThread, "scan") /\ Good(m) /\ TimerThread \in Context
  BY ThreadIs DEF SoftFire
<1>2. scan.n \in Timer
  BY DEF SoftFire, SoftDue, LinkInv, Types, Timer
<1>3. /\ pc' = [pc EXCEPT ![TimerThread] = "callback"] /\ arg' = arg
      /\ tick' = tick /\ isr' = isr /\ scan'.ticks = scan.ticks
  BY DEF SoftFire, Goto, LinkInv, Types
<1>4. Relisted(m, m') /\ KeepsOrder(m, m') /\ \A u \in Timer : In(m', u) <=> In(m, u) /\ u # scan.n
  BY <1>1, <1>2, UnlinkIs DEF SoftFire
<1>5. SleepPart'
  <2>1. pc'[TimerThread] = "callback"
    BY <1>1, <1>3 DEF LinkInv, Types
  <2>. QED BY <2>1 DEF SleepPart
<1>6. /\ m'.deadline = m.deadline /\ m'.stat = m.stat /\ \A u \in Timer : In(m', u) => In(m, u)
  BY <1>4 DEF Relisted
<1>7. \A c \in Caller : arg'[c] = arg[c]
  BY <1>3
<1>. QED BY <1>1, <1>3, <1>4, <1>5, <1>6, <1>7, ThreadDue

LEMMA SoftAfterDue ==
  ASSUME LinkInv, DueInv, SoftAfter
  PROVE  DueInv'
<1>1. /\ At(TimerThread, "after") /\ Good(m) /\ TimerThread \in Context /\ TimerThread \notin Caller
      /\ pc[TimerThread] = "after"
  BY ThreadIs DEF SoftAfter
<1>2. PICK t \in Timer : t = fired.soft
  BY <1>1 DEF LinkInv, Types, ThreadPart, Timer
<1>3. PICK again \in BOOLEAN : again = (m.periodic[t] /\ m.active[t])
  OBVIOUS
<1>4. PICK p : p = IF again THEN "deadline" ELSE "scan"
  OBVIOUS
<1>5. /\ pc' = [pc EXCEPT ![TimerThread] = p] /\ p \notin {"insert", "wake"}
      /\ tick' = tick /\ isr' = isr /\ scan'.ticks = scan.ticks
      /\ \A c \in Caller : arg'[c] = arg[c]
  BY <1>1, <1>2, <1>3, <1>4 DEF SoftAfter, Goto, LinkInv, Types, Context
<1>6. PICK q : q = (IF again THEN Unlink(m, t) ELSE m) /\ m' = Deactivate(q, t)
  BY <1>2, <1>3 DEF SoftAfter
<1>7. Relisted(m, q) /\ KeepsOrder(m, q) /\ \A u \in Timer : In(q, u) => In(m, u)
  <2>1. CASE again
    <3>1. q = Unlink(m, t)
      BY <1>6, <2>1
    <3>2. Relisted(m, q) /\ KeepsOrder(m, q) /\ \A u \in Timer : In(q, u) <=> In(m, u) /\ u # t
      BY <1>1, <3>1, UnlinkIs
    <3>. QED BY <3>2
  <2>2. CASE ~again
    BY <1>1, <1>6, <2>2 DEF Relisted, KeepsOrder
  <2>. QED BY <2>1, <2>2
<1>8. Relisted(q, m') /\ m'.list = q.list /\ \A u \in Timer : In(m', u) <=> In(q, u)
  <2>1. Good(q)
    BY <1>7 DEF Relisted
  <2>2. PICK n : n = Deactivate(q, t)
    OBVIOUS
  <2>3. Relisted(q, n) /\ n.list = q.list /\ \A u \in Timer : In(n, u) <=> In(q, u)
    BY ONLY t \in Timer, <2>1, <2>2, DeactivateIs
  <2>. QED BY <1>6, <2>2, <2>3
<1>9. /\ m'.deadline = m.deadline /\ m'.stat = m.stat /\ KeepsOrder(m, m')
      /\ \A u \in Timer : In(m', u) => In(m, u)
  BY <1>7, <1>8 DEF Relisted, KeepsOrder
<1>10. SleepPart'
  <2>1. pc'[TimerThread] = p
    BY <1>1, <1>5 DEF LinkInv, Types
  <2>. QED BY <1>4, <2>1 DEF SleepPart
<1>. QED BY <1>1, <1>5, <1>9, <1>10, ThreadDue

LEMMA CheckFireDue ==
  ASSUME LinkInv, DueInv, CheckFire
  PROVE  DueInv'
<1>1. PICK t : t = Head(m.list["hard"])
  OBVIOUS
<1>2. t \in Hard /\ t \in Timer /\ Kind(t) = "hard"
  BY <1>1, HardHead, KindIs DEF CheckFire, HardDue, LinkInv, Types, Timer
<1>3. /\ pc' = pc /\ arg' = arg /\ tick' = tick /\ scan' = scan
      /\ isr = "check" /\ isr' = "callback" /\ fired' = [fired EXCEPT !.hard = t]
  BY <1>1 DEF CheckFire
<1>4. fired'.hard = t /\ fired.hard # Delay
  BY <1>3, TimerAssumption DEF LinkInv, Types, ThreadPart, Timer
<1>5. /\ Relisted(m, m') /\ KeepsOrder(m, m')
      /\ \A u \in Timer : In(m', u) <=> In(m, u) /\ u # t
      /\ \A x \in Lists \ {"hard"} : m'.list[x] = m.list[x]
  BY <1>1, <1>2, UnlinkIs DEF CheckFire, LinkInv, Types
<1>6. m'.list["soft"] = m.list["soft"] /\ m'.deadline = m.deadline /\ m'.stat = m.stat
  BY <1>5 DEF Relisted, Lists
<1>7. SleepPart'
  BY <1>3, <1>6 DEF DueInv, SleepPart, To
<1>8. \A s \in Soft : Attended(s) => Attended(s)'
  <2>1. CASE t = Delay
    BY <1>4, <2>1 DEF Attended
  <2>2. CASE t # Delay
    <3>1. In(m, Delay) => In(m', Delay)
      BY <1>5, <2>2, DelayIs
    <3>. QED BY <1>3, <1>4, <1>6, <3>1, StaysAttended
  <2>. QED BY <2>1, <2>2
<1>9. \A d \in Context : pc'[d] \in {"insert", "wake"} => pc'[d] = pc[d] /\ arg'[d] = arg[d]
  BY <1>3
<1>10. (isr' = "none" <=> isr = "none") /\ scan'.ticks = scan.ticks
  BY <1>3
<1>11. (\A u \in Timer : In(m', u) => In(m, u))
       /\ (m'.stat = "suspend" => m.stat = "suspend" /\ \A s \in Soft : Attended(s) => Attended(s)')
  BY <1>5, <1>6, <1>8
<1>. QED BY <1>3, <1>5, <1>6, <1>7, <1>9, <1>10, <1>11, Shrinks

\* The order of a list does not change when all of it is as much sooner or later
LEMMA SameOrder ==
  ASSUME NEW s \in Seq(Timer), NEW f \in [Timer -> Int], NEW g \in [Timer -> Int], NEW k \in Int,
         Ordered(s, f), \A u \in Timer : Contains(s, u) => g[u] = f[u] + k
  PROVE  Ordered(s, g)
<1>. SUFFICES ASSUME NEW i \in 1..Len(s), NEW j \in 1..Len(s), i < j PROVE g[s[i]] <= g[s[j]]
  BY DEF Ordered
<1>1. s[i] \in Timer /\ s[j] \in Timer /\ Contains(s, s[i]) /\ Contains(s, s[j])
  BY DEF Contains
<1>2. f[s[i]] <= f[s[j]] /\ f[s[i]] \in Int /\ f[s[j]] \in Int
  BY <1>1 DEF Ordered
<1>3. g[s[i]] = f[s[i]] + k /\ g[s[j]] = f[s[j]] + k
  BY <1>1
<1>. QED BY <1>2, <1>3

LEMMA StaysOrdered ==
  ASSUME NEW s \in Seq(Timer), NEW f \in [Timer -> Int], NEW g \in [Timer -> Int],
         Ordered(s, f), \A u \in Timer : Contains(s, u) => g[u] = f[u]
  PROVE  Ordered(s, g)
BY SameOrder

LEMMA ListOf ==
  ASSUME NEW r, Good(r), NEW x \in Lists, NEW u \in Timer
  PROVE  /\ r.list[x] \in Seq(Timer)
         /\ Contains(r.list[x], u) <=> In(r, u) /\ Kind(u) = x
BY DEF Good, MType, In

\* The timeouts of the linked timers lie within half of what a tick can count
LEMMA Windows ==
  ASSUME LinkInv, DueInv, NEW u \in Timer, In(m, u)
  PROVE  /\ To(m, tick, u) \in Int /\ To(m, tick, u) <= Span
         /\ To(m, tick, u) >= 0 - MaxLate - 1 - MaxLate
         /\ u \in Hard => To(m, tick, u) >= 0 - MaxLate - InIsr
         /\ u \in Soft => To(m, tick, u) >= 0 - MaxLate - 1 - scan.ticks
<1>1. PICK k \in Nat, l \in Nat, w \in Nat, i \in Nat :
        k = scan.ticks /\ l = MaxLate /\ w = Span /\ i = InIsr /\ k <= l /\ i <= 1
  BY Late DEF LinkInv, Types, InIsr
<1>2. /\ u \in Hard => To(m, tick, u) \in (0 - l - i)..w
      /\ u \in Soft => To(m, tick, u) \in (0 - l - 1 - k)..w
  BY <1>1 DEF DueInv, HardWindow, SoftWindow
<1>3. PICK z : z = To(m, tick, u)
  OBVIOUS
<1>4. /\ u \in Hard => z \in (0 - l - i)..w
      /\ u \in Soft => z \in (0 - l - 1 - k)..w
  BY <1>2, <1>3
<1>5. l >= 1
  BY <1>1, Late
<1>6. /\ z \in Int /\ z <= w /\ z >= 0 - l - 1 - l
      /\ u \in Hard => z >= 0 - l - i
      /\ u \in Soft => z >= 0 - l - 1 - k
  BY <1>1, <1>4, <1>5 DEF Timer
<1>. QED BY <1>1, <1>3, <1>6

LEMMA StartDeadlineDue ==
  ASSUME LinkInv, OneUser, DueInv, NEW c \in Context, StartDeadline(c)
  PROVE  DueInv'
<1>1. PICK t \in Timer : t = arg[c] /\ t # Delay
  BY Continues DEF StartDeadline, Call
<1>2. /\ isr = "none" /\ pc[c] = "deadline" /\ ~In(m, t)
      /\ c # TimerThread => pc[TimerThread] = "check"
  BY <1>1, Continues DEF StartDeadline, Call, LinkInv, ApartPart, Apart
<1>3. /\ pc' = [pc EXCEPT ![c] = "insert"] /\ arg' = arg
      /\ tick' = tick /\ isr' = isr /\ fired' = fired /\ scan' = scan /\ m' = SetDeadline(m, t)
  BY <1>1 DEF StartDeadline, Goto
<1>4. Good(m) /\ tick \in Ticks
  BY DEF LinkInv, Types
<1>5. /\ Good(m') /\ m'.deadline = [m.deadline EXCEPT ![t] = (tick + m.init[t]) % TickRange]
      /\ m'.list = m.list /\ m'.active = m.active
      /\ m'.init = m.init /\ m'.periodic = m.periodic /\ m'.stat = m.stat
      /\ \A u \in Timer : In(m', u) <=> In(m, u)
  BY <1>1, <1>3, <1>4, SetDeadlineIs
<1>6. pc'[c] = "insert" /\ \A d \in Context \ {c} : pc'[d] = pc[d]
  BY <1>3 DEF LinkInv, Types
<1>7. \A u \in Timer \ {t} : To(m', tick', u) = To(m, tick, u)
  BY <1>3, <1>4, <1>5 DEF To, Good, MType
<1>8. To(m', tick', t) \in 1..Span
  <2>1. PICK n \in Times : n = m.init[t]
    BY <1>1 DEF LinkInv, DelayPart
  <2>2. n \in 1..Span /\ n \in 0..(Half - 1)
    BY Late, TickSizes
  <2>3. m'.deadline[t] = (tick + n) % TickRange
    BY <1>4, <1>5, <2>1 DEF Good, MType
  <2>4. Until(m'.deadline[t], tick) = n
    BY <1>4, <2>2, <2>3, UntilSet
  <2>. QED BY <1>3, <2>2, <2>4 DEF To
<1>9. InIsr' = InIsr /\ \A u \in Timer : In(m', u) => In(m, u) /\ u # t
  BY <1>2, <1>3, <1>5 DEF InIsr
<1>10. OrderPart'
  <2>1. ASSUME NEW x \in Lists PROVE Ordered(m'.list[x], Lefts(m', tick'))
    <3>1. PICK s \in Seq(Timer) : s = m.list[x] /\ s = m'.list[x]
      BY <1>4, <1>5, ListOf, DelayIs
    <3>2. PICK f \in [Timer -> Int], g \in [Timer -> Int] : f = Lefts(m, tick) /\ g = Lefts(m', tick')
      BY <1>3, <1>4, <1>5, ToIs, DelayIs
    <3>3. \A u \in Timer : Contains(s, u) => g[u] = f[u]
      <4>1. \A u \in Timer : f[u] = To(m, tick, u) /\ g[u] = To(m', tick', u) /\ f[u] \in Int
        BY <3>2 DEF Lefts
      <4>2. \A u \in Timer : Contains(m.list[x], u) => In(m, u)
        BY <1>4, ListOf
      <4>. QED BY <1>2, <1>7, <3>1, <4>1, <4>2
    <3>4. Ordered(s, f)
      BY <3>1, <3>2 DEF DueInv, OrderPart
    <3>5. Ordered(s, g)
      BY ONLY <3>3, <3>4, StaysOrdered, s \in Seq(Timer), f \in [Timer -> Int], g \in [Timer -> Int]
    <3>. QED BY <3>1, <3>2, <3>5
  <2>. QED BY <2>1 DEF OrderPart
<1>11. HardWindow' /\ SoftWindow'
  BY <1>3, <1>7, <1>9 DEF DueInv, HardWindow, SoftWindow, Timer
<1>12. DelayWindow'
  BY <1>7, <1>9, DelayIs DEF DueInv, DelayWindow
<1>13. StartWindow'
  <2>1. PICK l \in Nat, w \in Nat : l = MaxLate /\ w = Span
    BY Late
  <2>2. To(m', tick', t) \in (0 - l)..w
    BY <1>8, <2>1
  <2>3. \A d \in Context : arg[d] \in Timer
    BY DEF LinkInv, Types
  <2>4. ASSUME NEW d \in Context, pc'[d] = "insert" PROVE To(m', tick', arg'[d]) \in (0 - MaxLate)..Span
    <3>1. CASE arg[d] = t
      BY <1>3, <2>1, <2>2, <3>1
    <3>2. CASE arg[d] # t
      BY <1>1, <1>3, <1>6, <1>7, <2>3, <2>4, <3>2 DEF DueInv, StartWindow
    <3>. QED BY <3>1, <3>2
  <2>5. ASSUME NEW d \in Caller, pc'[d] = "wake", In(m', arg'[d])
        PROVE  To(m', tick', arg'[d]) >= 0 - MaxLate
    <3>1. d \in Context /\ arg[d] # t /\ In(m, arg[d]) /\ arg[d] \in Timer
      BY <1>3, <1>9, <2>3, <2>5 DEF Context
    <3>. QED BY <1>1, <1>3, <1>6, <1>7, <2>5, <3>1 DEF DueInv, StartWindow
  <2>. QED BY <2>4, <2>5 DEF StartWindow
<1>14. AttendPart'
  <2>. SUFFICES ASSUME m'.stat = "suspend", NEW s \in Soft, In(m', s) PROVE Attended(s)'
    BY DEF AttendPart
  <2>1. s \in Timer /\ s # t /\ In(m, s) /\ m.stat = "suspend"
    BY <1>5, <1>9 DEF Timer
  <2>2. Attended(s)
    BY <2>1 DEF DueInv, AttendPart
  <2>. QED BY <1>1, <1>2, <1>3, <1>5, <1>6, <1>7, <2>1, <2>2, DelayIs DEF Attended, Context
<1>15. SleepPart'
  <2>1. pc'[TimerThread] \notin {"suspend", "measure", "sleep"}
    BY <1>2, <1>6 DEF Context
  <2>. QED BY <2>1 DEF SleepPart
<1>. QED BY <1>10, <1>11, <1>12, <1>13, <1>14, <1>15 DEF DueInv

LEMMA StartInsertDue ==
  ASSUME LinkInv, OneUser, DueInv, NEW c \in Context, StartInsert(c)
  PROVE  DueInv'
<1>1. PICK t \in Timer : t = arg[c] /\ t # Delay
  BY Continues DEF StartInsert, Call
<1>2. /\ isr = "none" /\ pc[c] = "insert" /\ ~In(m, t)
      /\ c # TimerThread => c \in Caller /\ pc[TimerThread] = "check"
      /\ c = TimerThread => m.stat = "ready"
  BY <1>1, Continues DEF StartInsert, Call, LinkInv, ApartPart, Apart
<1>3. /\ arg' = arg /\ tick' = tick /\ isr' = isr /\ fired' = fired /\ scan' = scan /\ m' = Link(m, t)
  BY <1>1 DEF StartInsert
<1>4. PICK q : /\ q = (IF t \in Soft THEN "wake" ELSE IF c = TimerThread THEN scan.back ELSE "run")
               /\ pc' = [pc EXCEPT ![c] = q]
  BY <1>1 DEF StartInsert, Goto, Return
<1>5. /\ pc'[c] = q /\ (\A d \in Context \ {c} : pc'[d] = pc[d])
      /\ q \in {"wake", "after", "scan", "run"}
  BY <1>4 DEF LinkInv, Types
<1>6. Good(m) /\ tick \in Ticks
  BY DEF LinkInv, Types
<1>7. /\ Good(m') /\ m'.deadline = m.deadline /\ m'.stat = m.stat
      /\ \A u \in Timer : In(m', u) <=> In(m, u) \/ u = t
      /\ \A x \in Lists \ {Kind(t)} : m'.list[x] = m.list[x]
  <2>1. PICK n : n = Link(m, t)
    OBVIOUS
  <2>2. /\ Relisted(m, n) /\ n.active = [m.active EXCEPT ![t] = TRUE]
        /\ \A u \in Timer : In(n, u) <=> In(m, u) \/ u = t
        /\ \A x \in Lists \ {Kind(t)} : n.list[x] = m.list[x]
    BY <1>2, <1>6, <2>1, LinkIs
  <2>3. m' = n
    BY <1>3, <2>1
  <2>. QED BY <2>2, <2>3 DEF Relisted
<1>8. \A u : To(m', tick', u) = To(m, tick, u)
  BY <1>3, <1>7 DEF To
<1>9. PICK l \in Nat, w \in Nat, h \in Nat :
        l = MaxLate /\ w = Span /\ h = Half /\ h = w + 1 + 2 * l /\ l >= 1
  BY Late, TickSizes
<1>10. PICK z \in (0 - l)..w : z = To(m, tick, t)
  BY <1>1, <1>2, <1>9 DEF DueInv, StartWindow
<1>11. OrderPart'
  <2>1. PICK f \in [Timer -> Int] : /\ f = Lefts(m, tick) /\ f = Lefts(m', tick')
                                    /\ \A u \in Timer : f[u] = To(m, tick, u)
    <3>1. PICK f : f = Lefts(m, tick)
      OBVIOUS
    <3>2. f \in [Timer -> Int]
      BY <1>6, <3>1, ToIs, DelayIs
    <3>3. f = Lefts(m', tick') /\ \A u \in Timer : f[u] = To(m, tick, u)
      BY <1>8, <3>1 DEF Lefts
    <3>. QED BY <3>1, <3>2, <3>3
  <2>2. \A u \in Timer : f[u] = Until(m.deadline[u], tick)
    BY <2>1 DEF To
  <2>3. ASSUME NEW u \in Timer, In(m, u) PROVE f[u] - f[t] < Half /\ f[t] - f[u] <= Half
    <3>1. f[u] \in Int /\ f[u] <= w /\ f[u] >= 0 - l - 1 - l
      BY <1>9, <2>1, <2>3, Windows
    <3>2. f[t] = z
      BY <1>10, <2>1
    <3>. QED BY <1>9, <1>10, <3>1, <3>2
  <2>4. Kind(t) \in Lists /\ Ordered(m.list[Kind(t)], f)
    BY <2>1, KindIs DEF DueInv, OrderPart
  <2>5. Ordered(m'.list[Kind(t)], f)
    BY <1>2, <1>3, <1>6, <2>2, <2>3, <2>4, LinkOrders
  <2>6. ASSUME NEW x \in Lists \ {Kind(t)} PROVE Ordered(m'.list[x], f)
    BY <1>7, <2>1 DEF DueInv, OrderPart
  <2>. QED BY <2>1, <2>5, <2>6 DEF OrderPart
<1>12. InIsr' = InIsr /\ InIsr = 0 /\ scan.ticks \in 0..l
  BY <1>2, <1>3, <1>9 DEF InIsr, LinkInv, Types
<1>13. HardWindow' /\ SoftWindow'
  <2>1. PICK k \in Nat : k = scan.ticks
    BY <1>12
  <2>2. z \in (0 - l - 0)..w /\ z \in (0 - l - 1 - k)..w
    BY <1>9, <1>10
  <2>3. ASSUME NEW u \in Timer, In(m', u)
        PROVE  /\ u \in Hard => To(m, tick, u) \in (0 - MaxLate - InIsr)..Span
               /\ u \in Soft => To(m, tick, u) \in (0 - MaxLate - 1 - scan.ticks)..Span
    <3>1. CASE u = t
      BY <1>9, <1>10, <1>12, <2>1, <2>2, <3>1
    <3>2. CASE u # t
      BY <1>7, <2>3, <3>2 DEF DueInv, HardWindow, SoftWindow
    <3>. QED BY <3>1, <3>2
  <2>. QED BY <1>3, <1>8, <1>12, <2>3 DEF HardWindow, SoftWindow, Timer
<1>14. DelayWindow'
  BY <1>1, <1>7, <1>8, <1>12, DelayIs DEF DueInv, DelayWindow
<1>15. StartWindow'
  <2>1. \A d \in Context : arg[d] \in Timer
    BY DEF LinkInv, Types
  <2>2. ASSUME NEW d \in Context, pc'[d] = "insert" PROVE To(m', tick', arg'[d]) \in (0 - MaxLate)..Span
    BY <1>3, <1>5, <1>8, <2>2 DEF DueInv, StartWindow
  <2>3. ASSUME NEW d \in Caller, pc'[d] = "wake", In(m', arg'[d])
        PROVE  To(m', tick', arg'[d]) >= 0 - MaxLate
    <3>1. d \in Context /\ arg[d] \in Timer
      BY <2>1 DEF Context
    <3>2. CASE arg[d] = t
      <4>1. z >= 0 - l
        BY <1>9, <1>10
      <4>. QED BY <1>3, <1>8, <1>9, <1>10, <3>2, <4>1
    <3>3. CASE arg[d] # t
      <4>1. d # c /\ pc[d] = "wake" /\ In(m, arg[d])
        BY <1>1, <1>3, <1>5, <1>7, <2>3, <3>1, <3>3
      <4>. QED BY <1>3, <1>8, <4>1 DEF DueInv, StartWindow
    <3>. QED BY <3>2, <3>3
  <2>. QED BY <2>2, <2>3 DEF StartWindow
<1>16. AttendPart'
  <2>. SUFFICES ASSUME m'.stat = "suspend", NEW s \in Soft, In(m', s) PROVE Attended(s)'
    BY DEF AttendPart
  <2>1. s \in Timer /\ m.stat = "suspend" /\ c \in Caller
    BY <1>2, <1>7 DEF Timer
  <2>2. CASE s = t
    <3>1. pc'[c] = "wake" /\ arg'[c] = s
      BY <1>1, <1>3, <1>4, <1>5, <2>2
    <3>. QED BY <2>1, <3>1 DEF Attended
  <2>3. CASE s # t
    <3>1. Attended(s)
      BY <1>7, <2>1, <2>3 DEF DueInv, AttendPart
    <3>2. In(m, Delay) => In(m', Delay)
      BY <1>7, DelayIs
    <3>3. \A d \in Caller : pc[d] = "wake" => pc'[d] = "wake" /\ arg'[d] = arg[d]
      BY <1>2, <1>3, <1>5 DEF Context
    <3>. QED BY <1>3, <1>7, <3>1, <3>2, <3>3, StaysAttended
  <2>. QED BY <2>2, <2>3
<1>17. SleepPart'
  <2>1. pc'[TimerThread] \notin {"suspend", "measure", "sleep"}
    BY <1>2, <1>5 DEF Context
  <2>. QED BY <2>1 DEF SleepPart
<1>. QED BY <1>11, <1>13, <1>14, <1>15, <1>16, <1>17 DEF DueInv

\* A tick takes one tick from what is left, of every timer whose timeout is kept
LEMMA TickTakes ==
  ASSUME LinkInv, Tick, NEW u \in Timer, Read(u), To(m, tick, u) >= 0 - 2 * MaxLate
  PROVE  To(m, tick, u) \in Int /\ To(m', tick', u) = To(m, tick, u) - 1
<1>1. Good(m) /\ tick \in Ticks
  BY DEF LinkInv, Types
<1>2. PICK d \in Ticks : d = m.deadline[u]
  BY <1>1 DEF Good, MType, Ticks
<1>3. m'.deadline[u] = d
  <2>1. PICK f : f = [t \in Timer |-> IF Read(t) THEN m.deadline[t] ELSE 0]
    OBVIOUS
  <2>2. m' = [m EXCEPT !.deadline = f] /\ f[u] = d
    BY <1>2, <2>1 DEF Tick
  <2>. QED BY <1>1, <2>2 DEF Good, MType
<1>4. PICK z : z = Until(d, tick)
  OBVIOUS
<1>5. z \in Int /\ z > 1 - Half
  <2>1. z \in Int /\ z >= 0 - 2 * MaxLate
    BY <1>1, <1>2, <1>4, UntilRange DEF To
  <2>2. PICK l \in Nat, h \in Nat : l = MaxLate /\ h = Half /\ h >= 2 * l + 2
    BY Late, TickSizes
  <2>. QED BY <2>1, <2>2
<1>6. Until(d, tick') = z - 1
  <2>1. PICK next : next = (tick + 1) % TickRange
    OBVIOUS
  <2>2. Until(d, next) = Until(d, tick) - 1
    BY <1>1, <1>4, <1>5, <2>1, UntilTick
  <2>. QED BY <1>4, <2>1, <2>2 DEF Tick
<1>. QED BY <1>2, <1>3, <1>4, <1>5, <1>6 DEF To

\* A call that is held up has no time left before the tick
LEMMA NotHeldUp ==
  ASSUME LinkInv, Tick, NEW c \in Context, pc[c] \in {"insert", "wake"},
         To(m, tick, arg[c]) >= 0 - MaxLate
  PROVE  To(m, tick, arg[c]) > 0 - MaxLate
<1>1. ~HeldUp(arg[c]) /\ arg[c] \in Timer
  BY DEF Tick, Timely, LinkInv, Types
<1>2. PICK d \in Ticks, now \in Ticks : d = m.deadline[arg[c]] /\ now = tick
  BY <1>1 DEF LinkInv, Types, Good, MType, Ticks
<1>3. PICK z, y : z = Until(d, now) /\ y = Diff(now, d)
  OBVIOUS
<1>4. z \in Int /\ (z <= 0 => z = - y) /\ y \in Ticks
  BY <1>3, UntilRange, DiffIs
<1>5. PICK l \in Nat, h \in Nat : l = MaxLate /\ h = Half /\ h >= 2 * l + 2 /\ l >= 1
  BY Late, TickSizes
<1>6. y \notin l..(h - 1)
  BY <1>1, <1>2, <1>3, <1>5 DEF HeldUp
<1>7. z >= 0 - l
  BY <1>2, <1>3, <1>5 DEF To
<1>8. z > 0 - l
  BY <1>4, <1>5, <1>6, <1>7, TickSizes DEF Ticks
<1>. QED BY <1>2, <1>3, <1>5, <1>8 DEF To

LEMMA TickDue ==
  ASSUME LinkInv, DueInv, Tick
  PROVE  DueInv'
<1>1. /\ pc' = pc /\ arg' = arg /\ fired' = fired /\ isr = "none" /\ isr' = "check"
      /\ scan' = [scan EXCEPT !.ticks = IF m.stat = "ready" THEN @ + 1 ELSE @]
      /\ m.stat = "ready" => scan.ticks < MaxLate
  BY DEF Tick, Timely
<1>2. /\ InIsr = 0 /\ InIsr' = 1 /\ fired.hard # Delay
  BY <1>1, TimerAssumption DEF InIsr, LinkInv, ThreadPart, Timer
<1>3. /\ m'.stat = m.stat /\ m'.list = m.list /\ Good(m) /\ tick \in Ticks
      /\ \A u \in Timer : In(m', u) <=> In(m, u)
  <2>1. Good(m) /\ tick \in Ticks
    BY DEF LinkInv, Types
  <2>2. PICK d : m' = [m EXCEPT !.deadline = d]
    BY DEF Tick
  <2>3. m'.stat = m.stat /\ m'.list = m.list
    BY <2>1, <2>2 DEF Good, MType
  <2>. QED BY <2>1, <2>3 DEF In
<1>4. PICK k \in Nat, l \in Nat, w \in Nat : k = scan.ticks /\ l = MaxLate /\ w = Span /\ l >= 1
  BY Late DEF LinkInv, Types
<1>5. /\ scan'.next = scan.next /\ scan'.ticks = IF m.stat = "ready" THEN k + 1 ELSE k
      /\ m.stat = "ready" => k < l
      /\ m.stat = "suspend" => k = 0
      /\ m.stat \in {"ready", "suspend"}
  BY <1>1, <1>3, <1>4 DEF LinkInv, Types, ThreadPart, Good, MType
<1>6. ASSUME NEW u \in Timer, In(m, u)
      PROVE  /\ To(m, tick, u) \in Int /\ To(m, tick, u) <= w
             /\ To(m, tick, u) >= 0 - 2 * l
             /\ u \in Hard => To(m, tick, u) >= 0 - l
             /\ u \in Soft => To(m, tick, u) >= 0 - l - 1 - k
  <2>1. PICK z : z = To(m, tick, u)
    OBVIOUS
  <2>2. /\ z \in Int /\ z <= w
        /\ u \in Hard => z >= 0 - l - 0
        /\ u \in Soft => z >= 0 - l - 1 - k
    BY <1>2, <1>4, <1>6, <2>1, Windows
  <2>3. z >= 0 - 2 * l
    BY <1>4, <1>5, <2>2 DEF Timer
  <2>. QED BY <2>1, <2>2, <2>3
<1>7. \A u \in Timer : In(m, u) => Read(u)
  BY DEF Read, Linked, In
<1>8. ASSUME NEW u \in Timer, In(m, u) PROVE To(m', tick', u) = To(m, tick, u) - 1
  BY <1>4, <1>6, <1>7, <1>8, TickTakes
<1>9. OrderPart'
  <2>1. ASSUME NEW x \in Lists PROVE Ordered(m'.list[x], Lefts(m', tick'))
    <3>1. PICK s \in Seq(Timer) : s = m.list[x] /\ s = m'.list[x]
      BY <1>3, ListOf, DelayIs
    <3>2. Good(m') /\ tick' \in Ticks
      <4>1. LinkInv'
        BY TickKeeps
      <4>. QED BY <4>1 DEF LinkInv, Types
    <3>3. PICK f \in [Timer -> Int], g \in [Timer -> Int] : f = Lefts(m, tick) /\ g = Lefts(m', tick')
      BY <1>3, <3>2, ToIs, DelayIs
    <3>4. \A u \in Timer : Contains(s, u) => g[u] = f[u] + (0 - 1)
      <4>1. \A u \in Timer : f[u] = To(m, tick, u) /\ g[u] = To(m', tick', u) /\ f[u] \in Int
        BY <3>3 DEF Lefts
      <4>2. \A u \in Timer : Contains(m.list[x], u) => In(m, u)
        BY <1>3, ListOf
      <4>. QED BY <1>8, <3>1, <4>1, <4>2
    <3>5. Ordered(s, f)
      BY <3>1, <3>3 DEF DueInv, OrderPart
    <3>6. 0 - 1 \in Int
      OBVIOUS
    <3>7. Ordered(s, g)
      BY ONLY <3>4, <3>5, <3>6, SameOrder, s \in Seq(Timer), f \in [Timer -> Int], g \in [Timer -> Int]
    <3>. QED BY <3>1, <3>3, <3>7
  <2>. QED BY <2>1 DEF OrderPart
<1>10. HardWindow'
  <2>1. ASSUME NEW t \in Hard, In(m', t) PROVE To(m', tick', t) \in (0 - l - 1)..w
    <3>1. t \in Timer /\ In(m, t)
      BY <1>3, <2>1 DEF Timer
    <3>2. PICK z : z = To(m, tick, t) /\ z \in Int /\ z <= w /\ z >= 0 - l
      BY <1>6, <3>1
    <3>3. To(m', tick', t) = z - 1
      BY <1>8, <3>1, <3>2
    <3>. QED BY <3>2, <3>3
  <2>. QED BY <1>2, <1>4, <2>1 DEF HardWindow
<1>11. ASSUME m.stat = "suspend", NEW s \in Soft, In(m, s) PROVE To(m, tick, s) >= 0 - l
  <2>1. Attended(s) /\ s \in Timer
    BY <1>11 DEF DueInv, AttendPart, Timer
  <2>2. CASE In(m, Delay) /\ To(m, tick, Delay) <= To(m, tick, s) + MaxLate
    <3>1. PICK y, z : y = To(m, tick, Delay) /\ z = To(m, tick, s)
      OBVIOUS
    <3>2. y \in Int /\ z \in Int /\ y <= z + l
      BY <1>4, <1>6, <1>11, <2>1, <2>2, <3>1, DelayIs
    <3>3. y >= 0 - 0
      BY <1>2, <2>2, <3>1 DEF DueInv, DelayWindow
    <3>. QED BY <3>1, <3>2, <3>3
  <2>3. CASE \E c \in Caller : pc[c] = "wake" /\ arg[c] = s
    BY <1>4, <1>11, <2>3 DEF DueInv, StartWindow
  <2>. QED BY <1>2, <2>1, <2>2, <2>3 DEF Attended
<1>12. SoftWindow'
  <2>1. PICK j \in Nat : j = scan'.ticks /\ j = IF m.stat = "ready" THEN k + 1 ELSE k
    BY <1>4, <1>5
  <2>2. ASSUME NEW s \in Soft, In(m', s) PROVE To(m', tick', s) \in (0 - l - 1 - j)..w
    <3>1. s \in Timer /\ In(m, s)
      BY <1>3, <2>2 DEF Timer
    <3>2. PICK z : z = To(m, tick, s) /\ z \in Int /\ z <= w /\ z >= 0 - l - 1 - k
      BY <1>6, <3>1
    <3>3. To(m', tick', s) = z - 1
      BY <1>8, <3>1, <3>2
    <3>4. m.stat = "suspend" => z >= 0 - l
      BY <1>11, <3>1, <3>2
    <3>. QED BY <1>4, <1>5, <2>1, <3>2, <3>3, <3>4
  <2>. QED BY <1>4, <2>1, <2>2 DEF SoftWindow
<1>13. StartWindow'
  <2>1. \A d \in Context : arg[d] \in Timer
    BY DEF LinkInv, Types
  <2>2. ASSUME NEW d \in Context, pc'[d] = "insert" PROVE To(m', tick', arg'[d]) \in (0 - MaxLate)..Span
    <3>1. PICK u \in Timer : u = arg[d]
      BY <2>1
    <3>2. PICK z \in (0 - l)..w : z = To(m, tick, u)
      BY <1>1, <1>4, <2>2, <3>1 DEF DueInv, StartWindow
    <3>3. z >= 0 - l /\ z >= 0 - 2 * l
      BY <1>4
    <3>4. z > 0 - l
      BY <1>1, <1>4, <2>2, <3>1, <3>2, <3>3, NotHeldUp
    <3>5. Read(u)
      BY <1>1, <2>2, <3>1 DEF Read
    <3>6. To(m', tick', u) = z - 1
      BY <1>4, <3>2, <3>3, <3>5, TickTakes
    <3>7. z - 1 \in (0 - l)..w
      BY <1>4, <3>2, <3>4
    <3>. QED BY <1>1, <1>4, <3>1, <3>6, <3>7
  <2>3. ASSUME NEW d \in Caller, pc'[d] = "wake", In(m', arg'[d])
        PROVE  To(m', tick', arg'[d]) >= 0 - MaxLate
    <3>1. PICK u \in Timer : u = arg[d] /\ d \in Context /\ In(m, u)
      BY <1>1, <1>3, <2>1, <2>3 DEF Context
    <3>2. PICK z : z = To(m, tick, u) /\ z \in Int
      BY <1>6, <3>1
    <3>3. z >= 0 - l
      BY <1>1, <1>4, <2>3, <3>1, <3>2 DEF DueInv, StartWindow
    <3>4. z > 0 - l
      BY <1>1, <1>4, <2>3, <3>1, <3>2, <3>3, NotHeldUp
    <3>5. To(m', tick', u) = z - 1
      BY <1>8, <3>1, <3>2
    <3>6. z - 1 >= 0 - l
      BY <1>4, <3>2, <3>4
    <3>. QED BY <1>1, <1>4, <3>1, <3>5, <3>6
  <2>. QED BY <2>2, <2>3 DEF StartWindow
<1>14. DelayWindow'
  <2>. SUFFICES ASSUME In(m', Delay) PROVE To(m', tick', Delay) >= 0 - InIsr'
    BY DEF DelayWindow
  <2>1. In(m, Delay)
    BY <1>3, DelayIs
  <2>2. PICK z : z = To(m, tick, Delay) /\ z \in Int
    BY <1>6, <2>1, DelayIs
  <2>3. z >= 0 - 0
    BY <1>2, <2>1, <2>2 DEF DueInv, DelayWindow
  <2>4. To(m', tick', Delay) = z - 1
    BY <1>8, <2>1, <2>2, DelayIs
  <2>. QED BY <1>2, <2>2, <2>3, <2>4
<1>15. AttendPart'
  <2>. SUFFICES ASSUME m'.stat = "suspend", NEW s \in Soft, In(m', s) PROVE Attended(s)'
    BY DEF AttendPart
  <2>1. s \in Timer /\ m.stat = "suspend" /\ In(m, s)
    BY <1>3 DEF Timer
  <2>2. Attended(s)
    BY <2>1 DEF DueInv, AttendPart
  <2>3. CASE In(m, Delay) /\ To(m, tick, Delay) <= To(m, tick, s) + MaxLate
    <3>1. PICK y, z : /\ y = To(m, tick, Delay) /\ z = To(m, tick, s)
                      /\ y \in Int /\ z \in Int /\ y <= z + l
      BY <1>4, <1>6, <2>1, <2>3, DelayIs
    <3>2. In(m', Delay) /\ To(m', tick', Delay) = y - 1 /\ To(m', tick', s) = z - 1
      BY <1>3, <1>8, <2>1, <2>3, <3>1, DelayIs
    <3>3. y - 1 <= (z - 1) + l
      BY <1>4, <3>1
    <3>. QED BY <1>4, <3>2, <3>3 DEF Attended
  <2>4. CASE \E c \in Caller : pc[c] = "wake" /\ arg[c] = s
    BY <1>1, <2>4 DEF Attended
  <2>. QED BY <1>2, <2>2, <2>3, <2>4 DEF Attended
<1>16. SleepPart'
  <2>1. pc[TimerThread] = "suspend" => m.list["soft"] = <<>>
    BY DEF DueInv, SleepPart
  <2>2. CASE m.list["soft"] = <<>>
    BY <1>1, <1>3, <2>2 DEF DueInv, SleepPart
  <2>3. CASE m.list["soft"] # <<>>
    <3>1. PICK t \in Soft : t = Head(m.list["soft"]) /\ In(m, t) /\ t \in Timer
      BY <1>3, <2>3, SoftHead DEF Timer
    <3>2. m'.deadline[t] = m.deadline[t]
      <4>1. PICK f : f = [u \in Timer |-> IF Read(u) THEN m.deadline[u] ELSE 0]
        OBVIOUS
      <4>2. m' = [m EXCEPT !.deadline = f] /\ f[t] = m.deadline[t]
        BY <1>7, <3>1, <4>1 DEF Tick
      <4>. QED BY <1>3, <4>2 DEF Good, MType
    <3>3. ASSUME pc[TimerThread] = "sleep" PROVE scan'.next <= To(m', tick', t) + scan'.ticks
      <4>1. m.stat = "ready"
        BY <1>5, <3>3 DEF LinkInv, ThreadPart
      <4>2. PICK z : z = To(m, tick, t) /\ z \in Int /\ To(m', tick', t) = z - 1
        BY <1>6, <1>8, <3>1
      <4>3. PICK j : j = scan.next /\ j \in Nat /\ j <= z + k
        BY <1>4, <3>1, <3>3, <4>2, Late DEF DueInv, SleepPart
      <4>4. j <= (z - 1) + (k + 1)
        BY <1>4, <4>2, <4>3
      <4>. QED BY <1>5, <4>1, <4>2, <4>3, <4>4
    <3>. QED BY <1>1, <1>3, <1>5, <2>1, <2>3, <3>1, <3>2, <3>3 DEF DueInv, SleepPart
  <2>. QED BY <2>2, <2>3
<1>. QED BY <1>9, <1>10, <1>12, <1>13, <1>14, <1>15, <1>16 DEF DueInv

\* No hard timer is due when the first is not
LEMMA SoonestFirst ==
  ASSUME LinkInv, DueInv, ~HardDue, NEW u \in Hard, In(m, u)
  PROVE  To(m, tick, u) > 0 /\ To(m, tick, u) \in 0..Span
<1>1. Good(m) /\ tick \in Ticks /\ u \in Timer /\ Kind(u) = "hard"
  BY KindIs DEF LinkInv, Types, Timer
<1>2. PICK s \in Seq(Timer) : s = m.list["hard"] /\ Contains(s, u)
  BY <1>1, ListOf DEF In, Lists
<1>3. PICK j \in 1..Len(s) : s[j] = u
  BY <1>2 DEF Contains
<1>4. s # <<>> /\ Head(s) = s[1] /\ 1 \in 1..Len(s) /\ s[1] \in Timer
  BY <1>3
<1>5. PICK f \in [Timer -> Int] : f = Lefts(m, tick) /\ \A t \in Timer : f[t] = To(m, tick, t)
  BY <1>1, ToIs DEF Lefts
<1>6. f[s[1]] <= f[u]
  <2>1. Ordered(s, f)
    BY <1>2, <1>5 DEF DueInv, OrderPart, Lists
  <2>2. CASE j = 1
    BY <1>1, <1>3, <2>2
  <2>3. CASE j > 1
    BY <1>3, <1>4, <2>1, <2>3 DEF Ordered
  <2>. QED BY <2>2, <2>3
<1>7. f[s[1]] > 0
  <2>1. ~Due(s[1], tick)
    BY <1>2, <1>4 DEF HardDue
  <2>2. m.deadline[s[1]] \in Ticks
    BY <1>1, <1>4 DEF Good, MType, Ticks
  <2>. QED BY <1>1, <1>4, <1>5, <2>1, <2>2, UntilRange DEF Due, To
<1>8. To(m, tick, u) \in Int /\ To(m, tick, u) <= Span
  BY <1>1, Windows
<1>9. PICK z \in Int, y \in Int, w \in Nat : z = f[u] /\ y = f[s[1]] /\ w = Span
  BY <1>1, <1>4, Late
<1>10. z \in Int /\ y \in Int /\ y <= z /\ y > 0 /\ z <= w
  BY <1>1, <1>4, <1>5, <1>6, <1>7, <1>8, <1>9
<1>11. z > 0 /\ z \in 0..w
  BY <1>9, <1>10
<1>. QED BY <1>1, <1>5, <1>9, <1>11

\* rt_timer_check looks no further than the first timer, which is the soonest
LEMMA CheckDoneDue ==
  ASSUME LinkInv, DueInv, CheckDone
  PROVE  DueInv'
<1>1. /\ pc' = pc /\ arg' = arg /\ tick' = tick /\ scan' = scan /\ m' = m
      /\ isr = "check" /\ isr' = "none" /\ fired' = fired /\ ~HardDue
  BY DEF CheckDone
<1>2. Good(m) /\ tick \in Ticks /\ InIsr' = 0
  BY <1>1 DEF LinkInv, Types, InIsr
<1>3. ASSUME NEW u \in Hard, In(m, u) PROVE To(m, tick, u) > 0 /\ To(m, tick, u) \in 0..Span
  BY <1>1, <1>3, SoonestFirst
<1>4. HardWindow'
  <2>1. PICK l \in Nat, w \in Nat : l = MaxLate /\ w = Span
    BY Late
  <2>2. 0..w \subseteq (0 - l - 0)..w
    BY <2>1
  <2>. QED BY <1>1, <1>2, <1>3, <2>1, <2>2 DEF HardWindow
<1>5. DelayWindow'
  <2>1. ASSUME In(m, Delay) PROVE To(m, tick, Delay) >= 0 - 0
    <3>1. To(m, tick, Delay) > 0 /\ To(m, tick, Delay) \in 0..Span
      BY <1>3, <2>1, DelayIs
    <3>. QED BY <3>1, Late
  <2>. QED BY <1>1, <1>2, <2>1 DEF DelayWindow
<1>6. OrderPart' /\ SoftWindow' /\ StartWindow' /\ AttendPart' /\ SleepPart'
  BY <1>1 DEF DueInv, OrderPart, SoftWindow, StartWindow, AttendPart, Attended, SleepPart
<1>. QED BY <1>4, <1>5, <1>6 DEF DueInv

\* What the functions of hard timers keep of the list they are on
HardOk(r) ==
  /\ Ordered(r.list["hard"], Lefts(r, tick))
  /\ \A u \in Hard : In(r, u) => To(r, tick, u) \in (0 - MaxLate - 1)..Span

\* Linking a timer for k ticks from now
LEMMA Relinks ==
  ASSUME NEW r, Good(r), HardOk(r), tick \in Ticks, NEW n, Good(n), NEW t \in Hard, NEW k \in 0..Span,
         n.deadline = [r.deadline EXCEPT ![t] = (tick + k) % TickRange], Joins(r, n, t)
  PROVE  /\ Ordered(n.list["hard"], Lefts(n, tick)) /\ To(n, tick, t) = k
         /\ \A u \in Timer \ {t} : To(n, tick, u) = To(r, tick, u)
<1>1. t \in Timer /\ Kind(t) = "hard" /\ "hard" \in Lists
  BY KindIs DEF Timer, Lists
<1>2. PICK l \in Nat, w \in Nat, h \in Nat :
        l = MaxLate /\ w = Span /\ h = Half /\ h = w + 1 + 2 * l /\ l >= 1
  BY Late, TickSizes
<1>3. PICK e \in [Timer -> 0..TickMax] : e = r.deadline
  BY DEF Good, MType
<1>4. n.deadline[t] = (tick + k) % TickRange /\ \A u \in Timer \ {t} : n.deadline[u] = r.deadline[u]
  BY <1>1, <1>3
<1>5. To(n, tick, t) = k
  <2>1. k \in 0..(Half - 1)
    BY <1>2
  <2>2. Until(n.deadline[t], tick) = k
    BY <1>4, <2>1, UntilSet
  <2>. QED BY <2>2 DEF To
<1>6. \A u \in Timer \ {t} : To(n, tick, u) = To(r, tick, u)
  BY <1>4 DEF To
<1>7. PICK q : /\ Good(q) /\ ~In(q, t) /\ n = Link(q, t) /\ q.deadline = n.deadline
               /\ \A u \in Timer : In(q, u) => In(r, u)
               /\ KeepsOrder(r, q)
  BY DEF Joins
<1>8. PICK f \in [Timer -> Int], g \in [Timer -> Int] : f = Lefts(r, tick) /\ g = Lefts(n, tick)
  BY <1>1, ToIs
<1>0. \A u \in Timer : f[u] = To(r, tick, u) /\ g[u] = To(n, tick, u)
  BY <1>8 DEF Lefts
<1>9. Ordered(q.list["hard"], g)
  <2>1. Ordered(q.list["hard"], f)
    <3>1. Ordered(r.list["hard"], f)
      BY <1>8 DEF HardOk
    <3>. QED BY <1>1, <1>7, <3>1 DEF KeepsOrder
  <2>2. PICK s \in Seq(Timer) : s = q.list["hard"]
    BY <1>1, <1>7, ListOf
  <2>3. \A u \in Timer : Contains(s, u) => In(q, u)
    BY <1>1, <1>7, <2>2, ListOf
  <2>4. \A u \in Timer : Contains(s, u) => g[u] = f[u]
    BY <1>0, <1>6, <1>7, <2>3
  <2>5. Ordered(s, f)
    BY <2>1, <2>2
  <2>6. Ordered(s, g)
    BY ONLY <2>4, <2>5, StaysOrdered, s \in Seq(Timer), f \in [Timer -> Int], g \in [Timer -> Int]
  <2>. QED BY <2>2, <2>6
<1>10. \A u \in Timer : g[u] = Until(q.deadline[u], tick)
  BY <1>0, <1>7 DEF To
<1>11. ASSUME NEW u \in Timer, In(q, u), Kind(u) = Kind(t)
       PROVE  g[u] - g[t] < Half /\ g[t] - g[u] <= Half
  <2>1. u # t /\ In(r, u) /\ u \in Hard
    BY <1>1, <1>7, <1>11, KindIs
  <2>2. g[u] \in (0 - l - 1)..w
    BY <1>0, <1>2, <1>6, <2>1 DEF HardOk
  <2>3. g[t] = k /\ k \in 0..w
    BY <1>0, <1>1, <1>2, <1>5
  <2>4. PICK y, z : y = g[u] /\ z = g[t]
    OBVIOUS
  <2>5. y - z < h /\ z - y <= h
    BY <1>2, <2>2, <2>3, <2>4
  <2>. QED BY <1>2, <2>4, <2>5
<1>12. Ordered(n.list[Kind(t)], g)
  <2>1. Ordered(q.list[Kind(t)], g)
    BY <1>1, <1>9
  <2>. QED BY <1>1, <1>7, <1>10, <1>11, <2>1, LinkOrders
<1>. QED BY <1>1, <1>5, <1>6, <1>8, <1>12

\* What a hard timer's function may have done when r has become n: it stopped hard timers
\* or started them anew, the soft timers and the timer thread's are as they were
Mild(r, n) ==
  /\ n.stat = r.stat /\ n.init = r.init /\ n.list["soft"] = r.list["soft"]
  /\ In(r, Delay) => In(n, Delay)
  /\ \A u \in Timer : \/ n.deadline[u] = r.deadline[u] /\ (In(n, u) => In(r, u))
                      \/ u \in Hard \ {Delay} /\ To(n, tick, u) \in 1..Span

LEMMA MildStart ==
  ASSUME NEW r, Good(r), HardOk(r), tick \in Ticks, NEW n, Good(n), NEW t \in Hard \ {Delay},
         r.init[t] \in Times, n.stat = r.stat, n.init = r.init, n.list["soft"] = r.list["soft"],
         n.deadline = [r.deadline EXCEPT ![t] = (tick + r.init[t]) % TickRange], Joins(r, n, t),
         \A u \in Timer : In(n, u) <=> In(r, u) \/ u = t
  PROVE  Mild(r, n) /\ HardOk(n)
<1>1. PICK k \in 1..Span : k = r.init[t]
  BY Late
<1>2. k \in 0..Span
  BY <1>1, Late
<1>3. /\ Ordered(n.list["hard"], Lefts(n, tick)) /\ To(n, tick, t) = k
      /\ \A u \in Timer \ {t} : To(n, tick, u) = To(r, tick, u)
  BY <1>1, <1>2, Relinks
<1>4. t \in Timer /\ \A u \in Timer \ {t} : n.deadline[u] = r.deadline[u]
  BY DEF Timer, Good, MType
<1>5. HardOk(n)
  <2>1. k \in (0 - MaxLate - 1)..Span
    BY <1>1, Late
  <2>. QED BY <1>1, <1>3, <2>1 DEF HardOk, Timer
<1>6. Mild(r, n)
  BY <1>1, <1>3, <1>4, DelayIs DEF Mild
<1>. QED BY <1>5, <1>6

LEMMA MildStop ==
  ASSUME NEW r, Good(r), HardOk(r), tick \in Ticks, NEW n, Good(n),
         n.stat = r.stat, n.init = r.init, n.list["soft"] = r.list["soft"], n.deadline = r.deadline,
         KeepsOrder(r, n), \A u \in Timer : In(n, u) => In(r, u), In(r, Delay) => In(n, Delay)
  PROVE  Mild(r, n) /\ HardOk(n)
<1>1. Mild(r, n) /\ \A u \in Timer : To(n, tick, u) = To(r, tick, u)
  BY DEF Mild, To
<1>2. Lefts(n, tick) = Lefts(r, tick) /\ Lefts(r, tick) \in [Timer -> Int]
  BY <1>1, ToIs, DelayIs DEF Lefts
<1>3. HardOk(n)
  BY <1>1, <1>2 DEF HardOk, KeepsOrder, Lists, Timer
<1>. QED BY <1>1, <1>3

LEMMA MildAgain ==
  ASSUME NEW r, NEW p, NEW n, Mild(r, p), Mild(p, n)
  PROVE  Mild(r, n)
<1>1. ASSUME NEW u \in Timer
      PROVE  \/ n.deadline[u] = r.deadline[u] /\ (In(n, u) => In(r, u))
             \/ u \in Hard \ {Delay} /\ To(n, tick, u) \in 1..Span
  <2>1. CASE u \in Hard \ {Delay} /\ To(n, tick, u) \in 1..Span
    BY <2>1
  <2>2. CASE n.deadline[u] = p.deadline[u] /\ (In(n, u) => In(p, u))
    <3>1. To(n, tick, u) = To(p, tick, u)
      BY <2>2 DEF To
    <3>. QED BY <2>2, <3>1 DEF Mild
  <2>. QED BY <2>1, <2>2 DEF Mild
<1>. QED BY <1>1 DEF Mild

\* A hard timer's function and the restart of its timer
LEMMA MildDue ==
  ASSUME LinkInv, DueInv, Mild(m, m'), HardOk(m'), Good(m'), tick' = tick, pc' = pc,
         arg' = arg, scan' = scan,
         isr # "none", isr' # "none", fired.hard # Delay
  PROVE  DueInv'
<1>1. InIsr = 1 /\ InIsr' = 1 /\ tick \in Ticks /\ Good(m)
  BY DEF InIsr, LinkInv, Types
<1>2. m'.list["soft"] = m.list["soft"] /\ m'.stat = m.stat /\ (In(m, Delay) => In(m', Delay))
  BY DEF Mild
<1>3. \A u \in Timer : \/ To(m', tick', u) = To(m, tick, u) /\ (In(m', u) => In(m, u))
                       \/ u \in Hard \ {Delay} /\ To(m', tick', u) \in 1..Span
  BY DEF Mild, To
<1>4. \A s \in Soft : /\ s \in Timer /\ To(m', tick', s) = To(m, tick, s)
                      /\ m'.deadline[s] = m.deadline[s] /\ (In(m', s) => In(m, s))
  BY <1>3, TimerAssumption DEF Timer, Mild, To
<1>5. To(m', tick', Delay) = To(m, tick, Delay) /\ (In(m', Delay) => In(m, Delay))
  BY <1>3, DelayIs
<1>6. OrderPart'
  <2>1. Ordered(m'.list["hard"], Lefts(m', tick'))
    BY DEF HardOk
  <2>2. Ordered(m'.list["soft"], Lefts(m', tick'))
    <3>1. PICK s \in Seq(Timer) : s = m.list["soft"]
      BY <1>1, ListOf, DelayIs DEF Lists
    <3>2. PICK f \in [Timer -> Int], g \in [Timer -> Int] : f = Lefts(m, tick) /\ g = Lefts(m', tick')
      BY <1>1, ToIs, DelayIs
    <3>7. \A u \in Timer : f[u] = To(m, tick, u) /\ g[u] = To(m', tick', u)
      BY <3>2 DEF Lefts
    <3>3. \A u \in Timer : Contains(s, u) => u \in Soft
      BY <1>1, <3>1, ListOf, KindIs DEF Lists
    <3>4. \A u \in Timer : Contains(s, u) => g[u] = f[u]
      BY <1>4, <3>3, <3>7
    <3>5. Ordered(s, f)
      BY <3>1, <3>2 DEF DueInv, OrderPart, Lists
    <3>6. Ordered(s, g)
      BY ONLY <3>4, <3>5, StaysOrdered, s \in Seq(Timer), f \in [Timer -> Int], g \in [Timer -> Int]
    <3>. QED BY <1>2, <3>1, <3>2, <3>6
  <2>. QED BY <2>1, <2>2 DEF OrderPart, Lists
<1>7. HardWindow'
  BY <1>1 DEF HardOk, HardWindow
<1>8. SoftWindow'
  BY <1>4 DEF DueInv, SoftWindow
<1>9. PICK l \in Nat, w \in Nat : l = MaxLate /\ w = Span
  BY Late
<1>10. StartWindow'
  <2>1. \A d \in Context : arg[d] \in Timer
    BY DEF LinkInv, Types
  <2>2. ASSUME NEW d \in Context, pc'[d] = "insert" PROVE To(m', tick', arg'[d]) \in (0 - MaxLate)..Span
    <3>1. CASE To(m', tick', arg[d]) = To(m, tick, arg[d])
      BY <2>2, <3>1 DEF DueInv, StartWindow
    <3>2. CASE To(m', tick', arg[d]) \in 1..Span
      BY <1>9, <3>2
    <3>. QED BY <1>3, <2>1, <3>1, <3>2
  <2>3. ASSUME NEW d \in Caller, pc'[d] = "wake", In(m', arg'[d])
        PROVE  To(m', tick', arg'[d]) >= 0 - MaxLate
    <3>1. d \in Context
      BY DEF Context
    <3>2. CASE To(m', tick', arg[d]) = To(m, tick, arg[d]) /\ In(m, arg[d])
      BY <2>3, <3>2 DEF DueInv, StartWindow
    <3>3. CASE To(m', tick', arg[d]) \in 1..Span
      BY <1>9, <3>3
    <3>. QED BY <1>3, <2>1, <2>3, <3>1, <3>2, <3>3
  <2>. QED BY <2>2, <2>3 DEF StartWindow
<1>11. DelayWindow'
  BY <1>1, <1>5 DEF DueInv, DelayWindow
<1>12. AttendPart'
  <2>. SUFFICES ASSUME m'.stat = "suspend", NEW s \in Soft, In(m', s) PROVE Attended(s)'
    BY DEF AttendPart
  <2>1. Attended(s)
    BY <1>2, <1>4 DEF DueInv, AttendPart
  <2>. QED BY <1>2, <1>4, <1>5, <2>1 DEF Attended
<1>13. SleepPart'
  <2>1. m.list["soft"] # <<>> => Head(m.list["soft"]) \in Soft
    BY <1>1, SoftHead
  <2>. QED BY <1>2, <1>4, <2>1 DEF DueInv, SleepPart
<1>. QED BY ONLY <1>6, <1>7, <1>8, <1>10, <1>11, <1>12, <1>13 DEF DueInv

\* What CheckCallback makes of m: r when the function of t returns, and then m'
LEMMA CallbackIs ==
  ASSUME LinkInv, OneUser, CheckCallback, NEW t, t = fired.hard, NEW r \in Ran(t), m' = After(r, t)
  PROVE  /\ t \in Hard /\ t \in Timer /\ Kind(t) = "hard"
         /\ Good(m) /\ m \in MType /\ tick \in Ticks /\ use \in Uses
         /\ Good(r) /\ r.init = m.init /\ r.periodic = m.periodic /\ ~In(r, t)
         /\ r.stat = IF t = Delay THEN "ready" ELSE m.stat
         /\ Good(m') /\ m'.init = r.init /\ m'.periodic = r.periodic /\ m'.stat = r.stat
         /\ m'.list["soft"] = r.list["soft"]
         /\ Again(r, m', t) \/ Ended(r, m', t)
<1>1. t \in Hard /\ t \in Timer /\ Kind(t) = "hard" /\ isr = "callback"
  BY KindIs DEF CheckCallback, LinkInv, Types, ThreadPart, Timer
<1>2. Good(m) /\ m \in MType /\ tick \in Ticks /\ use \in Uses
  BY DEF LinkInv, Types, Good, CallerPart
<1>3. /\ Good(r) /\ r.init = m.init /\ r.periodic = m.periodic /\ ~In(r, t)
      /\ r.stat = IF t = Delay THEN "ready" ELSE m.stat
  BY <1>1, RanIs
<1>4. PICK n : n = After(r, t)
  OBVIOUS
<1>5. /\ Good(n) /\ n.init = r.init /\ n.periodic = r.periodic /\ n.stat = r.stat
      /\ n.list["soft"] = r.list["soft"]
      /\ Again(r, n, t) \/ Ended(r, n, t)
  BY <1>1, <1>2, <1>3, <1>4, AfterIs
<1>. QED BY <1>1, <1>2, <1>3, <1>4, <1>5

\* rt_thread_timeout
LEMMA CallbackDelay ==
  ASSUME LinkInv, OneUser, CheckCallback, fired.hard = Delay
  PROVE  /\ m'.list = m.list /\ m'.deadline = m.deadline /\ m'.stat = "ready"
         /\ KeepsOrder(m, m') /\ \A u \in Timer : In(m', u) => In(m, u)
<1>1. PICK t \in Hard : t = fired.hard
  BY DEF CheckCallback, LinkInv, Types, ThreadPart
<1>2. /\ pc' = pc /\ arg' = arg /\ tick' = tick /\ scan' = scan
      /\ isr = "callback" /\ isr' = "check"
  BY DEF CheckCallback
<1>3. PICK r : r \in Ran(t) /\ m' = After(r, t)
  BY <1>1 DEF CheckCallback
<1>4. /\ Good(m) /\ m \in MType /\ tick \in Ticks /\ use \in Uses
      /\ t \in Timer /\ Kind(t) = "hard"
      /\ Good(r) /\ r.init = m.init /\ r.periodic = m.periodic
      /\ r.stat = IF t = Delay THEN "ready" ELSE m.stat
      /\ Good(m') /\ m'.init = r.init /\ m'.stat = r.stat
      /\ m'.list["soft"] = r.list["soft"]
      /\ Again(r, m', t) \/ Ended(r, m', t)
  BY <1>1, <1>3, CallbackIs
<1>5. r = [m EXCEPT !.stat = "ready"]
  BY <1>1, <1>3 DEF Ran
<1>6. r.list = m.list /\ r.deadline = m.deadline
  BY <1>4, <1>5 DEF MType
<1>7. Ended(r, m', t)
  <2>1. ~m.periodic[Delay]
    BY DEF LinkInv, DelayPart
  <2>2. ~r.periodic[t]
    BY <1>1, <1>4, <2>1
  <2>. QED BY <1>4, <2>2 DEF Again
<1>8. /\ m'.list = m.list /\ m'.deadline = m.deadline /\ m'.stat = "ready"
  BY <1>1, <1>4, <1>6, <1>7 DEF Ended
<1>9. KeepsOrder(m, m') /\ \A u \in Timer : In(m', u) => In(m, u)
  BY <1>8 DEF KeepsOrder, In
<1>. QED BY <1>8, <1>9

\* A hard timer's function, and the restart of its timer
LEMMA CallbackMild ==
  ASSUME LinkInv, OneUser, DueInv, CheckCallback, fired.hard # Delay
  PROVE  Mild(m, m') /\ HardOk(m') /\ Good(m')
<1>1. PICK t \in Hard : t = fired.hard
  BY DEF CheckCallback, LinkInv, Types, ThreadPart
<1>2. /\ pc' = pc /\ arg' = arg /\ tick' = tick /\ scan' = scan
      /\ isr = "callback" /\ isr' = "check"
  BY DEF CheckCallback
<1>3. PICK r : r \in Ran(t) /\ m' = After(r, t)
  BY <1>1 DEF CheckCallback
<1>4. /\ Good(m) /\ m \in MType /\ tick \in Ticks /\ use \in Uses
      /\ t \in Timer /\ Kind(t) = "hard"
      /\ Good(r) /\ r.init = m.init /\ r.periodic = m.periodic
      /\ r.stat = IF t = Delay THEN "ready" ELSE m.stat
      /\ Good(m') /\ m'.init = r.init /\ m'.stat = r.stat
      /\ m'.list["soft"] = r.list["soft"]
      /\ Again(r, m', t) \/ Ended(r, m', t)
  BY <1>1, <1>3, CallbackIs
<1>5. InIsr = 1
  BY <1>2 DEF InIsr
<1>6. Mild(m, r) /\ HardOk(r)
  <2>1. HardOk(m)
    <3>1. \A u \in Hard : In(m, u) => To(m, tick, u) \in (0 - MaxLate - 1)..Span
      BY <1>5 DEF DueInv, HardWindow
    <3>. QED BY <3>1 DEF HardOk, DueInv, OrderPart, Lists
  <2>2. ASSUME NEW op, NEW u, <<op, u>> \in use.callback[t]
        PROVE  u \in Hard \ {Delay} /\ u \in Timer /\ Kind(u) = "hard" /\ m.init[u] \in Times
    <3>1. u \in Timer \ {Delay} /\ Kind(u) = Kind(t)
      BY <1>4, <2>2, UseIs
    <3>. QED BY <1>4, <3>1, KindIs DEF LinkInv, DelayPart
  <2>3. CASE r = m
    BY <2>1, <2>3 DEF Mild
  <2>4. ASSUME NEW u, <<"start", u>> \in use.callback[t], r = Start(m, u)
        PROVE  Mild(m, r) /\ HardOk(r)
    <3>1. u \in Hard \ {Delay} /\ m.init[u] \in Times
      BY <2>2, <2>4
    <3>2. /\ Good(r) /\ r.init = m.init /\ r.periodic = m.periodic /\ r.stat = m.stat
          /\ r.active = [m.active EXCEPT ![u] = TRUE]
          /\ r.deadline = [m.deadline EXCEPT ![u] = (tick + m.init[u]) % TickRange]
          /\ \A v \in Timer : In(r, v) <=> In(m, v) \/ v = u
          /\ r.list["soft"] = m.list["soft"]
          /\ Joins(m, r, u)
      <4>1. Good(m) /\ u \in Hard /\ tick \in Ticks
        BY <1>4, <3>1
      <4>. QED BY ONLY <2>4, <4>1, StartIs
    <3>. QED BY <1>4, <2>1, <3>1, <3>2, MildStart
  <2>5. ASSUME NEW u, <<"stop", u>> \in use.callback[t], r = Stop(m, u)
        PROVE  Mild(m, r) /\ HardOk(r)
    <3>1. u \in Hard \ {Delay} /\ u \in Timer /\ Kind(u) = "hard"
      BY <2>2, <2>5
    <3>2. /\ Relisted(m, r) /\ r.active = [m.active EXCEPT ![u] = FALSE]
          /\ \A v \in Timer : In(r, v) <=> In(m, v) /\ ~(v = u /\ m.active[u])
          /\ \A x \in Lists \ {Kind(u)} : r.list[x] = m.list[x]
          /\ KeepsOrder(m, r)
      <4>1. Good(m) /\ u \in Timer
        BY <1>4, <3>1
      <4>. QED BY ONLY <2>5, <4>1, StopIs
    <3>3. /\ r.stat = m.stat /\ r.init = m.init /\ r.deadline = m.deadline
          /\ r.list["soft"] = m.list["soft"]
          /\ (\A v \in Timer : In(r, v) => In(m, v)) /\ (In(m, Delay) => In(r, Delay))
      BY <3>1, <3>2, DelayIs DEF Relisted, Lists
    <3>. QED BY <1>4, <2>1, <3>2, <3>3, MildStop
  <2>6. \/ r = m
        \/ \E u \in Timer : <<"start", u>> \in use.callback[t] /\ r = Start(m, u)
        \/ \E u \in Timer : <<"stop", u>> \in use.callback[t] /\ r = Stop(m, u)
    BY <1>1, <1>3 DEF Ran
  <2>. QED BY <2>3, <2>4, <2>5, <2>6
<1>7. CASE Again(r, m', t)
  <2>1. t \in Hard \ {Delay} /\ r.init[t] \in Times
    BY <1>1, <1>4 DEF LinkInv, DelayPart
  <2>2. /\ m'.deadline = [r.deadline EXCEPT ![t] = (tick + r.init[t]) % TickRange]
        /\ \A u \in Timer : In(m', u) <=> In(r, u) \/ u = t
        /\ Joins(r, m', t)
    BY <1>7 DEF Again
  <2>3. Mild(r, m') /\ HardOk(m')
    <3>1. PICK n : n = m'
      OBVIOUS
    <3>2. /\ Good(n) /\ n.stat = r.stat /\ n.init = r.init /\ n.list["soft"] = r.list["soft"]
          /\ n.deadline = [r.deadline EXCEPT ![t] = (tick + r.init[t]) % TickRange]
          /\ \A u \in Timer : In(n, u) <=> In(r, u) \/ u = t
          /\ Joins(r, n, t)
      BY <1>4, <2>2, <3>1
    <3>3. Mild(r, n) /\ HardOk(n)
      BY <1>4, <1>6, <2>1, <3>2, MildStart
    <3>. QED BY <3>1, <3>3
  <2>4. Mild(m, m')
    BY <1>6, <2>3, MildAgain
  <2>. QED BY <1>4, <2>3, <2>4
<1>8. CASE Ended(r, m', t)
  <2>1. /\ m'.deadline = r.deadline /\ m'.list = r.list
        /\ \A u \in Timer : In(m', u) <=> In(r, u)
    BY <1>8 DEF Ended
  <2>2. KeepsOrder(r, m') /\ (In(r, Delay) => In(m', Delay))
    BY <2>1, DelayIs DEF KeepsOrder
  <2>3. Mild(r, m') /\ HardOk(m')
    BY <1>4, <1>6, <2>1, <2>2, MildStop
  <2>4. Mild(m, m')
    BY <1>6, <2>3, MildAgain
  <2>. QED BY <1>4, <2>3, <2>4
<1>. QED BY <1>4, <1>7, <1>8

LEMMA CheckCallbackDue ==
  ASSUME LinkInv, OneUser, DueInv, CheckCallback
  PROVE  DueInv'
<1>1. /\ pc' = pc /\ arg' = arg /\ tick' = tick /\ scan' = scan
      /\ isr = "callback" /\ isr' = "check"
  BY DEF CheckCallback
<1>2. CASE fired.hard = Delay
  <2>1. /\ m'.list = m.list /\ m'.deadline = m.deadline /\ m'.stat = "ready"
        /\ KeepsOrder(m, m') /\ \A u \in Timer : In(m', u) => In(m, u)
    BY <1>2, CallbackDelay
  <2>2. SleepPart'
    <3>1. m.list["soft"] # <<>>
            => To(m', tick', Head(m.list["soft"])) = To(m, tick, Head(m.list["soft"]))
      BY <1>1, <2>1 DEF To
    <3>. QED BY <1>1, <2>1, <3>1 DEF DueInv, SleepPart
  <2>3. /\ isr' = "none" <=> isr = "none"
        /\ scan'.ticks = scan.ticks /\ m'.stat # "suspend"
        /\ \A c \in Context : pc'[c] \in {"insert", "wake"} => pc'[c] = pc[c] /\ arg'[c] = arg[c]
    BY <1>1, <2>1
  <2>. QED BY <1>1, <2>1, <2>2, <2>3, Shrinks
<1>3. CASE fired.hard # Delay
  <2>1. Mild(m, m') /\ HardOk(m') /\ Good(m')
    BY <1>3, CallbackMild
  <2>. QED BY <1>1, <1>3, <2>1, MildDue
<1>. QED BY <1>2, <1>3

\* The timer thread suspends itself when it has seen no soft timer
LEMMA SuspendDue ==
  ASSUME LinkInv, OneUser, DueInv, Suspend
  PROVE  DueInv'
<1>1. /\ isr = "none" /\ pc[TimerThread] = "suspend" /\ m.stat = "ready"
      /\ TimerThread \in Context /\ TimerThread \notin Caller /\ Good(m) /\ ~In(m, Delay)
  BY ThreadIs DEF Suspend
<1>2. /\ pc' = [pc EXCEPT ![TimerThread] = "check"] /\ arg' = arg
      /\ tick' = tick /\ isr' = isr /\ fired' = fired
  BY DEF Suspend, Goto
<1>3. PICK q : q = Stop(m, Delay) /\ m' = [q EXCEPT !.stat = "suspend"]
  BY DEF Suspend
<1>4. /\ Relisted(m, q) /\ KeepsOrder(m, q)
      /\ \A u \in Timer : In(q, u) <=> In(m, u) /\ ~(u = Delay /\ m.active[Delay])
      /\ \A x \in Lists \ {"hard"} : q.list[x] = m.list[x]
  <2>1. /\ Relisted(m, q) /\ q.active = [m.active EXCEPT ![Delay] = FALSE]
        /\ \A u \in Timer : In(q, u) <=> In(m, u) /\ ~(u = Delay /\ m.active[Delay])
        /\ \A x \in Lists \ {Kind(Delay)} : q.list[x] = m.list[x]
        /\ KeepsOrder(m, q)
    BY <1>1, <1>3, DelayIs, StopIs
  <2>. QED BY <2>1, DelayIs
<1>5. /\ m'.deadline = m.deadline /\ m'.list = q.list
  BY <1>3, <1>4 DEF Relisted, Good, MType
<1>6. /\ KeepsOrder(m, m') /\ (\A u \in Timer : In(m', u) => In(m, u))
      /\ m'.list["soft"] = m.list["soft"]
  BY <1>4, <1>5 DEF KeepsOrder, In, Lists
<1>7. pc'[TimerThread] = "check" /\ \A c \in Caller : pc'[c] = pc[c]
  BY <1>1, <1>2 DEF LinkInv, Types, Context
<1>8. \A s \in Soft : ~In(m', s)
  <2>1. m.list["soft"] = <<>>
    BY <1>1 DEF DueInv, SleepPart
  <2>. QED BY <1>6, <2>1, KindIs DEF In, Contains, Timer
<1>9. (\A t : To(m', tick', t) = To(m, tick, t)) /\ InIsr' = InIsr
  BY <1>2, <1>5 DEF To, InIsr
<1>10. OrderPart'
  <2>1. Lefts(m', tick') = Lefts(m, tick)
    BY <1>9 DEF Lefts
  <2>2. Lefts(m, tick) \in [Timer -> Int]
    BY <1>1, DelayIs, ToIs DEF LinkInv, Types
  <2>. QED BY <1>6, <2>1, <2>2 DEF DueInv, OrderPart, KeepsOrder
<1>11. HardWindow' /\ SoftWindow' /\ DelayWindow' /\ AttendPart'
  BY <1>6, <1>8, <1>9, DelayIs DEF DueInv, HardWindow, SoftWindow, DelayWindow, AttendPart, Timer
<1>12. StartWindow'
  <2>1. \A d \in Context : pc'[d] = "insert" => pc[d] = "insert"
    BY <1>7 DEF Context
  <2>2. \A d \in Caller : arg[d] \in Timer
    BY DEF LinkInv, Types, Context
  <2>. QED BY <1>2, <1>6, <1>7, <1>9, <2>1, <2>2 DEF DueInv, StartWindow
<1>13. SleepPart'
  BY <1>7 DEF SleepPart
<1>. QED BY <1>10, <1>11, <1>12, <1>13 DEF DueInv

\* The timer thread sleeps no longer than its first timer allows
LEMMA SleepDue ==
  ASSUME LinkInv, OneUser, DueInv, Sleep
  PROVE  DueInv'
<1>1. /\ isr = "none" /\ pc[TimerThread] = "sleep" /\ m.stat = "ready"
      /\ TimerThread \in Context /\ TimerThread \notin Caller /\ Good(m) /\ ~In(m, Delay)
  BY ThreadIs DEF Sleep
<1>2. /\ pc' = [pc EXCEPT ![TimerThread] = "check"] /\ arg' = arg
      /\ scan' = [scan EXCEPT !.next = 0, !.ticks = 0]
      /\ tick' = tick /\ isr' = isr /\ fired' = fired
  BY DEF Sleep, Goto
<1>3. tick \in Ticks /\ scan'.ticks = 0 /\ InIsr = 0 /\ InIsr' = 0
  BY <1>1, <1>2 DEF LinkInv, Types, InIsr
<1>4. /\ m.list["soft"] # <<>> /\ scan.next \in 0..Span
      /\ scan.next <= To(m, tick, Head(m.list["soft"])) + scan.ticks
  BY <1>1 DEF DueInv, SleepPart
<1>5. PICK k \in 0..Span : k = scan.next
  BY <1>4
<1>6. PICK q : q = Stop(m, Delay)
  OBVIOUS
<1>7. PICK r : r = [q EXCEPT !.stat = "suspend", !.init[Delay] = k]
  OBVIOUS
<1>8. m' = Start(r, Delay)
  BY <1>5, <1>6, <1>7 DEF Sleep
<1>9. /\ Relisted(m, q) /\ KeepsOrder(m, q)
      /\ \A u \in Timer : In(q, u) <=> In(m, u) /\ ~(u = Delay /\ m.active[Delay])
      /\ \A x \in Lists \ {"hard"} : q.list[x] = m.list[x]
  <2>1. /\ Relisted(m, q) /\ q.active = [m.active EXCEPT ![Delay] = FALSE]
        /\ \A u \in Timer : In(q, u) <=> In(m, u) /\ ~(u = Delay /\ m.active[Delay])
        /\ \A x \in Lists \ {Kind(Delay)} : q.list[x] = m.list[x]
        /\ KeepsOrder(m, q)
    BY <1>1, <1>6, DelayIs, StopIs
  <2>. QED BY <2>1, DelayIs
<1>10. k \in 0..(Half - 1)
  <2>1. Span \in Nat /\ Span <= Half - 1 /\ Half \in Nat
    BY Late, TickSizes
  <2>. QED BY <2>1
<1>11. /\ Good(r) /\ r.list = q.list /\ r.deadline = m.deadline /\ r.init[Delay] = k
       /\ \A u \in Timer : In(r, u) <=> In(q, u)
  <2>1. q \in MType /\ q.init = m.init /\ q.deadline = m.deadline
    BY <1>9 DEF Relisted, Good
  <2>2. PICK i : i = [m.init EXCEPT ![Delay] = k]
    OBVIOUS
  <2>6. i \in [Timer -> 0..(Half - 1)] /\ i[Delay] = k
    <3>1. PICK e \in [Timer -> 0..(Half - 1)] : e = m.init
      BY <1>1 DEF Good, MType
    <3>2. i = [e EXCEPT ![Delay] = k]
      BY <2>2, <3>1
    <3>. QED BY ONLY <1>10, <3>2, DelayIs, Put, e \in [Timer -> 0..(Half - 1)]
  <2>3. r = [q EXCEPT !.stat = "suspend", !.init = i]
    BY <1>7, <2>1, <2>2
  <2>4. r \in MType /\ r.list = q.list /\ r.deadline = q.deadline /\ r.init = i
    BY <2>1, <2>3, <2>6 DEF MType
  <2>5. Good(r) /\ \A u \in Timer : In(r, u) <=> In(q, u)
    BY <1>9, <2>4 DEF Relisted, Good, In
  <2>. QED BY <2>1, <2>4, <2>5, <2>6
<1>12. /\ KeepsOrder(m, r) /\ r.list["soft"] = m.list["soft"]
       /\ \A u \in Timer : In(r, u) => In(m, u)
  BY <1>9, <1>11 DEF KeepsOrder, Lists
<1>13. HardOk(r)
  <2>1. Lefts(r, tick) = Lefts(m, tick) /\ \A t : To(r, tick, t) = To(m, tick, t)
    BY <1>11 DEF Lefts, To
  <2>2. Lefts(m, tick) \in [Timer -> Int]
    BY <1>1, <1>3, DelayIs, ToIs
  <2>3. Ordered(r.list["hard"], Lefts(r, tick))
    BY <1>12, <2>1, <2>2 DEF DueInv, OrderPart, KeepsOrder, Lists
  <2>4. ASSUME NEW u \in Hard, In(r, u) PROVE To(r, tick, u) \in (0 - MaxLate - 1)..Span
    <3>1. PICK l \in Nat, w \in Nat : l = MaxLate /\ w = Span
      BY Late
    <3>2. To(m, tick, u) \in (0 - l - 0)..w
      BY <1>3, <1>12, <2>4, <3>1 DEF DueInv, HardWindow, Timer
    <3>3. (0 - l - 0)..w \subseteq (0 - l - 1)..w
      BY <3>1
    <3>. QED BY <2>1, <3>1, <3>2, <3>3
  <2>. QED BY <2>3, <2>4 DEF HardOk
<1>14. /\ Good(m') /\ m'.init = r.init /\ m'.periodic = r.periodic /\ m'.stat = r.stat
       /\ m'.active = [r.active EXCEPT ![Delay] = TRUE]
       /\ m'.deadline = [r.deadline EXCEPT ![Delay] = (tick + r.init[Delay]) % TickRange]
       /\ \A u \in Timer : In(m', u) <=> In(r, u) \/ u = Delay
       /\ m'.list["soft"] = r.list["soft"]
       /\ Joins(r, m', Delay)
  <2>1. PICK n : n = Start(r, Delay)
    OBVIOUS
  <2>2. /\ Good(n) /\ n.init = r.init /\ n.periodic = r.periodic /\ n.stat = r.stat
        /\ n.active = [r.active EXCEPT ![Delay] = TRUE]
        /\ n.deadline = [r.deadline EXCEPT ![Delay] = (tick + r.init[Delay]) % TickRange]
        /\ \A u \in Timer : In(n, u) <=> In(r, u) \/ u = Delay
        /\ n.list["soft"] = r.list["soft"]
        /\ Joins(r, n, Delay)
    <3>1. Good(r) /\ Delay \in Hard /\ tick \in Ticks
      BY <1>3, <1>11, DelayIs
    <3>. QED BY ONLY <2>1, <3>1, StartIs
  <2>3. m' = n
    BY <1>8, <2>1
  <2>. QED BY <2>2, <2>3
<1>15. /\ Ordered(m'.list["hard"], Lefts(m', tick)) /\ To(m', tick, Delay) = k
       /\ \A u \in Timer \ {Delay} : To(m', tick, u) = To(r, tick, u)
  <2>1. PICK n : n = m'
    OBVIOUS
  <2>2. /\ Good(n) /\ Joins(r, n, Delay)
        /\ n.deadline = [r.deadline EXCEPT ![Delay] = (tick + k) % TickRange]
    BY <1>11, <1>14, <2>1
  <2>3. /\ Ordered(n.list["hard"], Lefts(n, tick)) /\ To(n, tick, Delay) = k
        /\ \A u \in Timer \ {Delay} : To(n, tick, u) = To(r, tick, u)
    BY <1>3, <1>11, <1>13, <2>2, DelayIs, Relinks
  <2>. QED BY <2>1, <2>3
<1>16. \A u \in Timer \ {Delay} : To(m', tick', u) = To(m, tick, u) /\ (In(m', u) => In(m, u))
  BY <1>2, <1>11, <1>12, <1>14, <1>15 DEF To
<1>17. pc'[TimerThread] = "check" /\ \A c \in Caller : pc'[c] = pc[c]
  BY <1>1, <1>2 DEF LinkInv, Types, Context
<1>18. PICK l \in Nat, w \in Nat, j \in Nat : l = MaxLate /\ w = Span /\ j = scan.ticks /\ j <= l
  BY Late DEF LinkInv, Types
<1>19. PICK s \in Seq(Timer) : s = m.list["soft"] /\ s # <<>>
  BY <1>1, <1>4, ListOf, DelayIs DEF Lists
<1>20. PICK f \in [Timer -> Int] : f = Lefts(m, tick)
  BY <1>1, <1>3, DelayIs, ToIs
<1>21. \A u \in Timer : f[u] = To(m, tick, u)
  BY <1>20 DEF Lefts
<1>22. OrderPart'
  <2>1. PICK g \in [Timer -> Int] : g = Lefts(m', tick')
    BY <1>2, <1>3, <1>14, DelayIs, ToIs
  <2>2. \A u \in Timer : g[u] = To(m', tick', u)
    BY <2>1 DEF Lefts
  <2>3. \A u \in Timer : Contains(s, u) => u # Delay
    BY <1>1, <1>19, ListOf, DelayIs DEF Lists
  <2>4. Ordered(s, f)
    BY <1>19, <1>20 DEF DueInv, OrderPart, Lists
  <2>5. \A u \in Timer : Contains(s, u) => g[u] = f[u]
    BY <1>16, <1>21, <2>2, <2>3, <2>4
  <2>6. Ordered(s, g)
    BY ONLY <2>4, <2>5, StaysOrdered, s \in Seq(Timer), f \in [Timer -> Int], g \in [Timer -> Int]
  <2>7. Ordered(m'.list["soft"], g)
    BY <1>12, <1>14, <1>19, <2>6
  <2>8. Ordered(m'.list["hard"], g)
    BY <1>2, <1>15, <2>1
  <2>. QED BY <2>1, <2>7, <2>8 DEF OrderPart, Lists
<1>23. HardWindow'
  <2>1. k \in (0 - l - 0)..w
    BY <1>18
  <2>2. To(m', tick', Delay) = k
    BY <1>2, <1>15
  <2>. QED BY <1>3, <1>16, <1>18, <2>1, <2>2 DEF DueInv, HardWindow, Timer
<1>24. ASSUME NEW u \in Soft, In(m', u)
       PROVE  u \in Timer \ {Delay} /\ In(m, u) /\ k <= To(m, tick, u) + l /\ To(m, tick, u) \in Int
  <2>1. u \in Timer \ {Delay} /\ In(m, u) /\ Kind(u) = "soft"
    BY <1>16, <1>24, DelayIs, KindIs DEF Timer
  <2>2. PICK i \in 1..Len(s) : s[i] = u
    BY <1>19, <2>1 DEF In, Contains
  <2>3. Head(s) = s[1] /\ s[1] \in Timer /\ 1 \in 1..Len(s)
    BY <1>19
  <2>4. Ordered(s, f)
    BY <1>19, <1>20 DEF DueInv, OrderPart, Lists
  <2>5. f[s[1]] <= f[u]
    <3>1. CASE i = 1
      BY <2>1, <2>2, <3>1
    <3>2. CASE i > 1
      BY <2>2, <2>3, <2>4, <3>2 DEF Ordered
    <3>. QED BY <3>1, <3>2
  <2>6. k <= f[s[1]] + j
    BY <1>4, <1>5, <1>18, <1>19, <1>21, <2>3
  <2>7. PICK y \in Int, z \in Int : y = f[s[1]] /\ z = f[u]
    BY <2>1, <2>3
  <2>8. k <= z + l
    BY <1>18, <2>5, <2>6, <2>7
  <2>. QED BY <1>21, <2>1, <2>7, <2>8
<1>25. SoftWindow'
  <2>1. ASSUME NEW u \in Soft, In(m', u) PROVE To(m', tick', u) \in (0 - MaxLate - 1 - scan'.ticks)..Span
    <3>1. PICK z \in Int : z = To(m, tick, u) /\ k <= z + l /\ z = To(m', tick', u)
      BY <1>16, <1>24, <2>1
    <3>2. z <= w
      BY <1>18, <1>24, <2>1, <3>1, Windows
    <3>3. z \in (0 - l - 1 - 0)..w
      BY <1>18, <3>1, <3>2
    <3>. QED BY <1>3, <1>18, <3>1, <3>3
  <2>. QED BY <2>1 DEF SoftWindow
<1>26. DelayWindow'
  BY <1>2, <1>3, <1>15 DEF DelayWindow
<1>27. AttendPart'
  <2>1. In(m', Delay) /\ To(m', tick', Delay) = k
    BY <1>2, <1>14, <1>15, DelayIs
  <2>2. ASSUME NEW u \in Soft, In(m', u) PROVE To(m', tick', Delay) <= To(m', tick', u) + MaxLate
    BY <1>16, <1>18, <1>24, <2>1, <2>2
  <2>. QED BY <2>1, <2>2 DEF AttendPart, Attended
<1>28. StartWindow'
  <2>1. \A d \in Context : pc[d] \in {"insert", "wake"} => arg[d] \in Timer \ {Delay}
    <3>1. \A d \in Context : pc[d] \in Call => arg[d] \in Timer /\ arg[d] # Delay
      BY InCall
    <3>. QED BY <3>1 DEF Call
  <2>2. \A d \in Context : pc'[d] = "insert" => pc[d] = "insert"
    BY <1>17 DEF Context
  <2>3. Caller \subseteq Context
    BY DEF Context
  <2>. QED BY <1>2, <1>16, <1>17, <2>1, <2>2, <2>3 DEF DueInv, StartWindow
<1>29. SleepPart'
  BY <1>17 DEF SleepPart
<1>. QED BY <1>22, <1>23, <1>25, <1>26, <1>27, <1>28, <1>29 DEF DueInv

LEMMA DueInit == Init => DueInv
<1>. SUFFICES ASSUME Init PROVE DueInv
  OBVIOUS
<1>1. \A x \in Lists : m.list[x] = <<>>
  BY DEF Init, Lists
<1>2. \A t \in Timer : ~In(m, t)
  BY <1>1, KindIs DEF In, Contains
<1>3. TimerThread \in Context /\ \A c \in Context : pc[c] \in {"look", "run"}
  BY DEF Init, Context
<1>4. m.stat = "ready"
  BY DEF Init
<1>5. OrderPart
  BY <1>1 DEF OrderPart, Ordered
<1>6. HardWindow /\ SoftWindow /\ DelayWindow
  BY <1>2, DelayIs DEF HardWindow, SoftWindow, DelayWindow, Timer
<1>7. StartWindow /\ AttendPart /\ SleepPart
  BY <1>3, <1>4 DEF StartWindow, AttendPart, SleepPart, Context
<1>. QED BY <1>5, <1>6, <1>7 DEF DueInv

LEMMA DueNext ==
  ASSUME LinkInv, OneUser, NoneAtTickMax, DueInv, [Next]_vars
  PROVE  DueInv'
<1>1. ASSUME NEW c \in Context, Begin(c) PROVE DueInv'
  BY <1>1, StartUnlinkDue, StopTestDue, ControlDue, DetachDue DEF Begin
<1>2. ASSUME NEW c \in Context, Continue(c) PROVE DueInv'
  BY <1>2, StartDeadlineDue, StartInsertDue, StartWakeDue, StopUnlinkDue, StopClearDue DEF Continue
<1>3. CASE ThreadStep
  BY <1>1, <1>2, <1>3, LookDue, SuspendDue, MeasureDue, SleepDue, ScanDue, SoftFireDue, SoftAfterDue
     DEF ThreadStep, Context
<1>4. CASE Interrupt
  BY <1>4, TickDue, CheckFireDue, CheckCallbackDue, CheckDoneDue DEF Interrupt
<1>5. CASE UNCHANGED vars
  <2>1. /\ m' = m /\ tick' = tick /\ pc' = pc /\ arg' = arg /\ isr' = isr /\ fired' = fired
        /\ scan' = scan
    BY <1>5 DEF vars
  <2>2. OrderPart' /\ HardWindow' /\ SoftWindow' /\ StartWindow' /\ DelayWindow'
    BY <2>1 DEF DueInv, OrderPart, HardWindow, SoftWindow, StartWindow, DelayWindow, InIsr
  <2>3. AttendPart' /\ SleepPart'
    BY <2>1 DEF DueInv, AttendPart, Attended, SleepPart
  <2>. QED BY <2>2, <2>3 DEF DueInv
<1>. QED BY <1>1, <1>2, <1>3, <1>4, <1>5 DEF Next, Context

LEMMA DueAlways == OneUser => (Spec /\ []NoneAtTickMax => []DueInv)
<1>. SUFFICES ASSUME OneUser PROVE Spec /\ []NoneAtTickMax => []DueInv
  OBVIOUS
<1>1. Init => DueInv
  BY DueInit
<1>2. LinkInv /\ NoneAtTickMax /\ DueInv /\ [Next]_vars => DueInv'
  BY DueNext
<1>3. Spec => []LinkInv
  BY LinkAlways
<1>. QED BY <1>1, <1>2, <1>3, PTL DEF Spec

\* rt_timer_start's walk keeps both lists in the order of their timeouts, whatever stops,
\* starts, restarts and late insertions are interleaved, and also where the tick wraps
THEOREM TimerOrder == OneUser => (Spec /\ []NoneAtTickMax => []ListsInOrder)
<1>1. ASSUME LinkInv, DueInv PROVE ListsInOrder
  <2>. SUFFICES ASSUME NEW x \in Lists, NEW i \in DOMAIN m.list[x], NEW j \in DOMAIN m.list[x], i < j
                PROVE  Left(m.list[x][i]) <= Left(m.list[x][j])
    BY DEF ListsInOrder, Lists
  <2>1. Good(m) /\ tick \in Ticks
    BY <1>1 DEF LinkInv, Types
  <2>2. PICK s \in Seq(Timer) : s = m.list[x]
    BY <2>1, ListOf, DelayIs
  <2>3. i \in 1..Len(s) /\ j \in 1..Len(s) /\ s[i] \in Timer /\ s[j] \in Timer
    BY <2>2
  <2>4. PICK f \in [Timer -> Int] : f = Lefts(m, tick)
    BY <2>1, ToIs, DelayIs
  <2>5. f[s[i]] <= f[s[j]]
    BY <1>1, <2>2, <2>3, <2>4 DEF DueInv, OrderPart, Ordered
  <2>6. f[s[i]] = Left(s[i]) /\ f[s[j]] = Left(s[j])
    BY <2>3, <2>4, LeftIs DEF Lefts
  <2>. QED BY <2>2, <2>5, <2>6
<1>2. LinkInv /\ DueInv => ListsInOrder
  BY <1>1
<1>. QED BY <1>2, LinkAlways, DueAlways, PTL

\* The timer thread does not oversleep: while it is suspended its own timer, a call that is
\* about to wake it or the interrupt sees to the first soft timer in time, and rt_thread_delay
\* has left its timer linked only while it is suspended (rt_thread_timeout's assertion)
THEOREM TimerAttended == OneUser => (Spec /\ []NoneAtTickMax => []SoftAttended)
<1>1. ASSUME LinkInv, DueInv PROVE SoftAttended
  <2>1. Linked(Delay) => m.stat = "suspend"
    BY <1>1 DEF LinkInv, DelayPart, Linked, In
  <2>2. ASSUME m.stat = "suspend", m.list["soft"] # <<>>
        PROVE  \/ Linked(Delay) /\ Left(Delay) <= Left(Head(m.list["soft"])) + MaxLate
               \/ fired.hard = Delay
               \/ \E c \in Caller : pc[c] = "wake"
    <3>1. PICK s \in Soft : s = Head(m.list["soft"]) /\ In(m, s)
      BY <1>1, <2>2, SoftHead DEF LinkInv, Types
    <3>2. Attended(s)
      BY <1>1, <2>2, <3>1 DEF DueInv, AttendPart
    <3>3. Left(Delay) = To(m, tick, Delay) /\ Left(s) = To(m, tick, s)
      BY LeftIs
    <3>. QED BY <3>1, <3>2, <3>3 DEF Attended, Linked, In
  <2>. QED BY <2>1, <2>2 DEF SoftAttended
<1>2. LinkInv /\ DueInv => SoftAttended
  BY <1>1
<1>. QED BY <1>2, LinkAlways, DueAlways, PTL

-----------------------------------------------------------------------------
(***************************************************************************)
(* rt_timer_check does what AbstractTimers promises of the hard timers.    *)
(***************************************************************************)

\* What the abstraction sees of the record r
Rest(r, now) == [t \in Hard |-> IF In(r, t) THEN To(r, now, t) ELSE None]

LEMMA RestIs ==
  ASSUME NEW r, Good(r), NEW now \in Ticks, NEW t \in Hard
  PROVE  /\ In(r, t) => /\ Rest(r, now)[t] = To(r, now, t) /\ To(r, now, t) \in Int
                        /\ Rest(r, now)[t] # None
         /\ ~In(r, t) => Rest(r, now)[t] = None
<1>1. t \in Timer
  BY DEF Timer
<1>2. To(r, now, t) \in Int /\ None \notin Int
  BY <1>1, ToIs, TimerAssumption
<1>. QED BY <1>2 DEF Rest

Phase(i) == IF i = "none" THEN "wait" ELSE "fire"

\* The abstraction's variables, now and after a step
LEMMA Seen ==
  /\ [t \in Hard |-> IF Linked(t) THEN Left(t) ELSE None] = Rest(m, tick)
  /\ [t \in Hard |-> IF Linked(t) THEN Left(t) ELSE None]' = Rest(m', tick')
  /\ (IF isr = "none" THEN "wait" ELSE "fire") = Phase(isr)
  /\ (IF isr = "none" THEN "wait" ELSE "fire")' = Phase(isr')
<1>1. [t \in Hard |-> IF Linked(t) THEN Left(t) ELSE None] = Rest(m, tick)
  BY DEF Rest, Linked, In, Left, Due, To, Until
<1>2. [t \in Hard |-> IF Linked(t) THEN Left(t) ELSE None]' = Rest(m', tick')
  BY DEF Rest, Linked, In, Left, Due, To, Until
<1>. QED BY <1>1, <1>2 DEF Phase

\* The functions of hard timers only do what Mild says
LEMMA CallbackSets ==
  ASSUME LinkInv, OneUser, DueInv, CheckCallback, NEW t \in Hard, In(m', t)
  PROVE  (In(m, t) /\ m'.deadline[t] = m.deadline[t]) \/ To(m', tick, t) \in 1..Span
<1>1. CASE fired.hard = Delay
  <2>1. m'.deadline = m.deadline /\ \A u \in Timer : In(m', u) => In(m, u)
    BY <1>1, CallbackDelay
  <2>. QED BY <2>1 DEF Timer
<1>2. CASE fired.hard # Delay
  <2>1. Mild(m, m')
    BY <1>2, CallbackMild
  <2>. QED BY <2>1 DEF Mild, Timer
<1>. QED BY <1>1, <1>2

\* Threads and timer functions only set and clear timers
LEMMA PromisedAdjust ==
  ASSUME LinkInv, LinkInv', DueInv, DueInv', isr' = "none" <=> isr = "none",
         fired'.hard \in {fired.hard, None},
         \A t \in Hard : In(m', t) =>
            \/ isr = "none" \/ To(m', tick', t) \in 1..Span
            \/ In(m, t) /\ To(m', tick', t) = To(m, tick, t)
  PROVE  Promise!Adjust
<1>1. Good(m) /\ tick \in Ticks /\ Good(m') /\ tick' \in Ticks
  BY DEF LinkInv, Types
<1>2. PICK l \in Nat, w \in Nat, h \in Nat : l = MaxLate /\ w = Span /\ h = Half /\ w <= h - 1
  BY Late, TickSizes
<1>3. ASSUME NEW t \in Hard
      PROVE  \/ Rest(m', tick')[t] \in {Rest(m, tick)[t], None}
             \/ Rest(m', tick')[t] \in (IF Phase(isr) = "fire" THEN 1 ELSE 0 - MaxLate)..(Half - 1)
  <2>1. CASE ~In(m', t)
    BY <1>1, <2>1, RestIs
  <2>2. CASE In(m', t) /\ isr = "none"
    <3>1. InIsr' = 0 /\ Phase(isr) = "wait"
      BY <2>2 DEF InIsr, Phase
    <3>2. To(m', tick', t) \in (0 - l - 0)..w
      BY <1>2, <2>2, <3>1 DEF DueInv, HardWindow
    <3>3. (0 - l - 0)..w \subseteq (0 - l)..(h - 1)
      BY <1>2
    <3>4. Rest(m', tick')[t] = To(m', tick', t)
      BY <1>1, <2>2, RestIs
    <3>. QED BY <1>2, <3>1, <3>2, <3>3, <3>4
  <2>3. CASE To(m', tick', t) \in 1..Span /\ In(m', t) /\ isr # "none"
    <3>1. Phase(isr) = "fire"
      BY <2>3 DEF Phase
    <3>2. 1..w \subseteq 1..(h - 1)
      BY <1>2
    <3>3. Rest(m', tick')[t] = To(m', tick', t)
      BY <1>1, <2>3, RestIs
    <3>. QED BY <1>2, <2>3, <3>1, <3>2, <3>3
  <2>4. CASE In(m', t) /\ In(m, t) /\ To(m', tick', t) = To(m, tick, t)
    BY <1>1, <2>4, RestIs
  <2>. QED BY <2>1, <2>2, <2>3, <2>4
<1>4. DOMAIN Rest(m', tick') = Hard
  BY DEF Rest
<1>5. Phase(isr') = Phase(isr)
  BY DEF Phase
<1>. QED BY <1>3, <1>4, <1>5, Seen DEF Promise!Adjust

LEMMA PromisedTick ==
  ASSUME LinkInv, LinkInv', DueInv, Tick
  PROVE  Promise!Tick
<1>1. Good(m) /\ tick \in Ticks /\ Good(m') /\ tick' \in Ticks
  BY DEF LinkInv, Types
<1>2. isr = "none" /\ isr' = "check" /\ fired' = fired /\ InIsr = 0
  BY DEF Tick, InIsr
<1>3. \A u \in Timer : In(m', u) <=> In(m, u)
  <2>1. PICK d : m' = [m EXCEPT !.deadline = d]
    BY DEF Tick
  <2>2. m'.list = m.list
    BY <1>1, <2>1 DEF Good, MType
  <2>. QED BY <2>2 DEF In
<1>4. ASSUME NEW t \in Hard
      PROVE  Rest(m', tick')[t] = IF Rest(m, tick)[t] # None THEN Rest(m, tick)[t] - 1 ELSE None
  <2>1. CASE In(m, t)
    <3>1. t \in Timer /\ Read(t)
      BY <2>1 DEF Timer, Read, Linked, In
    <3>2. To(m, tick, t) >= 0 - 2 * MaxLate
      <4>1. PICK l \in Nat, z \in {To(m, tick, t)} : l = MaxLate /\ l >= 1
        BY Late
      <4>2. z \in Int /\ z >= 0 - l - 0
        BY <1>2, <2>1, <3>1, <4>1, Windows
      <4>3. z >= 0 - 2 * l
        BY <4>1, <4>2
      <4>. QED BY <4>1, <4>3
    <3>3. To(m', tick', t) = To(m, tick, t) - 1
      BY <3>1, <3>2, TickTakes
    <3>4. /\ Rest(m', tick')[t] = To(m', tick', t) /\ Rest(m, tick)[t] = To(m, tick, t)
          /\ Rest(m, tick)[t] # None
      BY <1>1, <1>3, <2>1, <3>1, RestIs
    <3>. QED BY <3>3, <3>4
  <2>2. CASE ~In(m, t)
    <3>1. ~In(m', t)
      BY <1>3, <2>2 DEF Timer
    <3>. QED BY <1>1, <2>2, <3>1, RestIs
  <2>. QED BY <2>1, <2>2
<1>5. Rest(m', tick') = [t \in Hard |-> IF t \in {u \in Hard : Rest(m, tick)[u] # None}
                                        THEN Rest(m, tick)[t] - 1 ELSE None]
  <2>1. Rest(m', tick') = [t \in Hard |-> Rest(m', tick')[t]]
    BY DEF Rest
  <2>. QED BY <1>4, <2>1
<1>6. Phase(isr) = "wait" /\ Phase(isr') = "fire" /\ fired'.hard = fired.hard
  BY <1>2 DEF Phase
<1>. QED BY <1>5, <1>6, Seen DEF Promise!Tick, Promise!Set

\* rt_timer_check takes the first timer, which is due and the most overdue
LEMMA PromisedFire ==
  ASSUME LinkInv, LinkInv', DueInv, CheckFire
  PROVE  \E t \in Hard : Promise!Fire(t)
<1>1. Good(m) /\ tick \in Ticks /\ Good(m') /\ tick' = tick
  BY DEF LinkInv, Types, CheckFire
<1>2. isr = "check" /\ isr' = "callback" /\ fired.hard = None /\ m.list["hard"] # <<>>
  BY DEF CheckFire, HardDue, LinkInv, ThreadPart
<1>3. PICK t \in Hard : t = Head(m.list["hard"]) /\ In(m, t)
  BY <1>1, <1>2, HardHead
<1>4. t \in Timer /\ Kind(t) = "hard"
  BY KindIs DEF Timer
<1>5. m' = Unlink(m, t) /\ fired' = [fired EXCEPT !.hard = t] /\ Due(t, tick)
  BY <1>3 DEF CheckFire, HardDue
<1>6. Relisted(m, m') /\ \A u \in Timer : In(m', u) <=> In(m, u) /\ u # t
  BY <1>1, <1>4, <1>5, UnlinkIs
<1>7. fired'.hard = t
  BY <1>5 DEF LinkInv, Types
<1>8. To(m, tick, t) <= 0
  <2>1. m.deadline[t] \in Ticks
    BY <1>1, <1>4 DEF Good, MType, Ticks
  <2>. QED BY <1>1, <1>5, <2>1, UntilRange DEF Due, To
<1>9. ASSUME NEW u \in Hard, In(m, u) PROVE To(m, tick, t) <= To(m, tick, u)
  <2>1. PICK s \in Seq(Timer) : s = m.list["hard"] /\ Contains(s, u) /\ s # <<>>
    BY <1>1, <1>2, <1>9, ListOf, KindIs DEF In, Lists, Timer
  <2>2. PICK j \in 1..Len(s) : s[j] = u
    BY <2>1 DEF Contains
  <2>3. t = s[1] /\ 1 \in 1..Len(s)
    BY <1>3, <2>1
  <2>4. PICK f \in [Timer -> Int] : f = Lefts(m, tick)
    BY <1>1, DelayIs, ToIs
  <2>5. f[t] = To(m, tick, t) /\ f[u] = To(m, tick, u) /\ f[t] \in Int
    BY <1>4, <2>4 DEF Lefts, Timer
  <2>6. Ordered(s, f)
    BY <2>1, <2>4 DEF DueInv, OrderPart, Lists
  <2>7. f[t] <= f[u]
    <3>1. CASE j = 1
      BY <2>2, <2>3, <2>5, <3>1
    <3>2. CASE j > 1
      BY <2>2, <2>3, <2>6, <3>2 DEF Ordered
    <3>. QED BY <3>1, <3>2
  <2>. QED BY <2>5, <2>7
<1>10. Rest(m', tick') = [Rest(m, tick) EXCEPT ![t] = None]
  <2>1. \A u \in Hard : Rest(m', tick')[u] = IF u = t THEN None ELSE Rest(m, tick)[u]
    <3>1. ASSUME NEW u \in Hard PROVE Rest(m', tick')[u] = IF u = t THEN None ELSE Rest(m, tick)[u]
      <4>1. (In(m', u) <=> In(m, u) /\ u # t) /\ To(m', tick', u) = To(m, tick, u)
        BY <1>1, <1>6 DEF Relisted, To, Timer
      <4>. QED BY <1>1, <4>1, RestIs
    <3>. QED BY <3>1
  <2>2. Rest(m', tick') = [u \in Hard |-> Rest(m', tick')[u]] /\ DOMAIN Rest(m, tick) = Hard
    BY DEF Rest
  <2>. QED BY <2>1, <2>2
<1>11. /\ Rest(m, tick)[t] = To(m, tick, t) /\ Rest(m, tick)[t] # None
       /\ \A u \in Hard : Rest(m, tick)[u] # None => Rest(m, tick)[u] = To(m, tick, u) /\ In(m, u)
  BY <1>1, <1>3, RestIs
<1>12. \A u \in {v \in Hard : Rest(m, tick)[v] # None} : Rest(m, tick)[t] <= Rest(m, tick)[u]
  BY <1>9, <1>11
<1>13. Phase(isr) = "fire" /\ Phase(isr') = "fire"
  BY <1>2 DEF Phase
<1>14. Promise!Fire(t)
  BY <1>2, <1>7, <1>8, <1>10, <1>11, <1>12, <1>13, Seen DEF Promise!Fire, Promise!Set
<1>. QED BY <1>14

LEMMA PromisedSettle ==
  ASSUME LinkInv, DueInv, CheckDone
  PROVE  Promise!Settle
<1>1. Good(m) /\ tick \in Ticks /\ m' = m /\ tick' = tick /\ fired' = fired
  BY DEF LinkInv, Types, CheckDone
<1>2. isr = "check" /\ isr' = "none" /\ fired.hard = None /\ ~HardDue
  BY DEF CheckDone, LinkInv, ThreadPart
<1>3. \A t \in {u \in Hard : Rest(m, tick)[u] # None} : Rest(m, tick)[t] > 0
  <2>1. ASSUME NEW t \in Hard, Rest(m, tick)[t] # None PROVE Rest(m, tick)[t] > 0
    <3>1. In(m, t) /\ Rest(m, tick)[t] = To(m, tick, t)
      BY <1>1, <2>1, RestIs
    <3>2. To(m, tick, t) > 0 /\ To(m, tick, t) \in 0..Span
      BY <1>2, <3>1, SoonestFirst
    <3>. QED BY <3>1, <3>2
  <2>. QED BY <2>1
<1>4. Phase(isr) = "fire" /\ Phase(isr') = "wait" /\ Rest(m', tick') = Rest(m, tick)
  BY <1>1, <1>2 DEF Phase
<1>. QED BY <1>1, <1>2, <1>3, <1>4, Seen DEF Promise!Settle, Promise!Set

\* Every step is one of the abstraction, or changes nothing of what it sees
LEMMA PromisedNext ==
  ASSUME LinkInv, LinkInv', OneUser, DueInv, DueInv', [Next]_vars
  PROVE  [Promise!Next]_(Promise!vars)
<1>1. ASSUME isr = "none", isr' = "none" PROVE Promise!Adjust
  <2>1. fired.hard = None /\ fired'.hard = None
    BY <1>1 DEF LinkInv, ThreadPart
  <2>. QED BY <1>1, <2>1, PromisedAdjust
<1>2. ASSUME NEW c \in Context, Begin(c) PROVE Promise!Adjust
  <2>1. isr = "none" /\ isr' = isr
    BY <1>2 DEF Begin, StartUnlink, StopTest, Control, Detach, MayCall, At
  <2>. QED BY <1>1, <2>1
<1>3. ASSUME NEW c \in Context, Continue(c) PROVE Promise!Adjust
  <2>1. isr = "none" /\ isr' = isr
    BY <1>3 DEF Continue, StartDeadline, StartInsert, StartWake, StopUnlink, StopClear, At
  <2>. QED BY <1>1, <2>1
<1>4. CASE ThreadStep
  <2>1. CASE Begin(TimerThread) \/ Continue(TimerThread)
    BY <1>2, <1>3, <2>1 DEF Context, Promise!Next
  <2>2. CASE \/ Look \/ Suspend \/ Measure \/ Sleep \/ CheckSoft
             \/ SoftFire \/ SoftCallback \/ SoftAfter \/ SoftDone
    <3>1. isr = "none" /\ isr' = isr
      BY <2>2 DEF Look, Suspend, Measure, Sleep, CheckSoft, SoftFire, SoftCallback, SoftAfter,
         SoftDone, At
    <3>. QED BY <1>1, <3>1 DEF Promise!Next
  <2>. QED BY <1>4, <2>1, <2>2 DEF ThreadStep
<1>5. CASE Interrupt
  <2>1. CASE Tick
    BY <2>1, PromisedTick DEF Promise!Next
  <2>2. CASE CheckFire
    BY <2>2, PromisedFire DEF Promise!Next
  <2>3. CASE CheckCallback
    <3>1. isr # "none" /\ isr' # "none" /\ tick' = tick /\ fired'.hard = None
      BY <2>3 DEF CheckCallback, LinkInv, Types
    <3>2. ASSUME NEW t \in Hard, In(m', t)
          PROVE  To(m', tick', t) \in 1..Span \/ (In(m, t) /\ To(m', tick', t) = To(m, tick, t))
      <4>1. (In(m, t) /\ m'.deadline[t] = m.deadline[t]) \/ To(m', tick, t) \in 1..Span
        BY <2>3, <3>2, CallbackSets
      <4>. QED BY <3>1, <4>1 DEF To
    <3>3. Promise!Adjust
      BY <3>1, <3>2, PromisedAdjust
    <3>. QED BY <3>3 DEF Promise!Next
  <2>4. CASE CheckDone
    BY <2>4, PromisedSettle DEF Promise!Next
  <2>. QED BY <1>5, <2>1, <2>2, <2>3, <2>4 DEF Interrupt
<1>6. CASE UNCHANGED vars
  <2>1. m' = m /\ tick' = tick /\ isr' = isr /\ fired' = fired
    BY <1>6 DEF vars
  <2>. QED BY <2>1, Seen DEF Promise!vars
<1>7. CASE \E c \in Caller : Begin(c) \/ Continue(c)
  BY <1>2, <1>3, <1>7 DEF Context, Promise!Next
<1>. QED BY <1>4, <1>5, <1>6, <1>7 DEF Next

\* rt_timer_check runs the function of each hard timer at the tick it is due, no earlier and
\* no later, the more overdue first, and ends; a timer that was stopped does not run
THEOREM TimerImplements == OneUser => (Spec /\ []NoneAtTickMax => ImplementsTimers)
<1>. SUFFICES ASSUME OneUser PROVE Spec /\ []NoneAtTickMax => ImplementsTimers
  OBVIOUS
<1>1. Init => Promise!Init
  <2>. SUFFICES ASSUME Init PROVE Promise!Init
    OBVIOUS
  <2>1. m.list["hard"] = <<>> /\ isr = "none" /\ fired.hard = None
    BY DEF Init
  <2>2. \A t \in Hard : ~In(m, t)
    BY <2>1, KindIs DEF In, Contains, Timer
  <2>3. Rest(m, tick) = [t \in Hard |-> None] /\ Phase(isr) = "wait"
    BY <2>1, <2>2 DEF Rest, Phase
  <2>. QED BY <2>1, <2>3, Seen DEF Promise!Init
<1>2. LinkInv /\ LinkInv' /\ DueInv /\ DueInv' /\ [Next]_vars => [Promise!Next]_(Promise!vars)
  BY PromisedNext
<1>3. (Spec => []LinkInv) /\ (Spec /\ []NoneAtTickMax => []DueInv)
  BY LinkAlways, DueAlways
<1>. QED BY <1>1, <1>2, <1>3, PTL DEF Spec, ImplementsTimers, Promise!Spec

=============================================================================
