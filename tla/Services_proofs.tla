--------------------------- MODULE Services_proofs ---------------------------
(***************************************************************************)
(* Proofs about Services: whatever mix of calls the threads and handlers   *)
(* of a system make, the kernel stays consistent under it, every thread is *)
(* in a call that fits, and the buffers keep what is put in them.          *)
(*                                                                         *)
(* First the buffers by themselves: the ring buffer of the drivers with    *)
(* its mirror bits, the FIFO of the serial device and the ring of blocks;  *)
(* the chains of blocks of the message queue, and the rings of the mailbox *)
(* and of the data queue.  Then what the calls have in common, whatever    *)
(* object they are calls of: the invariant of the kernel and the callers   *)
(* under them, a lemma for each step that they are made of, and which      *)
(* steps have no part in the queues.                                       *)
(***************************************************************************)
EXTENDS Services, RtKernel_proofs, FiniteSetTheorems

-----------------------------------------------------------------------------
(***************************************************************************)
(* Sequences.                                                              *)
(***************************************************************************)

LEMMA MinPair ==
  ASSUME NEW a \in Int, NEW b \in Int
  PROVE  Min({a, b}) = IF a <= b THEN a ELSE b
<1> DEFINE Least(x) == x \in {a, b} /\ \A y \in {a, b} : x =< y
           m == IF a <= b THEN a ELSE b
<1>1. Least(m)
  OBVIOUS
<1>2. \A x : Least(x) => x = m
  OBVIOUS
<1>3. Min({a, b}) = CHOOSE x : Least(x)
  BY DEF Min
<1> HIDE DEF Least, m
<1>4. Min({a, b}) = m
  BY <1>1, <1>2, <1>3
<1>. QED BY <1>4 DEF m

LEMMA MaxPair ==
  ASSUME NEW a \in Int, NEW b \in Int
  PROVE  Max({a, b}) = IF a <= b THEN b ELSE a
<1> DEFINE Greatest(x) == x \in {a, b} /\ \A y \in {a, b} : x >= y
           m == IF a <= b THEN b ELSE a
<1>1. Greatest(m)
  OBVIOUS
<1>2. \A x : Greatest(x) => x = m
  OBVIOUS
<1>3. Max({a, b}) = CHOOSE x : Greatest(x)
  BY DEF Max
<1> HIDE DEF Greatest, m
<1>4. Max({a, b}) = m
  BY <1>1, <1>2, <1>3
<1>. QED BY <1>4 DEF m

\* Part of a sequence
LEMMA Part ==
  ASSUME NEW S, NEW s \in Seq(S), NEW m \in Nat \ {0}, NEW n \in Int, n <= Len(s)
  PROVE  /\ SubSeq(s, m, n) \in Seq(S)
         /\ Len(SubSeq(s, m, n)) = IF m <= n THEN n - m + 1 ELSE 0
         /\ \A i \in 1..Len(SubSeq(s, m, n)) : SubSeq(s, m, n)[i] = s[m + i - 1]
<1>1. \A i \in m..n : s[i] \in S
  <2>1. Len(s) \in Nat
    OBVIOUS
  <2>2. \A i \in m..n : i \in 1..Len(s)
    BY <2>1
  <2>. QED BY <2>2
<1>2. /\ SubSeq(s, m, n) \in Seq(S)
      /\ Len(SubSeq(s, m, n)) = IF m <= n THEN n - m + 1 ELSE 0
      /\ \A i \in 1..(n - m + 1) : SubSeq(s, m, n)[i] = s[m + i - 1]
  BY <1>1, SubSeqProperties
<1>. QED BY <1>2

\* Two sequences
LEMMA Joined ==
  ASSUME NEW S, NEW s \in Seq(S), NEW z \in Seq(S)
  PROVE  /\ s \o z \in Seq(S) /\ Len(s \o z) = Len(s) + Len(z)
         /\ \A i \in 1..Len(s) : (s \o z)[i] = s[i]
         /\ \A i \in 1..Len(z) : (s \o z)[Len(s) + i] = z[i]
OBVIOUS

\* The same sequence
LEMMA SameSequence ==
  ASSUME NEW S, NEW s \in Seq(S), NEW z \in Seq(S), Len(s) = Len(z),
         \A i \in 1..Len(s) : s[i] = z[i]
  PROVE  s = z
BY SeqEqual

-----------------------------------------------------------------------------
(***************************************************************************)
(* ringbuffer.c.  Ring r holds the bytes q, oldest first; the mirror bits  *)
(* tell on which lap each index is.                                        *)
(***************************************************************************)

RingState ==
  [buf : [0..(RbSize - 1) -> Byte \cup {None}], ri : 0..(RbSize - 1), rm : {0, 1},
   wi : 0..(RbSize - 1), wm : {0, 1}]

(***************************************************************************)
(* The indices of a ring of size n: data from ri to wi, d places of it,    *)
(* with mirror bits rm and wm.                                             *)
(***************************************************************************)
Lap(n, ri, rm, wi, wm, d) ==
  /\ n \in Nat /\ ri \in Nat /\ wi \in Nat /\ ri < n /\ wi < n
  /\ rm \in {0, 1} /\ wm \in {0, 1} /\ d \in Nat
  /\ wi > ri => rm = wm /\ d = wi - ri
  /\ wi < ri => rm # wm /\ d = n - (ri - wi)
  /\ wi = ri => d = IF rm = wm THEN 0 ELSE n

\* Where place x is, counted from the write index
Off(n, x, wi) == IF x >= wi THEN x - wi ELSE x - wi + n

\* The i-th place from ri on
Nth(n, ri, i) == IF ri + i - 1 < n THEN ri + i - 1 ELSE ri + i - 1 - n

Step(n, i, l) == IF n - i > l THEN i + l ELSE l - (n - i)
Flip(n, i, m, l) == IF n - i > l THEN m ELSE 1 - m

LEMMA Turn ==
  ASSUME NEW n \in Nat \ {0}, NEW x \in 0..(n - 1), NEW y \in 0..(n - 1)
  PROVE  (x - y) % n = Off(n, x, y) /\ Off(n, x, y) \in 0..(n - 1)
<1>1. CASE x >= y
  <2>1. x - y \in 0..(n - 1)
    BY <1>1
  <2>2. \A z \in 0..(n - 1) : z % n = z
    OBVIOUS
  <2>. QED BY <1>1, <2>1, <2>2 DEF Off
<1>2. CASE x < y
  <2>1. x - y \in Int /\ x - y < 0 /\ x - y >= -n
    BY <1>2
  <2>2. \A z \in Int : z < 0 /\ z >= -n => z % n = z + n
    OBVIOUS
  <2>. QED BY <1>2, <2>1, <2>2 DEF Off
<1>. QED BY <1>1, <1>2

LEMMA NthMod ==
  ASSUME NEW n \in Nat \ {0}, NEW ri \in 0..(n - 1), NEW i \in 1..n
  PROVE  (ri + i - 1) % n = Nth(n, ri, i)
<1>1. CASE ri + i - 1 < n
  <2>1. ri + i - 1 \in 0..(n - 1)
    BY <1>1
  <2>2. \A z \in 0..(n - 1) : z % n = z
    OBVIOUS
  <2>. QED BY <1>1, <2>1, <2>2 DEF Nth
<1>2. CASE ri + i - 1 >= n
  <2>1. ri + i - 1 \in n..(2 * n - 1)
    BY <1>2
  <2>2. \A z \in n..(2 * n - 1) : z % n = z - n
    OBVIOUS
  <2>. QED BY <1>2, <2>1, <2>2 DEF Nth
<1>. QED BY <1>1, <1>2

LEMMA LapWritten ==
  ASSUME NEW n \in Nat, NEW ri \in Nat, NEW rm \in Nat, NEW wi \in Nat, NEW wm \in Nat,
         NEW d \in Nat, Lap(n, ri, rm, wi, wm, d),
         NEW l \in Nat, d + l <= n
  PROVE  Lap(n, ri, rm, Step(n, wi, l), Flip(n, wi, wm, l), d + l)
<1>1. CASE n - wi > l
  BY <1>1 DEF Lap, Step, Flip
<1>2. CASE n - wi <= l
  BY <1>2 DEF Lap, Step, Flip
<1>. QED BY <1>1, <1>2 DEF Lap

LEMMA LapOld ==
  ASSUME NEW n \in Nat, NEW ri \in Nat, NEW rm \in Nat, NEW wi \in Nat, NEW wm \in Nat,
         NEW d \in Nat, Lap(n, ri, rm, wi, wm, d),
         NEW l \in Nat, d + l <= n, NEW i \in 1..d
  PROVE  /\ Nth(n, ri, i) \in 0..(n - 1)
         /\ Off(n, Nth(n, ri, i), wi) >= l /\ Off(n, Nth(n, ri, i), wi) \in Nat
<1>1. CASE ri + i - 1 < n
  BY <1>1 DEF Lap, Off, Nth
<1>2. CASE ri + i - 1 >= n
  BY <1>2 DEF Lap, Off, Nth
<1>. QED BY <1>1, <1>2 DEF Lap

LEMMA LapNew ==
  ASSUME NEW n \in Nat, NEW ri \in Nat, NEW rm \in Nat, NEW wi \in Nat, NEW wm \in Nat,
         NEW d \in Nat, Lap(n, ri, rm, wi, wm, d), NEW i \in (d + 1)..n
  PROVE  /\ Nth(n, ri, i) \in 0..(n - 1) /\ Off(n, Nth(n, ri, i), wi) \in Nat
         /\ Off(n, Nth(n, ri, i), wi) <= i - d - 1 /\ Off(n, Nth(n, ri, i), wi) >= i - d - 1
<1>1. CASE ri + i - 1 < n
  BY <1>1 DEF Lap, Off, Nth
<1>2. CASE ri + i - 1 >= n
  BY <1>2 DEF Lap, Off, Nth
<1>. QED BY <1>1, <1>2 DEF Lap

LEMMA LapRead ==
  ASSUME NEW n \in Nat, NEW ri \in Nat, NEW rm \in Nat, NEW wi \in Nat, NEW wm \in Nat,
         NEW d \in Nat, Lap(n, ri, rm, wi, wm, d), NEW l \in 0..d
  PROVE  Lap(n, Step(n, ri, l), Flip(n, ri, rm, l), wi, wm, d - l)
<1>1. CASE n - ri > l
  BY <1>1 DEF Lap, Step, Flip
<1>2. CASE n - ri <= l
  BY <1>2 DEF Lap, Step, Flip
<1>. QED BY <1>1, <1>2 DEF Lap

LEMMA NthStep ==
  ASSUME NEW n \in Nat, NEW ri \in Nat, ri < n, NEW l \in 0..n, NEW i \in 1..(n - l),
         NEW j \in Nat, j = l + i
  PROVE  /\ Nth(n, Step(n, ri, l), i) \in Nat /\ Nth(n, ri, j) \in Nat
         /\ Nth(n, Step(n, ri, l), i) <= Nth(n, ri, j)
         /\ Nth(n, Step(n, ri, l), i) >= Nth(n, ri, j)
<1>1. CASE n - ri > l
  BY <1>1 DEF Nth, Step
<1>2. CASE n - ri <= l
  BY <1>2 DEF Nth, Step
<1>. QED BY <1>1, <1>2

\* Writing l bytes where fewer fit brings the write index to where it would be if what is
\* in the way had been read; with the indices on the same lap it reads as empty
LEMMA LapOver ==
  ASSUME NEW n \in Nat, NEW ri \in Nat, NEW rm \in Nat, NEW wi \in Nat, NEW wm \in Nat,
         NEW d \in Nat, Lap(n, ri, rm, wi, wm, d), rm # wm,
         NEW l \in 0..n, d + l > n, NEW o \in Nat, o = d + l - n
  PROVE  /\ Step(n, wi, l) <= Step(n, ri, o) /\ Step(n, wi, l) >= Step(n, ri, o)
         /\ Step(n, wi, l) \in Nat /\ Step(n, ri, o) \in Nat
         /\ Flip(n, wi, rm, l) <= Flip(n, ri, rm, o) /\ Flip(n, wi, rm, l) >= Flip(n, ri, rm, o)
         /\ Flip(n, wi, rm, l) \in Nat /\ Flip(n, ri, rm, o) \in Nat
<1>1. wi + l = ri + o
  BY DEF Lap
<1>2. CASE n - wi > l
  BY <1>1, <1>2 DEF Lap, Step, Flip
<1>3. CASE n - wi <= l
  BY <1>1, <1>3 DEF Lap, Step, Flip
<1>. QED BY <1>2, <1>3 DEF Lap

LEMMA LapSame ==
  ASSUME NEW n \in Nat, NEW i \in Nat, i < n, NEW m \in {0, 1}
  PROVE  Lap(n, i, m, i, m, 0)
BY DEF Lap

LEMMA LapSpace ==
  ASSUME NEW n \in Nat, NEW ri \in Nat, NEW rm \in Nat, NEW wi \in Nat, NEW wm \in Nat,
         NEW d \in Nat, Lap(n, ri, rm, wi, wm, d)
  PROVE  d <= n
BY DEF Lap

RingHolds(r, q) ==
  /\ r \in RingState /\ q \in Seq(Byte)
  /\ Lap(RbSize, r.ri, r.rm, r.wi, r.wm, Len(q))
  /\ \A i \in 1..Len(q) : q[i] = r.buf[Nth(RbSize, r.ri, i)]

LEMMA RingSizes ==
  RbSize \in Nat \ {0} /\ Burst \subseteq Nat \ {0}
BY RingBufferAssumption

\* The bytes in a ring buffer and the space left are no more than its size
LEMMA RingSpace ==
  ASSUME NEW r \in RingState
  PROVE  DataLen(r) \in 0..RbSize /\ SpaceLen(r) \in 0..RbSize
BY RingSizes DEF RingState, DataLen, SpaceLen

LEMMA RingLength ==
  ASSUME NEW r, NEW q, RingHolds(r, q)
  PROVE  DataLen(r) = Len(q) /\ SpaceLen(r) = RbSize - Len(q) /\ Len(q) \in 0..RbSize
<1>1. Lap(RbSize, r.ri, r.rm, r.wi, r.wm, Len(q))
  BY DEF RingHolds
<1>2. DataLen(r) = Len(q)
  BY <1>1 DEF Lap, DataLen
<1>. QED BY <1>1, <1>2, LapSpace DEF SpaceLen, Lap

LEMMA RingShows ==
  ASSUME NEW q, RingHolds(ring, q)
  PROVE  RbContents = q
<1>1. DataLen(ring) \in 0..RbSize /\ ring \in RingState /\ q \in Seq(Byte)
      /\ Len(q) = DataLen(ring)
  BY RingSpace, RingLength DEF RingHolds
<1>2. ASSUME NEW i \in 1..DataLen(ring)
      PROVE  (ring.ri + i - 1) % RbSize = Nth(RbSize, ring.ri, i)
  <2>1. ring.ri \in 0..(RbSize - 1) /\ i \in 1..RbSize
    BY <1>1, RingSizes DEF RingState
  <2>. QED BY <2>1, RingSizes, NthMod
<1>3. \A i \in 1..DataLen(ring) : q[i] = ring.buf[(ring.ri + i - 1) % RbSize]
  BY <1>1, <1>2 DEF RingHolds
<1>4. q = [i \in 1..Len(q) |-> q[i]]
  BY <1>1
<1>. QED BY <1>1, <1>3, <1>4 DEF RbContents

(***************************************************************************)
(* A ring always holds some bytes in order.  They are those it owes its    *)
(* readers, unless a forced put has emptied it since the last reset.       *)
(***************************************************************************)
KeptState == [bytes : Seq(Byte), emptied : BOOLEAN]

RingSound(r, q) ==
  /\ q \in KeptState
  /\ \E h : RingHolds(r, h) /\ (~q.emptied => h = q.bytes)

LEMMA RingMeans ==
  ASSUME RingSound(ring, kept)
  PROVE  RbType /\ RbKeepsBytes
<1>1. PICK h : RingHolds(ring, h) /\ (~kept.emptied => h = kept.bytes)
  BY DEF RingSound
<1>2. RbKeepsBytes
  BY <1>1, RingShows DEF RbKeepsBytes
<1>3. ring \in RingState
  BY <1>1 DEF RingHolds
<1>. QED BY <1>2, <1>3 DEF RingSound, KeptState, RbType, RingState

\* memcpy around the end
LEMMA Copying ==
  ASSUME NEW r \in RingState, NEW s \in Seq(Byte), Len(s) <= RbSize
  PROVE  /\ Copied(r, s) \in [0..(RbSize - 1) -> Byte \cup {None}]
         /\ \A x \in 0..(RbSize - 1) :
              Copied(r, s)[x] = IF Off(RbSize, x, r.wi) < Len(s) THEN s[Off(RbSize, x, r.wi) + 1]
                                                                 ELSE r.buf[x]
<1>1. ASSUME NEW x \in 0..(RbSize - 1)
      PROVE  (x - r.wi) % RbSize = Off(RbSize, x, r.wi) /\ Off(RbSize, x, r.wi) \in Nat
  <2>1. PICK y \in 0..(RbSize - 1) : y = r.wi
    BY DEF RingState
  <2>2. (x - y) % RbSize = Off(RbSize, x, y) /\ Off(RbSize, x, y) \in 0..(RbSize - 1)
    BY RingSizes, Turn
  <2>. QED BY <2>1, <2>2, RingSizes
<1>2. ASSUME NEW x \in 0..(RbSize - 1)
      PROVE  Copied(r, s)[x] = IF Off(RbSize, x, r.wi) < Len(s) THEN s[Off(RbSize, x, r.wi) + 1]
                                                                 ELSE r.buf[x]
  BY <1>1 DEF Copied
<1>3. ASSUME NEW x \in 0..(RbSize - 1) PROVE Copied(r, s)[x] \in Byte \cup {None}
  <2>1. r.buf[x] \in Byte \cup {None}
    BY DEF RingState
  <2>2. \A j \in Nat : j < Len(s) => s[j + 1] \in Byte
    OBVIOUS
  <2>. QED BY <1>1, <1>2, <2>1, <2>2
<1>4. Copied(r, s) = [x \in 0..(RbSize - 1) |-> Copied(r, s)[x]]
  BY DEF Copied
<1>. QED BY <1>2, <1>3, <1>4

\* What writing does to the fields
LEMMA Writing ==
  ASSUME NEW r \in RingState, NEW s \in Seq(Byte), Len(s) <= RbSize
  PROVE  /\ Written(r, s) \in RingState
         /\ Written(r, s).buf = Copied(r, s)
         /\ Written(r, s).ri = r.ri /\ Written(r, s).rm = r.rm
         /\ Written(r, s).wi = Moved(r.wi, Len(s))
         /\ Written(r, s).wm = Flipped(r.wi, r.wm, Len(s))
<1>1. Copied(r, s) \in [0..(RbSize - 1) -> Byte \cup {None}]
  BY Copying
<1>2. Moved(r.wi, Len(s)) \in 0..(RbSize - 1) /\ Flipped(r.wi, r.wm, Len(s)) \in {0, 1}
  BY RingSizes DEF RingState, Moved, Flipped
<1>. QED BY <1>1, <1>2 DEF Written, RingState

\* rt_ringbuffer_put of what fits
LEMMA WrittenHolds ==
  ASSUME NEW r, NEW q, RingHolds(r, q), NEW s \in Seq(Byte), Len(q) + Len(s) <= RbSize
  PROVE  RingHolds(Written(r, s), q \o s)
<1> DEFINE w == Written(r, s)
<1>1. r \in RingState /\ q \in Seq(Byte) /\ Len(s) \in Nat /\ Len(q) \in Nat /\ Len(s) <= RbSize
      /\ Lap(RbSize, r.ri, r.rm, r.wi, r.wm, Len(q)) /\ RbSize \in Nat
      /\ r.ri \in Nat /\ r.rm \in Nat /\ r.wi \in Nat /\ r.wm \in Nat
  BY RingSizes DEF RingHolds, RingState
<1>2. /\ w \in RingState /\ w.buf = Copied(r, s) /\ w.ri = r.ri /\ w.rm = r.rm
      /\ w.wi = Step(RbSize, r.wi, Len(s)) /\ w.wm = Flip(RbSize, r.wi, r.wm, Len(s))
  BY <1>1, Writing DEF Moved, Flipped, Step, Flip
<1> HIDE DEF w
<1>4. /\ q \o s \in Seq(Byte) /\ Len(q \o s) = Len(q) + Len(s)
      /\ \A i \in 1..Len(q) : (q \o s)[i] = q[i]
      /\ \A i \in 1..Len(s) : (q \o s)[Len(q) + i] = s[i]
  BY <1>1, Joined
<1>3. Lap(RbSize, w.ri, w.rm, w.wi, w.wm, Len(q \o s))
  <2>1. Lap(RbSize, r.ri, r.rm, Step(RbSize, r.wi, Len(s)), Flip(RbSize, r.wi, r.wm, Len(s)),
            Len(q) + Len(s))
    BY <1>1, LapWritten
  <2>. QED BY <1>2, <1>4, <2>1
<1>5. ASSUME NEW i \in 1..Len(q) PROVE w.buf[Nth(RbSize, w.ri, i)] = q[i]
  <2>1. PICK x : x = Nth(RbSize, r.ri, i)
    OBVIOUS
  <2>2. x \in 0..(RbSize - 1) /\ Off(RbSize, x, r.wi) >= Len(s) /\ Off(RbSize, x, r.wi) \in Nat
    BY <1>1, <2>1, LapOld
  <2>3. w.buf[x] = r.buf[x]
    BY <1>1, <1>2, <2>2, Copying
  <2>. QED BY <1>2, <2>1, <2>3 DEF RingHolds
<1>6. ASSUME NEW i \in 1..Len(s), NEW j \in Nat, j = Len(q) + i
      PROVE  w.buf[Nth(RbSize, w.ri, j)] = s[i]
  <2>1. PICK x : x = Nth(RbSize, r.ri, j)
    OBVIOUS
  <2>2. j \in (Len(q) + 1)..RbSize /\ j - Len(q) - 1 = i - 1
    BY <1>1, <1>6
  <2>3. x \in 0..(RbSize - 1) /\ Off(RbSize, x, r.wi) = i - 1
    <3>1. /\ Nth(RbSize, r.ri, j) \in 0..(RbSize - 1)
          /\ Off(RbSize, Nth(RbSize, r.ri, j), r.wi) \in Nat
          /\ Off(RbSize, Nth(RbSize, r.ri, j), r.wi) <= j - Len(q) - 1
          /\ Off(RbSize, Nth(RbSize, r.ri, j), r.wi) >= j - Len(q) - 1
      BY <1>1, <2>2, LapNew
    <3>. QED BY <1>1, <2>1, <2>2, <3>1, SMTT(60)
  <2>4. Off(RbSize, x, r.wi) < Len(s) /\ Off(RbSize, x, r.wi) + 1 = i
    BY <2>3
  <2>5. w.buf[x] = s[i]
    BY <1>1, <1>2, <2>3, <2>4, Copying
  <2>. QED BY <1>2, <2>1, <2>5
<1>7. ASSUME NEW i \in 1..Len(q \o s) PROVE (q \o s)[i] = w.buf[Nth(RbSize, w.ri, i)]
  <2>1. CASE i <= Len(q)
    BY <1>1, <1>4, <1>5, <2>1
  <2>2. CASE i > Len(q)
    <3>1. PICK j : j = i - Len(q)
      OBVIOUS
    <3>2. j \in 1..Len(s) /\ i = Len(q) + j /\ i \in Nat
      BY <1>1, <1>4, <2>2, <3>1
    <3>. QED BY <1>4, <1>6, <3>2
  <2>. QED BY <1>1, <1>4, <2>1, <2>2
<1>. QED BY <1>2, <1>3, <1>4, <1>7 DEF RingHolds, w

LEMMA RingTypes ==
  ASSUME NEW r, NEW q, RingHolds(r, q)
  PROVE  /\ r \in RingState /\ q \in Seq(Byte) /\ Len(q) \in Nat /\ Len(q) <= RbSize
         /\ RbSize \in Nat /\ r.ri \in Nat /\ r.rm \in Nat /\ r.wi \in Nat /\ r.wm \in Nat
         /\ r.ri < RbSize /\ r.wi < RbSize
         /\ Lap(RbSize, r.ri, r.rm, r.wi, r.wm, Len(q))
<1>1. r \in RingState /\ q \in Seq(Byte) /\ Lap(RbSize, r.ri, r.rm, r.wi, r.wm, Len(q))
  BY DEF RingHolds
<1>2. RbSize \in Nat /\ r.ri \in Nat /\ r.rm \in Nat /\ r.wi \in Nat /\ r.wm \in Nat
      /\ r.ri < RbSize /\ r.wi < RbSize
  BY <1>1, RingSizes DEF RingState
<1>3. Len(q) \in Nat
  BY <1>1
<1>4. Len(q) <= RbSize
  BY <1>1, <1>2, <1>3, LapSpace
<1>. QED BY <1>1, <1>2, <1>3, <1>4

\* rt_ringbuffer_get
LEMMA GetHolds ==
  ASSUME NEW r, NEW q, RingHolds(r, q), NEW n \in 0..Len(q)
  PROVE  RingHolds(RbGet(r, n), SubSeq(q, n + 1, Len(q)))
<1> DEFINE g == RbGet(r, n)
           z == SubSeq(q, n + 1, Len(q))
<1>1. /\ r \in RingState /\ q \in Seq(Byte) /\ Len(q) \in Nat /\ Len(q) <= RbSize
      /\ RbSize \in Nat /\ r.ri \in Nat /\ r.rm \in Nat /\ r.wi \in Nat /\ r.wm \in Nat
      /\ r.ri < RbSize /\ n \in 0..RbSize
      /\ Lap(RbSize, r.ri, r.rm, r.wi, r.wm, Len(q))
  BY RingTypes
<1>2. z \in Seq(Byte) /\ Len(z) = Len(q) - n /\ \A i \in 1..Len(z) : z[i] = q[n + i]
  <2>1. n + 1 \in Nat \ {0} /\ Len(q) \in Int
    BY <1>1
  <2>2. /\ z \in Seq(Byte) /\ Len(z) = IF n + 1 <= Len(q) THEN Len(q) - (n + 1) + 1 ELSE 0
        /\ \A i \in 1..Len(z) : z[i] = q[n + 1 + i - 1]
    BY <1>1, <2>1, Part
  <2>3. \A i \in 1..Len(z) : n + 1 + i - 1 = n + i
    OBVIOUS
  <2>. QED BY <1>1, <2>2, <2>3
<1>3. /\ g \in RingState /\ g.buf = r.buf /\ g.wi = r.wi /\ g.wm = r.wm
      /\ g.ri = Step(RbSize, r.ri, n) /\ g.rm = Flip(RbSize, r.ri, r.rm, n)
  <2>1. Step(RbSize, r.ri, n) \in 0..(RbSize - 1) /\ Flip(RbSize, r.ri, r.rm, n) \in {0, 1}
    BY <1>1 DEF Step, Flip, RingState
  <2>2. g = [r EXCEPT !.ri = Step(RbSize, r.ri, n), !.rm = Flip(RbSize, r.ri, r.rm, n)]
    BY DEF RbGet, Moved, Flipped, Step, Flip
  <2>. QED BY <1>1, <2>1, <2>2 DEF RingState
<1> HIDE DEF g, z
<1>4. Lap(RbSize, g.ri, g.rm, g.wi, g.wm, Len(z))
  <2>1. Lap(RbSize, Step(RbSize, r.ri, n), Flip(RbSize, r.ri, r.rm, n), r.wi, r.wm, Len(q) - n)
    BY <1>1, LapRead
  <2>. QED BY <1>2, <1>3, <2>1
<1>5. ASSUME NEW i \in 1..Len(z) PROVE z[i] = g.buf[Nth(RbSize, g.ri, i)]
  <2>1. PICK j \in Nat : j = n + i
    BY <1>1
  <2>2. j \in 1..Len(q) /\ i \in 1..(RbSize - n)
    BY <1>1, <1>2, <2>1, SMTT(60)
  <2>3. /\ Nth(RbSize, Step(RbSize, r.ri, n), i) \in Nat /\ Nth(RbSize, r.ri, j) \in Nat
        /\ Nth(RbSize, Step(RbSize, r.ri, n), i) <= Nth(RbSize, r.ri, j)
        /\ Nth(RbSize, Step(RbSize, r.ri, n), i) >= Nth(RbSize, r.ri, j)
    BY <1>1, <2>1, <2>2, NthStep
  <2>4. Nth(RbSize, g.ri, i) = Nth(RbSize, r.ri, j)
    BY <1>3, <2>3
  <2>5. z[i] = q[j] /\ q[j] = r.buf[Nth(RbSize, r.ri, j)]
    BY <1>2, <2>1, <2>2 DEF RingHolds
  <2>. QED BY <1>3, <2>4, <2>5
<1>. QED BY <1>2, <1>3, <1>4, <1>5 DEF RingHolds, g, z

\* A forced put that overflows with the indices on different laps
LEMMA OverHolds ==
  ASSUME NEW r, NEW q, RingHolds(r, q), r.rm # r.wm, NEW s \in Seq(Byte), Len(s) <= RbSize,
         Len(q) + Len(s) > RbSize, NEW o \in Nat, o = Len(q) + Len(s) - RbSize
  PROVE  RingHolds([Written(r, s) EXCEPT !.ri = Written(r, s).wi,
                                         !.rm = Flipped(r.wi, @, Len(s))],
                   SubSeq(q, o + 1, Len(q)) \o s)
<1> DEFINE w == Written(r, s)
           g == RbGet(r, o)
           z == SubSeq(q, o + 1, Len(q))
<1>1. /\ r \in RingState /\ q \in Seq(Byte) /\ Len(q) \in Nat /\ Len(q) <= RbSize
      /\ RbSize \in Nat /\ r.ri \in Nat /\ r.rm \in Nat /\ r.wi \in Nat /\ r.wm \in Nat
      /\ r.ri < RbSize
      /\ Lap(RbSize, r.ri, r.rm, r.wi, r.wm, Len(q))
      /\ Len(s) \in 0..RbSize /\ o \in 0..Len(q)
  <2>1. Len(s) \in Nat
    OBVIOUS
  <2>. QED BY <2>1, RingTypes
<1>2. RingHolds(g, z)
  BY <1>1, GetHolds
<1>3. Len(z) + Len(s) <= RbSize
  <2>1. o + 1 \in Nat \ {0}
    OBVIOUS
  <2>2. Len(z) = IF o + 1 <= Len(q) THEN Len(q) - (o + 1) + 1 ELSE 0
    BY <1>1, <2>1, Part
  <2>. QED BY <1>1, <2>2
<1>4. RingHolds(Written(g, s), z \o s)
  BY <1>2, <1>3, WrittenHolds
<1>5. /\ Step(RbSize, r.wi, Len(s)) = Step(RbSize, r.ri, o)
      /\ Flip(RbSize, r.wi, r.rm, Len(s)) = Flip(RbSize, r.ri, r.rm, o)
  <2>1. Len(q) + Len(s) > RbSize /\ o \in Nat /\ o = Len(q) + Len(s) - RbSize /\ r.rm # r.wm
    OBVIOUS
  <2>2. /\ Step(RbSize, r.wi, Len(s)) <= Step(RbSize, r.ri, o)
        /\ Step(RbSize, r.wi, Len(s)) >= Step(RbSize, r.ri, o)
        /\ Step(RbSize, r.wi, Len(s)) \in Nat /\ Step(RbSize, r.ri, o) \in Nat
        /\ Flip(RbSize, r.wi, r.rm, Len(s)) <= Flip(RbSize, r.ri, r.rm, o)
        /\ Flip(RbSize, r.wi, r.rm, Len(s)) >= Flip(RbSize, r.ri, r.rm, o)
        /\ Flip(RbSize, r.wi, r.rm, Len(s)) \in Nat /\ Flip(RbSize, r.ri, r.rm, o) \in Nat
    BY <1>1, <2>1, LapOver, ZenonT(60)
  <2>. QED BY <2>2
<1>6. Written(g, s) = [w EXCEPT !.ri = w.wi, !.rm = Flipped(r.wi, @, Len(s))]
  <2>1. PICK a : a = Step(RbSize, r.wi, Len(s))
    OBVIOUS
  <2>2. PICK b : b = Flip(RbSize, r.wi, r.rm, Len(s))
    OBVIOUS
  <2>3. PICK c : c = Flip(RbSize, r.wi, r.wm, Len(s))
    OBVIOUS
  <2>4. g = [r EXCEPT !.ri = a, !.rm = b]
    BY <1>5, <2>1, <2>2 DEF RbGet, Moved, Flipped, Step, Flip
  <2>5. g.buf = r.buf /\ g.wi = r.wi /\ g.wm = r.wm
    BY <1>1, <2>4 DEF RingState
  <2>6. Copied(g, s) = Copied(r, s)
    BY <2>5 DEF Copied
  <2>7. Moved(r.wi, Len(s)) = a /\ Flipped(r.wi, r.rm, Len(s)) = b /\ Flipped(r.wi, r.wm, Len(s)) = c
    BY <2>1, <2>2, <2>3 DEF Moved, Flipped, Step, Flip
  <2>8. PICK y : y = Copied(r, s)
    OBVIOUS
  <2>9. w = [r EXCEPT !.buf = y, !.wi = a, !.wm = c]
    BY <2>7, <2>8 DEF Written
  <2>10. Written(g, s) = [g EXCEPT !.buf = y, !.wi = a, !.wm = c]
    BY <2>5, <2>6, <2>7, <2>8 DEF Written
  <2> HIDE DEF w, g
  <2>11. w.wi = a /\ w.rm = r.rm
    BY <1>1, <2>9 DEF RingState
  <2>12. [w EXCEPT !.ri = w.wi, !.rm = Flipped(r.wi, @, Len(s))] = [w EXCEPT !.ri = a, !.rm = b]
    BY <2>7, <2>11
  <2>. QED BY <1>1, <2>4, <2>9, <2>10, <2>12, ZenonT(60) DEF RingState
<1>. QED BY <1>4, <1>6

\* ... and with both on the same lap: it reads as empty
LEMMA OverEmpties ==
  ASSUME NEW r, NEW q, RingHolds(r, q), r.rm = r.wm, NEW s \in Seq(Byte), Len(s) <= RbSize
  PROVE  RingHolds([Written(r, s) EXCEPT !.ri = Written(r, s).wi,
                                         !.rm = Flipped(r.wi, @, Len(s))], <<>>)
<1>1. r \in RingState
  BY RingTypes
<1>2. PICK w : w = Written(r, s)
  OBVIOUS
<1>3. /\ w \in RingState /\ w.rm = r.rm /\ w.wm = Flipped(r.wi, r.wm, Len(s))
  BY <1>1, <1>2, Writing
<1>4. PICK e : e = [w EXCEPT !.ri = w.wi, !.rm = w.wm]
  OBVIOUS
<1>5. e \in RingState /\ e.ri = e.wi /\ e.rm = e.wm
  BY <1>3, <1>4 DEF RingState
<1>6. e = [w EXCEPT !.ri = w.wi, !.rm = Flipped(r.wi, @, Len(s))]
  BY <1>3, <1>4
<1>7. <<>> \in Seq(Byte) /\ Len(<<>>) = 0
  OBVIOUS
<1>8. Lap(RbSize, e.ri, e.rm, e.wi, e.wm, 0)
  <2>1. e.ri \in Nat /\ e.ri < RbSize /\ e.rm \in {0, 1} /\ RbSize \in Nat
    BY <1>5, RingSizes DEF RingState
  <2>2. Lap(RbSize, e.ri, e.rm, e.ri, e.rm, 0)
    BY <2>1, LapSame
  <2>. QED BY <1>5, <2>2
<1>9. RingHolds(e, <<>>)
  BY <1>5, <1>7, <1>8 DEF RingHolds
<1>. QED BY <1>2, <1>6, <1>9

\* The last RbSize bytes
LEMMA NewestAll ==
  ASSUME NEW s \in Seq(Byte), Len(s) <= RbSize
  PROVE  Newest(s) = s
<1>1. Len(s) \in Nat /\ Len(s) - RbSize + 1 \in Int /\ RbSize \in Nat
  BY RingSizes
<1>2. Max({1, Len(s) - RbSize + 1}) = 1
  BY <1>1, MaxPair
<1>3. /\ SubSeq(s, 1, Len(s)) \in Seq(Byte)
      /\ Len(SubSeq(s, 1, Len(s))) = IF 1 <= Len(s) THEN Len(s) - 1 + 1 ELSE 0
      /\ \A i \in 1..Len(SubSeq(s, 1, Len(s))) : SubSeq(s, 1, Len(s))[i] = s[1 + i - 1]
  BY <1>1, Part
<1>4. \A i \in 1..Len(SubSeq(s, 1, Len(s))) : 1 + i - 1 = i
  OBVIOUS
<1>5. Len(SubSeq(s, 1, Len(s))) = Len(s)
  BY <1>1, <1>3
<1>6. SubSeq(s, 1, Len(s)) = s
  BY <1>3, <1>4, <1>5, SameSequence
<1>. QED BY <1>2, <1>6 DEF Newest

LEMMA NewestSome ==
  ASSUME NEW s \in Seq(Byte), NEW d \in Nat, d = Len(s) - RbSize
  PROVE  /\ Newest(s) \in Seq(Byte) /\ Len(Newest(s)) = RbSize
         /\ \A i \in 1..RbSize : Newest(s)[i] = s[d + i]
<1>1. Len(s) \in Nat /\ Len(s) - RbSize + 1 \in Int /\ RbSize \in Nat \ {0}
  BY RingSizes
<1>2. Max({1, Len(s) - RbSize + 1}) = d + 1 /\ d + 1 \in Nat \ {0}
  BY <1>1, MaxPair
<1>3. /\ SubSeq(s, d + 1, Len(s)) \in Seq(Byte)
      /\ Len(SubSeq(s, d + 1, Len(s))) = IF d + 1 <= Len(s) THEN Len(s) - (d + 1) + 1 ELSE 0
      /\ \A i \in 1..Len(SubSeq(s, d + 1, Len(s))) : SubSeq(s, d + 1, Len(s))[i] = s[d + 1 + i - 1]
  BY <1>1, <1>2, Part
<1>4. \A i \in 1..RbSize : d + 1 + i - 1 = d + i
  BY <1>1
<1>5. Len(SubSeq(s, d + 1, Len(s))) = RbSize
  BY <1>1, <1>3
<1>. QED BY <1>2, <1>3, <1>4, <1>5, ZenonT(60) DEF Newest

LEMMA NewestLength ==
  ASSUME NEW s \in Seq(Byte)
  PROVE  Newest(s) \in Seq(Byte) /\ Len(Newest(s)) \in Nat /\ Len(Newest(s)) <= RbSize
<1>1. Len(s) \in Nat /\ RbSize \in Nat
  BY RingSizes
<1>2. CASE Len(s) <= RbSize
  BY <1>1, <1>2, NewestAll
<1>3. CASE Len(s) > RbSize
  <2>1. PICK d \in Nat : d = Len(s) - RbSize
    BY <1>1, <1>3
  <2>2. Newest(s) \in Seq(Byte) /\ Len(Newest(s)) = RbSize
    BY <2>1, NewestSome
  <2>. QED BY <1>1, <2>2
<1>. QED BY <1>1, <1>2, <1>3

\* What is pushed out is the oldest
LEMMA NewestJoined ==
  ASSUME NEW q \in Seq(Byte), NEW s \in Seq(Byte), Len(q) <= RbSize,
         NEW o \in Nat, o = Len(q) + Len(Newest(s)) - RbSize
  PROVE  Newest(q \o s) = SubSeq(q, o + 1, Len(q)) \o Newest(s)
<1> DEFINE last == Newest(s)
           z == SubSeq(q, o + 1, Len(q))
<1>1. /\ Len(q) \in Nat /\ Len(s) \in Nat /\ RbSize \in Nat \ {0}
      /\ last \in Seq(Byte) /\ Len(last) \in Nat /\ Len(last) <= RbSize /\ o <= Len(q)
  BY RingSizes, NewestLength
<1>2. z \in Seq(Byte) /\ Len(z) = Len(q) - o /\ \A i \in 1..Len(z) : z[i] = q[o + i]
  <2>1. o + 1 \in Nat \ {0} /\ Len(q) \in Int
    BY <1>1
  <2>2. /\ z \in Seq(Byte) /\ Len(z) = IF o + 1 <= Len(q) THEN Len(q) - (o + 1) + 1 ELSE 0
        /\ \A i \in 1..Len(z) : z[i] = q[o + 1 + i - 1]
    BY <1>1, <2>1, Part, SMTT(60)
  <2>3. \A i \in 1..Len(z) : o + 1 + i - 1 = o + i
    OBVIOUS
  <2>. QED BY <1>1, <2>2, <2>3
<1>3. /\ q \o s \in Seq(Byte) /\ Len(q \o s) = Len(q) + Len(s)
      /\ \A i \in 1..Len(q) : (q \o s)[i] = q[i]
      /\ \A i \in 1..Len(s) : (q \o s)[Len(q) + i] = s[i]
  BY Joined
<1> HIDE DEF last, z
<1>4. /\ z \o last \in Seq(Byte) /\ Len(z \o last) = Len(z) + Len(last)
      /\ \A i \in 1..Len(z) : (z \o last)[i] = z[i]
      /\ \A i \in 1..Len(last) : (z \o last)[Len(z) + i] = last[i]
  <2>1. z \in Seq(Byte) /\ last \in Seq(Byte)
    BY <1>1, <1>2
  <2>. QED BY <2>1, Joined
<1>5. Len(z) + Len(last) = RbSize
  BY <1>1, <1>2 DEF last
<1>6. Len(s) >= Len(last) /\ \A i \in 1..Len(last) : last[i] = s[Len(s) - Len(last) + i]
  <2>1. CASE Len(s) <= RbSize
    <3>1. last = s
      BY <2>1, NewestAll DEF last
    <3>2. \A i \in 1..Len(last) : Len(s) - Len(last) + i = i
      BY <1>1, <3>1
    <3>. QED BY <1>1, <3>1, <3>2
  <2>2. CASE Len(s) > RbSize
    <3>1. PICK d \in Nat : d = Len(s) - RbSize
      BY <1>1, <2>2
    <3>2. Len(last) = RbSize /\ \A i \in 1..RbSize : last[i] = s[d + i]
      BY <3>1, NewestSome DEF last
    <3>. QED BY <1>1, <2>2, <3>1, <3>2
  <2>. QED BY <1>1, <2>1, <2>2
<1>7. PICK d \in Nat : d = Len(q \o s) - RbSize
  <2>1. Len(q) + Len(last) - RbSize >= 0
    BY DEF last
  <2>2. Len(q \o s) - RbSize \in Nat
    BY <1>1, <1>3, <1>6, <2>1
  <2>. QED BY <2>2
<1>8. /\ Newest(q \o s) \in Seq(Byte) /\ Len(Newest(q \o s)) = RbSize
      /\ \A i \in 1..RbSize : Newest(q \o s)[i] = (q \o s)[d + i]
  BY <1>3, <1>7, NewestSome
<1>9. ASSUME NEW i \in 1..RbSize PROVE Newest(q \o s)[i] = (z \o last)[i]
  <2>1. CASE i <= Len(z)
    <3>1. i \in 1..Len(z) /\ Len(z) \in Nat
      BY <1>1, <1>2, <2>1
    <3>2. (z \o last)[i] = q[o + i]
      BY <1>2, <1>4, <3>1
    <3>3. Len(z) >= 1 /\ Len(last) < RbSize
      BY <1>1, <1>5, <3>1
    <3>4. Len(last) = Len(s)
      <4>1. Len(s) <= RbSize
        <5>1. SUFFICES ASSUME Len(s) > RbSize PROVE FALSE
          BY <1>1
        <5>2. PICK e \in Nat : e = Len(s) - RbSize
          BY <1>1, <5>1, SMTT(60)
        <5>3. Len(last) = RbSize
          BY <5>2, NewestSome DEF last
        <5>. QED BY <1>1, <3>3, <5>3
      <4>. QED BY <4>1, NewestAll DEF last
    <3>5. d + i = o + i /\ o + i \in 1..Len(q)
      BY <1>1, <1>2, <1>3, <1>7, <3>1, <3>4 DEF last
    <3>. QED BY <1>3, <1>8, <3>2, <3>5
  <2>2. CASE i > Len(z)
    <3>1. PICK j : j = i - Len(z)
      OBVIOUS
    <3>2. j \in 1..Len(last) /\ i = Len(z) + j
      BY <1>1, <1>2, <1>5, <2>2, <3>1
    <3>3. (z \o last)[i] = s[Len(s) - Len(last) + j]
      BY <1>4, <1>6, <3>2
    <3>4. d + i = Len(q) + (Len(s) - Len(last) + j) /\ Len(s) - Len(last) + j \in 1..Len(s)
      <4>1. Len(s) - Len(last) + j \in 1..Len(s)
        BY <1>1, <1>6, <3>2
      <4>2. d = Len(q) + Len(s) - RbSize /\ Len(z) = RbSize - Len(last)
        BY <1>1, <1>2, <1>3, <1>5, <1>7
      <4>. QED BY <1>1, <3>2, <4>1, <4>2
    <3>5. (q \o s)[d + i] = s[Len(s) - Len(last) + j]
      BY <1>3, <3>4
    <3>6. Newest(q \o s)[i] = (q \o s)[d + i]
      BY <1>8
    <3>. QED BY <3>3, <3>5, <3>6
  <2>3. Len(z) \in Nat /\ i \in Nat
    BY <1>1, <1>2
  <2>4. i <= Len(z) \/ i > Len(z)
    BY <2>3
  <2>. QED BY <2>1, <2>2, <2>4
<1>10. Newest(q \o s) = z \o last
  BY <1>1, <1>4, <1>5, <1>8, <1>9, SameSequence
<1>. QED BY <1>10 DEF z, last

-----------------------------------------------------------------------------
(***************************************************************************)
(* The functions of ringbuffer.c.                                          *)
(***************************************************************************)

\* rt_ringbuffer_put: what fits
LEMMA PutHolds ==
  ASSUME NEW r, NEW q, RingHolds(r, q), NEW s \in Seq(Byte)
  PROVE  RingHolds(RbPut(r, s), q \o SubSeq(s, 1, Min({Len(s), RbSize - Len(q)})))
<1>1. SpaceLen(r) = RbSize - Len(q) /\ Len(q) \in 0..RbSize /\ RbSize \in Nat /\ Len(s) \in Nat
  BY RingLength, RingSizes
<1>2. PICK m : m = Min({Len(s), RbSize - Len(q)})
  OBVIOUS
<1>3. m \in Nat /\ m <= Len(s) /\ m <= RbSize - Len(q)
  BY <1>1, <1>2, MinPair
<1>4. PICK z : z = SubSeq(s, 1, m)
  OBVIOUS
<1>5. z \in Seq(Byte) /\ Len(z) = m
  <2>1. 1 \in Nat \ {0} /\ m \in Int /\ m <= Len(s)
    BY <1>3
  <2>2. z \in Seq(Byte) /\ Len(z) = IF 1 <= m THEN m - 1 + 1 ELSE 0
    BY <1>4, <2>1, Part
  <2>. QED BY <1>3, <2>2
<1>6. Len(q) + Len(z) <= RbSize
  BY <1>1, <1>3, <1>5
<1>7. RingHolds(Written(r, z), q \o z)
  BY <1>5, <1>6, WrittenHolds
<1>. QED BY <1>1, <1>2, <1>4, <1>7 DEF RbPut

\* rt_ringbuffer_put_force: the newest bytes, or none at all
LEMMA ForceHolds ==
  ASSUME NEW r, NEW q, RingHolds(r, q), NEW s \in Seq(Byte)
  PROVE  RingHolds(RbPutForce(r, s), IF ForceEmpties(r, s) THEN <<>> ELSE Newest(q \o s))
<1>1. PICK last : last = Newest(s)
  OBVIOUS
<1>2. /\ last \in Seq(Byte) /\ Len(last) \in Nat /\ Len(last) <= RbSize
      /\ SpaceLen(r) = RbSize - Len(q) /\ Len(q) \in 0..RbSize /\ RbSize \in Nat
      /\ q \in Seq(Byte) /\ Len(s) \in Nat
  BY <1>1, NewestLength, RingLength, RingSizes, RingTypes
<1>3. CASE Len(last) <= SpaceLen(r)
  <2>1. RingHolds(Written(r, last), q \o last)
    <3>1. Len(q) + Len(last) <= RbSize
      BY <1>2, <1>3
    <3>. QED BY <1>2, <3>1, WrittenHolds
  <2>2. RbPutForce(r, s) = Written(r, last) /\ ~ForceEmpties(r, s)
    BY <1>1, <1>2, <1>3 DEF RbPutForce, ForceEmpties
  <2>3. Newest(q \o s) = q \o last
    <3>1. CASE Len(s) <= RbSize
      <4>1. last = s
        BY <1>1, <3>1, NewestAll
      <4>2. q \o s \in Seq(Byte) /\ Len(q \o s) = Len(q) + Len(s)
        BY <1>2, Joined
      <4>3. Len(q \o s) <= RbSize
        BY <1>2, <1>3, <4>1, <4>2
      <4>. QED BY <4>1, <4>2, <4>3, NewestAll
    <3>2. CASE Len(s) > RbSize
      <4>1. PICK d \in Nat : d = Len(s) - RbSize
        BY <1>2, <3>2
      <4>2. Len(Newest(s)) = RbSize
        BY <4>1, NewestSome
      <4>3. Len(q) = 0
        BY <1>1, <1>2, <1>3, <4>2
      <4>4. q = <<>>
        BY <1>2, <4>3
      <4>5. q \o s = s /\ q \o last = last
        BY <1>2, <4>4
      <4>. QED BY <1>1, <4>5
    <3>. QED BY <1>2, <3>1, <3>2
  <2>. QED BY <2>1, <2>2, <2>3
<1>4. CASE Len(last) > SpaceLen(r)
  <2>1. RbPutForce(r, s) = [Written(r, last) EXCEPT !.ri = Written(r, last).wi,
                                                    !.rm = Flipped(r.wi, @, Len(last))]
    BY <1>1, <1>2, <1>4 DEF RbPutForce
  <2>2. CASE r.rm = r.wm
    <3>1. ForceEmpties(r, s)
      BY <1>1, <1>4, <2>2 DEF ForceEmpties
    <3>2. RingHolds(RbPutForce(r, s), <<>>)
      <4>1. RingHolds([Written(r, last) EXCEPT !.ri = Written(r, last).wi,
                                               !.rm = Flipped(r.wi, @, Len(last))], <<>>)
        BY <1>2, <2>2, OverEmpties
      <4>. QED BY <2>1, <4>1
    <3>. QED BY <3>1, <3>2
  <2>3. CASE r.rm # r.wm
    <3>1. ~ForceEmpties(r, s)
      BY <2>3 DEF ForceEmpties
    <3>2. PICK o \in Nat : o = Len(q) + Len(last) - RbSize
      <4>1. Len(q) + Len(last) - RbSize \in Nat
        BY <1>2, <1>4
      <4>. QED BY <4>1
    <3>3. Len(q) + Len(last) > RbSize /\ Len(q) <= RbSize
      BY <1>2, <1>4
    <3>4. RingHolds(RbPutForce(r, s), SubSeq(q, o + 1, Len(q)) \o last)
      <4>1. RingHolds([Written(r, last) EXCEPT !.ri = Written(r, last).wi,
                                               !.rm = Flipped(r.wi, @, Len(last))],
                      SubSeq(q, o + 1, Len(q)) \o last)
        BY <1>2, <2>3, <3>2, <3>3, OverHolds
      <4>. QED BY <2>1, <4>1
    <3>5. Newest(q \o s) = SubSeq(q, o + 1, Len(q)) \o last
      BY <1>1, <1>2, <3>2, <3>3, NewestJoined
    <3>. QED BY <3>1, <3>4, <3>5
  <2>. QED BY <2>2, <2>3
<1>. QED BY <1>2, <1>3, <1>4

\* rt_ringbuffer_putchar_force
LEMMA CharForceHolds ==
  ASSUME NEW r, NEW q, RingHolds(r, q), NEW c \in Byte
  PROVE  RingHolds(RbPutcharForce(r, c), Newest(Append(q, c)))
<1>1. PICK s : s = <<c>>
  OBVIOUS
<1>2. /\ s \in Seq(Byte) /\ Len(s) = 1 /\ Len(s) <= RbSize
      /\ SpaceLen(r) = RbSize - Len(q) /\ Len(q) \in 0..RbSize /\ RbSize \in Nat \ {0}
      /\ q \in Seq(Byte)
  BY <1>1, RingLength, RingSizes, RingTypes
<1>3. q \o s \in Seq(Byte) /\ Len(q \o s) = Len(q) + 1 /\ Append(q, c) = q \o s
  BY <1>1, <1>2
<1>4. CASE SpaceLen(r) > 0
  <2>1. Len(q) + Len(s) <= RbSize
    BY <1>2, <1>4
  <2>2. RingHolds(Written(r, s), q \o s)
    BY <1>2, <2>1, WrittenHolds
  <2>3. Newest(q \o s) = q \o s
    BY <1>2, <1>3, <2>1, NewestAll
  <2>. QED BY <1>1, <1>3, <1>4, <2>2, <2>3 DEF RbPutcharForce
<1>5. CASE ~(SpaceLen(r) > 0)
  <2>1. Len(q) = RbSize
    BY <1>2, <1>5
  <2>2. r.rm # r.wm
    BY <1>2, <2>1 DEF RingHolds, Lap
  <2>3. PICK o \in Nat : o = 1
    OBVIOUS
  <2>4. Len(q) + Len(s) > RbSize /\ o = Len(q) + Len(s) - RbSize /\ Len(q) <= RbSize
    BY <1>2, <2>1, <2>3
  <2>5. RingHolds([Written(r, s) EXCEPT !.ri = Written(r, s).wi,
                                        !.rm = Flipped(r.wi, @, Len(s))],
                  SubSeq(q, o + 1, Len(q)) \o s)
    BY <1>2, <2>2, <2>4, OverHolds
  <2>6. Newest(q \o s) = SubSeq(q, o + 1, Len(q)) \o s
    <3>1. Newest(s) = s
      BY <1>2, NewestAll
    <3>2. Len(q) <= RbSize /\ o = Len(q) + Len(Newest(s)) - RbSize
      BY <2>4, <3>1
    <3>3. Newest(q \o s) = SubSeq(q, o + 1, Len(q)) \o Newest(s)
      BY <1>2, <3>2, NewestJoined
    <3>. QED BY <3>1, <3>3
  <2>7. RbPutcharForce(r, c) = [Written(r, s) EXCEPT !.ri = Written(r, s).wi,
                                                     !.rm = Flipped(r.wi, @, Len(s))]
    BY <1>1, <1>2, <1>5 DEF RbPutcharForce
  <2>. QED BY <1>3, <2>5, <2>6, <2>7
<1>. QED BY <1>4, <1>5

\* rt_ringbuffer_get of at most n bytes
LEMMA GetSomeHolds ==
  ASSUME NEW r, NEW q, RingHolds(r, q), NEW n \in Nat
  PROVE  RingHolds(RbGet(r, Min({n, DataLen(r)})), SubSeq(q, n + 1, Len(q)))
<1>1. DataLen(r) = Len(q) /\ Len(q) \in Nat /\ q \in Seq(Byte)
  BY RingLength, RingTypes
<1>2. CASE n <= Len(q)
  <2>1. Min({n, DataLen(r)}) = n
    BY <1>1, <1>2, MinPair
  <2>2. n \in 0..Len(q)
    BY <1>1, <1>2
  <2>. QED BY <2>1, <2>2, GetHolds
<1>3. CASE n > Len(q)
  <2>1. Min({n, DataLen(r)}) = Len(q)
    BY <1>1, <1>3, MinPair
  <2>2. Len(q) \in 0..Len(q)
    BY <1>1
  <2>3. RingHolds(RbGet(r, Len(q)), SubSeq(q, Len(q) + 1, Len(q)))
    BY <2>2, GetHolds
  <2>4. SubSeq(q, Len(q) + 1, Len(q)) = SubSeq(q, n + 1, Len(q))
    <3>1. SubSeq(q, Len(q) + 1, Len(q)) \in Seq(Byte) /\ Len(SubSeq(q, Len(q) + 1, Len(q))) = 0
      <4>1. Len(q) + 1 \in Nat \ {0} /\ Len(q) \in Int
        BY <1>1
      <4>2. /\ SubSeq(q, Len(q) + 1, Len(q)) \in Seq(Byte)
            /\ Len(SubSeq(q, Len(q) + 1, Len(q)))
                 = IF Len(q) + 1 <= Len(q) THEN Len(q) - (Len(q) + 1) + 1 ELSE 0
        BY <1>1, <4>1, Part
      <4>. QED BY <1>1, <4>2
    <3>2. SubSeq(q, n + 1, Len(q)) \in Seq(Byte) /\ Len(SubSeq(q, n + 1, Len(q))) = 0
      <4>1. n + 1 \in Nat \ {0} /\ Len(q) \in Int
        BY <1>1
      <4>2. /\ SubSeq(q, n + 1, Len(q)) \in Seq(Byte)
            /\ Len(SubSeq(q, n + 1, Len(q)))
                 = IF n + 1 <= Len(q) THEN Len(q) - (n + 1) + 1 ELSE 0
        BY <1>1, <4>1, Part
      <4>. QED BY <1>1, <1>3, <4>2
    <3>. QED BY <3>1, <3>2
  <2>. QED BY <2>1, <2>3, <2>4
<1>. QED BY <1>1, <1>2, <1>3

\* rt_ringbuffer_reset, and a ring just made
LEMMA ResetHolds ==
  ASSUME NEW r \in RingState
  PROVE  RingHolds([r EXCEPT !.ri = 0, !.rm = 0, !.wi = 0, !.wm = 0], <<>>)
<1>1. PICK e : e = [r EXCEPT !.ri = 0, !.rm = 0, !.wi = 0, !.wm = 0]
  OBVIOUS
<1>2. e \in RingState /\ e.ri = 0 /\ e.rm = 0 /\ e.wi = 0 /\ e.wm = 0
  <2>1. 0 \in 0..(RbSize - 1) /\ 0 \in {0, 1}
    BY RingSizes
  <2>. QED BY <1>1, <2>1 DEF RingState
<1>3. <<>> \in Seq(Byte) /\ Len(<<>>) = 0
  OBVIOUS
<1>4. Lap(RbSize, 0, 0, 0, 0, 0)
  BY RingSizes DEF Lap
<1>5. RingHolds(e, <<>>)
  BY <1>2, <1>3, <1>4 DEF RingHolds
<1>. QED BY <1>1, <1>5

LEMMA EmptyHolds == RingHolds(EmptyRing, <<>>)
<1>1. EmptyRing \in RingState
  BY RingSizes DEF EmptyRing, RingState
<1>2. EmptyRing.ri = 0 /\ EmptyRing.rm = 0 /\ EmptyRing.wi = 0 /\ EmptyRing.wm = 0
  BY DEF EmptyRing
<1>3. <<>> \in Seq(Byte) /\ Len(<<>>) = 0
  OBVIOUS
<1>4. Lap(RbSize, 0, 0, 0, 0, 0)
  BY RingSizes DEF Lap
<1>. QED BY <1>1, <1>2, <1>3, <1>4 DEF RingHolds

\* What a ring owes after a put, a forced put and a get
LEMMA KeptIs ==
  ASSUME NEW b \in Seq(Byte), NEW e \in BOOLEAN
  PROVE  [bytes |-> b, emptied |-> e] \in KeptState
BY DEF KeptState

LEMMA KeptBytes ==
  ASSUME NEW q \in KeptState, NEW b
  PROVE  [q EXCEPT !.bytes = b] = [bytes |-> b, emptied |-> q.emptied]
<1>1. PICK a \in Seq(Byte), f \in BOOLEAN : q = [bytes |-> a, emptied |-> f]
  BY DEF KeptState
<1>. QED BY <1>1

LEMMA KeptPuts ==
  ASSUME NEW q \in KeptState, NEW s \in Seq(Byte)
  PROVE  /\ KeptPut(q, s) \in KeptState
         /\ KeptPut(q, s).bytes = q.bytes \o SubSeq(s, 1, Min({Len(s), RbSize - Len(q.bytes)}))
         /\ KeptPut(q, s).emptied = q.emptied
<1>1. q.bytes \in Seq(Byte) /\ q.emptied \in BOOLEAN
  BY DEF KeptState
<1>2. PICK m : m = Min({Len(s), RbSize - Len(q.bytes)})
  OBVIOUS
<1>3. m \in Int /\ m <= Len(s) /\ Len(s) \in Int
  <2>1. Len(s) \in Int /\ RbSize - Len(q.bytes) \in Int
    BY <1>1, RingSizes
  <2>. QED BY <1>2, <2>1, MinPair
<1>4. SubSeq(s, 1, m) \in Seq(Byte)
  BY <1>3, Part
<1>5. PICK b : b = q.bytes \o SubSeq(s, 1, m)
  OBVIOUS
<1>6. b \in Seq(Byte)
  BY <1>1, <1>4, <1>5
<1>7. KeptPut(q, s) = [q EXCEPT !.bytes = b]
  BY <1>2, <1>5 DEF KeptPut
<1>8. KeptPut(q, s) = [bytes |-> b, emptied |-> q.emptied] /\ KeptPut(q, s) \in KeptState
  BY <1>1, <1>6, <1>7, KeptBytes, KeptIs
<1>9. KeptPut(q, s).bytes = b /\ KeptPut(q, s).emptied = q.emptied
  BY <1>8
<1>10. b = q.bytes \o SubSeq(s, 1, Min({Len(s), RbSize - Len(q.bytes)}))
  BY <1>2, <1>5, Zenon
<1>. QED BY <1>8, <1>9, <1>10, Zenon

LEMMA KeptForces ==
  ASSUME NEW q \in KeptState, NEW s \in Seq(Byte)
  PROVE  /\ KeptForced(q, s) \in KeptState
         /\ KeptForced(q, s).bytes = Newest(q.bytes \o s)
         /\ KeptForced(q, s).emptied = (q.emptied \/ ForceEmpties(ring, s))
<1>1. q.bytes \in Seq(Byte) /\ q.emptied \in BOOLEAN
  BY DEF KeptState
<1>2. PICK b : b = Newest(q.bytes \o s)
  OBVIOUS
<1>3. PICK e \in BOOLEAN : e = (q.emptied \/ ForceEmpties(ring, s))
  OBVIOUS
<1>4. q.bytes \o s \in Seq(Byte)
  BY <1>1
<1>5. b \in Seq(Byte)
  BY <1>2, <1>4, NewestLength
<1>6. KeptForced(q, s) = [bytes |-> b, emptied |-> e]
  BY <1>2, <1>3 DEF KeptForced
<1>7. KeptForced(q, s) = [bytes |-> b, emptied |-> e] /\ KeptForced(q, s) \in KeptState
  BY <1>5, <1>6, KeptIs
<1>. QED BY <1>2, <1>3, <1>7

LEMMA KeptChars ==
  ASSUME NEW q \in KeptState, NEW c \in Byte
  PROVE  /\ [q EXCEPT !.bytes = Newest(Append(@, c))] \in KeptState
         /\ [q EXCEPT !.bytes = Newest(Append(@, c))].bytes = Newest(Append(q.bytes, c))
         /\ [q EXCEPT !.bytes = Newest(Append(@, c))].emptied = q.emptied
<1>1. q.bytes \in Seq(Byte) /\ q.emptied \in BOOLEAN
  BY DEF KeptState
<1>2. PICK b : b = Newest(Append(q.bytes, c))
  OBVIOUS
<1>3. Append(q.bytes, c) \in Seq(Byte)
  BY <1>1
<1>4. b \in Seq(Byte)
  BY <1>2, <1>3, NewestLength
<1>5. [q EXCEPT !.bytes = Newest(Append(@, c))] = [bytes |-> b, emptied |-> q.emptied]
  BY <1>2, KeptBytes
<1>6. [bytes |-> b, emptied |-> q.emptied] \in KeptState
  BY <1>1, <1>4, KeptIs
<1>. QED BY <1>2, <1>5, <1>6

LEMMA KeptGets ==
  ASSUME NEW q \in KeptState, NEW n \in Nat
  PROVE  /\ KeptGot(q, n) \in KeptState
         /\ KeptGot(q, n).bytes = SubSeq(q.bytes, n + 1, Len(q.bytes))
         /\ KeptGot(q, n).emptied = q.emptied
<1>1. q.bytes \in Seq(Byte) /\ q.emptied \in BOOLEAN
  BY DEF KeptState
<1>2. PICK b : b = SubSeq(q.bytes, n + 1, Len(q.bytes))
  OBVIOUS
<1>3. n + 1 \in Nat \ {0} /\ Len(q.bytes) \in Int
  BY <1>1
<1>4. b \in Seq(Byte)
  BY <1>1, <1>2, <1>3, Part
<1>5. KeptGot(q, n) = [q EXCEPT !.bytes = b]
  BY <1>2 DEF KeptGot
<1>6. KeptGot(q, n) = [bytes |-> b, emptied |-> q.emptied] /\ KeptGot(q, n) \in KeptState
  BY <1>1, <1>4, <1>5, KeptBytes, KeptIs
<1>. QED BY <1>2, <1>6

LEMMA NothingSound ==
  ASSUME NEW r, RingHolds(r, <<>>)
  PROVE  RingSound(r, NothingKept)
BY DEF RingSound, KeptState, NothingKept

\* Every use of a ring buffer by the handlers
LEMMA RbNextHolds ==
  ASSUME RingSound(ring, kept), RbNext
  PROVE  RingSound(ring', kept')
<1> PICK h : RingHolds(ring, h) /\ (~kept.emptied => h = kept.bytes)
  BY DEF RingSound
<1> kept \in KeptState
  BY DEF RingSound
<1>1. ASSUME NEW n \in Burst, RbDoGet(n) PROVE RingSound(ring', kept')
  <2>1. n \in Nat
    BY RingSizes
  <2>2. RingHolds(RbGet(ring, Min({n, DataLen(ring)})), SubSeq(h, n + 1, Len(h)))
    BY <2>1, GetSomeHolds
  <2>3. /\ ring' = RbGet(ring, Min({n, DataLen(ring)})) /\ kept' = KeptGot(kept, n)
        /\ kept' \in KeptState
    BY <1>1, <2>1, KeptGets DEF RbDoGet
  <2>4. kept'.bytes = SubSeq(kept.bytes, n + 1, Len(kept.bytes)) /\ kept'.emptied = kept.emptied
    BY <2>1, <2>3, KeptGets
  <2>. QED BY <2>2, <2>3, <2>4 DEF RingSound
<1>2. ASSUME NEW n \in Burst, NEW s \in [1..n -> Byte] PROVE s \in Seq(Byte)
  BY RingSizes
<1>3. ASSUME NEW n \in Burst, NEW s \in [1..n -> Byte], RbDoPut(s) PROVE RingSound(ring', kept')
  <2>1. s \in Seq(Byte)
    BY <1>2
  <2>2. RingHolds(RbPut(ring, s), h \o SubSeq(s, 1, Min({Len(s), RbSize - Len(h)})))
    BY <2>1, PutHolds
  <2>3. ring' = RbPut(ring, s) /\ kept' = KeptPut(kept, s) /\ kept' \in KeptState
    BY <1>3, <2>1, KeptPuts DEF RbDoPut
  <2>4. /\ kept'.bytes = kept.bytes \o SubSeq(s, 1, Min({Len(s), RbSize - Len(kept.bytes)}))
        /\ kept'.emptied = kept.emptied
    BY <2>1, <2>3, KeptPuts
  <2>. QED BY <2>2, <2>3, <2>4 DEF RingSound
<1>4. ASSUME NEW n \in Burst, NEW s \in [1..n -> Byte], RbDoForce(s)
      PROVE  RingSound(ring', kept')
  <2>1. s \in Seq(Byte)
    BY <1>2
  <2>2. RingHolds(RbPutForce(ring, s), IF ForceEmpties(ring, s) THEN <<>> ELSE Newest(h \o s))
    BY <2>1, ForceHolds
  <2>3. ring' = RbPutForce(ring, s) /\ kept' = KeptForced(kept, s) /\ kept' \in KeptState
    BY <1>4, <2>1, KeptForces DEF RbDoForce
  <2>4. /\ kept'.emptied = (kept.emptied \/ ForceEmpties(ring, s))
        /\ kept'.bytes = Newest(kept.bytes \o s)
    BY <2>1, <2>3, KeptForces
  <2>. QED BY <2>2, <2>3, <2>4 DEF RingSound
<1>5. ASSUME NEW c \in Byte, RbDoCharForce(c) PROVE RingSound(ring', kept')
  <2>1. RingHolds(RbPutcharForce(ring, c), Newest(Append(h, c)))
    BY CharForceHolds
  <2>2. /\ ring' = RbPutcharForce(ring, c) /\ kept' = [kept EXCEPT !.bytes = Newest(Append(@, c))]
        /\ kept' \in KeptState
    BY <1>5, KeptChars DEF RbDoCharForce
  <2>3. kept'.bytes = Newest(Append(kept.bytes, c)) /\ kept'.emptied = kept.emptied
    BY <2>2, KeptChars
  <2>. QED BY <2>1, <2>2, <2>3 DEF RingSound
<1>6. ASSUME RbReset PROVE RingSound(ring', kept')
  <2>1. ring \in RingState
    BY DEF RingHolds
  <2>. QED BY <1>6, <2>1, ResetHolds, NothingSound DEF RbReset
<1>. QED BY <1>1, <1>3, <1>4, <1>5, <1>6 DEF RbNext

-----------------------------------------------------------------------------
(***************************************************************************)
(* The FIFO of serial.c.  Its bytes are the last of those received: x are  *)
(* the bytes received, l of them so far.                                   *)
(***************************************************************************)

SrState ==
  [buf : [0..(SrSize - 1) -> SrByte \cup {None}], put : 0..(SrSize - 1),
   get : 0..(SrSize - 1), full : BOOLEAN, busy : BOOLEAN]

Shows(r, x, l) ==
  LET d == Off(SrSize, r.put, r.get)
  IN  /\ r \in SrState
      /\ d <= l /\ (d = l \/ d = SrSize - 1)
      /\ r.full => d > 0
      /\ \A i \in 1..d : r.buf[Nth(SrSize, r.get, i)] = x[l - d + i]

FifoHolds(r, u) ==
  /\ u \in Seq(SrByte) /\ Len(u) = Off(SrSize, r.put, r.get)
  /\ Shows(r, u, Len(u))

\* NextIndex, of a FIFO of size n
After(n, i) == IF i + 1 >= n THEN 0 ELSE i + 1

LEMMA OffRange ==
  ASSUME NEW n \in Nat, NEW p \in Nat, p < n, NEW g \in Nat, g < n
  PROVE  Off(n, p, g) \in Nat /\ Off(n, p, g) < n
BY DEF Off

LEMMA AfterRange ==
  ASSUME NEW n \in Nat, n > 1, NEW i \in Nat, i < n
  PROVE  After(n, i) \in Nat /\ After(n, i) < n
BY DEF After

LEMMA NthOld ==
  ASSUME NEW n \in Nat, n > 1, NEW p \in Nat, p < n, NEW g \in Nat, g < n,
         NEW i \in 1..(n - 1), i <= Off(n, p, g)
  PROVE  Nth(n, g, i) \in Nat /\ Nth(n, g, i) < n /\ Nth(n, g, i) # p
BY DEF Off, Nth

LEMMA NthNew ==
  ASSUME NEW n \in Nat, n > 1, NEW p \in Nat, p < n, NEW g \in Nat, g < n,
         NEW i \in Nat, i = Off(n, p, g) + 1
  PROVE  Nth(n, g, i) \in Nat /\ Nth(n, g, i) <= p /\ Nth(n, g, i) >= p
<1>1. CASE p >= g
  BY <1>1 DEF Off, Nth
<1>2. CASE p < g
  BY <1>2 DEF Off, Nth
<1>. QED BY <1>1, <1>2

LEMMA NthAfter ==
  ASSUME NEW n \in Nat, n > 1, NEW g \in Nat, g < n, NEW i \in 1..(n - 1),
         NEW j \in Nat, j = i + 1
  PROVE  /\ Nth(n, After(n, g), i) \in Nat /\ Nth(n, g, j) \in Nat
         /\ Nth(n, After(n, g), i) <= Nth(n, g, j) /\ Nth(n, After(n, g), i) >= Nth(n, g, j)
BY DEF Nth, After

LEMMA OffAfter ==
  ASSUME NEW n \in Nat, n > 1, NEW p \in Nat, p < n, NEW g \in Nat, g < n
  PROVE  /\ After(n, p) # g =>
              /\ Off(n, After(n, p), g) <= Off(n, p, g) + 1
              /\ Off(n, After(n, p), g) >= Off(n, p, g) + 1
         /\ After(n, p) = g =>
              /\ Off(n, p, g) <= n - 1 /\ Off(n, p, g) >= n - 1
              /\ Off(n, After(n, p), After(n, g)) <= n - 1
              /\ Off(n, After(n, p), After(n, g)) >= n - 1
         /\ p # g =>
              /\ Off(n, p, g) > 0
              /\ Off(n, p, After(n, g)) <= Off(n, p, g) - 1
              /\ Off(n, p, After(n, g)) >= Off(n, p, g) - 1
         /\ p = g => Off(n, p, g) <= 0
<1>1. CASE p >= g
  BY <1>1 DEF Off, After
<1>2. CASE p < g
  BY <1>2 DEF Off, After
<1>. QED BY <1>1, <1>2

LEMMA SrSizes == SrSize \in Nat /\ SrSize > 1 /\ None \notin SrByte
BY SerialAssumption

\* rt_hw_serial_isr on one byte
LEMMA StoredShows ==
  ASSUME NEW r, NEW x, NEW l \in Nat, Shows(r, x, l), NEW c \in SrByte, NEW m \in Nat, m = l + 1,
         c = x[m]
  PROVE  Shows(SrStored(r, c), x, m)
<1> DEFINE n == SrSize
           z == SrStored(r, c)
           d == Off(n, r.put, r.get)
<1>1. /\ r \in SrState /\ n \in Nat /\ n > 1
      /\ r.put \in Nat /\ r.put < n /\ r.get \in Nat /\ r.get < n
      /\ d \in Nat /\ d < n /\ d <= l /\ (d = l \/ d = n - 1)
      /\ \A i \in 1..d : r.buf[Nth(n, r.get, i)] = x[l - d + i]
  <2>1. r \in SrState /\ n \in Nat /\ n > 1
    BY SrSizes DEF Shows
  <2>2. r.put \in Nat /\ r.put < n /\ r.get \in Nat /\ r.get < n
    BY <2>1 DEF SrState
  <2>3. d \in Nat /\ d < n
    BY <2>1, <2>2, OffRange
  <2>. QED BY <2>1, <2>2, <2>3 DEF Shows
<1>2. PICK p : p = After(n, r.put)
  OBVIOUS
<1>3. PICK g : g = IF p = r.get THEN After(n, r.get) ELSE r.get
  OBVIOUS
<1>4. p \in Nat /\ p < n /\ g \in Nat /\ g < n
  BY <1>1, <1>2, <1>3, AfterRange
<1>5. PICK b : b = [r.buf EXCEPT ![r.put] = c]
  OBVIOUS
<1>6. z = [r EXCEPT !.buf = b, !.put = p, !.full = r.full \/ p = r.get, !.get = g]
  <2>1. NextIndex(r.put) = p /\ NextIndex(r.get) = After(n, r.get)
    BY <1>2 DEF NextIndex, After
  <2>2. r.buf \in [0..(n - 1) -> SrByte \cup {None}]
    BY <1>1 DEF SrState
  <2>3. z = [r EXCEPT !.buf[r.put] = c, !.put = p, !.full = @ \/ p = r.get,
                      !.get = IF p = @ THEN After(n, @) ELSE @]
    BY <2>1 DEF SrStored
  <2>4. [r EXCEPT !.buf[r.put] = c, !.put = p, !.full = @ \/ p = r.get,
                  !.get = IF p = @ THEN After(n, @) ELSE @]
          = [r EXCEPT !.buf = b, !.put = p, !.full = r.full \/ p = r.get, !.get = g]
    BY <1>1, <1>3, <1>5 DEF SrState
  <2>. QED BY <2>3, <2>4
<1> HIDE DEF z, n
<1>7. b \in [0..(n - 1) -> SrByte \cup {None}]
  <2>1. r.buf \in [0..(n - 1) -> SrByte \cup {None}]
    BY <1>1 DEF SrState, n
  <2>. QED BY <1>5, <2>1
<1>8. /\ z \in SrState /\ z.buf = b /\ z.put = p /\ z.get = g
  <2>1. p \in 0..(n - 1) /\ g \in 0..(n - 1) /\ (r.full \/ p = r.get) \in BOOLEAN
    BY <1>1, <1>4
  <2>. QED BY <1>1, <1>6, <1>7, <2>1 DEF SrState, n
<1>9. \A i \in 1..d : b[Nth(n, r.get, i)] = x[l - d + i]
  <2>1. SUFFICES ASSUME NEW i \in 1..d PROVE b[Nth(n, r.get, i)] = x[l - d + i]
    OBVIOUS
  <2>2. i \in 1..(n - 1) /\ i <= Off(n, r.put, r.get)
    BY <1>1
  <2>3. PICK y : y = Nth(n, r.get, i)
    OBVIOUS
  <2>4. y \in Nat /\ y < n /\ y # r.put
    BY <1>1, <2>2, <2>3, NthOld
  <2>5. b[y] = r.buf[y]
    BY <1>1, <1>5, <2>4 DEF SrState
  <2>. QED BY <1>1, <2>3, <2>5
<1>10. PICK e : e = d + 1
  OBVIOUS
<1>11. e \in Nat /\ b[Nth(n, r.get, e)] = x[m]
  <2>1. e \in Nat /\ e = Off(n, r.put, r.get) + 1
    BY <1>1, <1>10
  <2>2. Nth(n, r.get, e) \in Nat /\ Nth(n, r.get, e) <= r.put /\ Nth(n, r.get, e) >= r.put
    BY <1>1, <2>1, NthNew
  <2>3. Nth(n, r.get, e) = r.put
    BY <1>1, <2>2
  <2>4. r.put \in DOMAIN r.buf
    BY <1>1 DEF SrState, n
  <2>. QED BY <1>5, <2>1, <2>3, <2>4
<1>12. PICK f : f = Off(n, p, g)
  OBVIOUS
<1>13. ASSUME p # r.get PROVE Shows(z, x, m)
  <2>1. g = r.get /\ f \in Nat /\ f = d + 1 /\ f < n
    <3>1. After(n, r.put) # r.get =>
            /\ Off(n, After(n, r.put), r.get) <= Off(n, r.put, r.get) + 1
            /\ Off(n, After(n, r.put), r.get) >= Off(n, r.put, r.get) + 1
      BY <1>1, OffAfter
    <3>2. f \in Nat /\ f < n
      BY <1>1, <1>4, <1>12, OffRange
    <3>. QED BY <1>1, <1>2, <1>3, <1>12, <1>13, <3>1, <3>2
  <2>2. ASSUME NEW i \in 1..f PROVE b[Nth(n, g, i)] = x[m - f + i]
    <3>1. CASE i <= d
      <4>1. i \in 1..d /\ m - f + i = l - d + i
        BY <1>1, <2>1, <3>1
      <4>. QED BY <1>9, <2>1, <4>1
    <3>2. CASE i > d
      <4>1. i = e /\ m - f + i = m
        BY <1>1, <1>10, <2>1, <3>2
      <4>. QED BY <1>11, <2>1, <4>1
    <3>. QED BY <1>1, <3>1, <3>2
  <2>3. f <= m /\ (f = m \/ f = n - 1) /\ f > 0
    BY <1>1, <2>1
  <2>. QED BY <1>8, <1>12, <2>2, <2>3 DEF Shows, n
<1>14. ASSUME p = r.get PROVE Shows(z, x, m)
  <2>1. g = After(n, r.get) /\ f \in Nat /\ f = n - 1 /\ d = n - 1
    <3>1. After(n, r.put) = r.get =>
            /\ Off(n, r.put, r.get) <= n - 1 /\ Off(n, r.put, r.get) >= n - 1
            /\ Off(n, After(n, r.put), After(n, r.get)) <= n - 1
            /\ Off(n, After(n, r.put), After(n, r.get)) >= n - 1
      BY <1>1, OffAfter
    <3>2. f \in Nat
      BY <1>1, <1>4, <1>12, OffRange
    <3>3. g = After(n, r.get)
      BY <1>3, <1>14
    <3>. QED BY <1>1, <1>2, <1>12, <1>14, <3>1, <3>2, <3>3
  <2>2. ASSUME NEW i \in 1..f PROVE b[Nth(n, g, i)] = x[m - f + i]
    <3>1. PICK j : j = i + 1
      OBVIOUS
    <3>2. j \in Nat /\ i \in 1..(n - 1)
      BY <1>1, <2>1, <3>1
    <3>3. Nth(n, g, i) = Nth(n, r.get, j)
      <4>1. /\ Nth(n, After(n, r.get), i) \in Nat /\ Nth(n, r.get, j) \in Nat
            /\ Nth(n, After(n, r.get), i) <= Nth(n, r.get, j)
            /\ Nth(n, After(n, r.get), i) >= Nth(n, r.get, j)
        BY <1>1, <3>1, <3>2, NthAfter
      <4>. QED BY <2>1, <4>1
    <3>4. CASE j <= d
      <4>1. j \in 1..d /\ m - f + i = l - d + j
        BY <1>1, <2>1, <3>1, <3>4
      <4>. QED BY <1>9, <3>3, <4>1
    <3>5. CASE j > d
      <4>1. j = e /\ m - f + i = m
        BY <1>1, <1>10, <2>1, <3>1, <3>5
      <4>. QED BY <1>11, <3>3, <4>1
    <3>. QED BY <1>1, <3>2, <3>4, <3>5
  <2>3. f <= m /\ f > 0
    BY <1>1, <2>1
  <2>. QED BY <1>8, <1>12, <2>1, <2>2, <2>3 DEF Shows, n
<1>15. Shows(z, x, m)
  BY <1>13, <1>14
<1>. QED BY <1>15 DEF z

\* Of the bytes received the FIFO has the last
LEMMA LastHolds ==
  ASSUME NEW r, NEW x \in Seq(SrByte), Shows(r, x, Len(x))
  PROVE  FifoHolds(r, SrLast(x))
<1> DEFINE d == Off(SrSize, r.put, r.get)
<1>1. /\ SrSize \in Nat /\ SrSize > 1 /\ Len(x) \in Nat /\ r \in SrState
      /\ d \in Nat /\ d < SrSize /\ d <= Len(x) /\ (d = Len(x) \/ d = SrSize - 1)
      /\ \A i \in 1..d : r.buf[Nth(SrSize, r.get, i)] = x[Len(x) - d + i]
      /\ r.full => d > 0
  <2>1. r \in SrState /\ SrSize \in Nat /\ SrSize > 1
    BY SrSizes DEF Shows
  <2>2. r.put \in Nat /\ r.put < SrSize /\ r.get \in Nat /\ r.get < SrSize
    BY <2>1 DEF SrState
  <2>3. d \in Nat /\ d < SrSize
    BY <2>1, <2>2, OffRange
  <2>. QED BY <2>1, <2>2, <2>3 DEF Shows
<1> HIDE DEF d
<1>2. PICK m : m = Len(x) - d + 1
  OBVIOUS
<1>3. m \in Nat \ {0} /\ Max({1, Len(x) - SrSize + 2}) = m
  <2>1. m \in Nat \ {0}
    BY <1>1, <1>2
  <2>2. Len(x) - SrSize + 2 \in Int
    BY <1>1
  <2>3. Max({1, Len(x) - SrSize + 2})
          = IF 1 <= Len(x) - SrSize + 2 THEN Len(x) - SrSize + 2 ELSE 1
    BY <2>2, MaxPair
  <2>. QED BY <1>1, <1>2, <2>1, <2>3
<1>4. PICK u : u = SubSeq(x, m, Len(x))
  OBVIOUS
<1>5. /\ u \in Seq(SrByte) /\ Len(u) = IF m <= Len(x) THEN Len(x) - m + 1 ELSE 0
      /\ \A i \in 1..Len(u) : u[i] = x[m + i - 1]
  BY <1>1, <1>3, <1>4, Part
<1>6. Len(u) = d
  BY <1>1, <1>2, <1>5
<1>7. ASSUME NEW i \in 1..d PROVE r.buf[Nth(SrSize, r.get, i)] = u[Len(u) - d + i]
  <2>1. Len(u) - d + i = i /\ i \in 1..Len(u)
    BY <1>1, <1>6
  <2>2. m + i - 1 = Len(x) - d + i
    BY <1>1, <1>2
  <2>. QED BY <1>1, <1>5, <2>1, <2>2
<1>8. Shows(r, u, Len(u))
  BY <1>1, <1>6, <1>7 DEF Shows, d
<1>9. FifoHolds(r, u)
  BY <1>5, <1>6, <1>8 DEF FifoHolds, d
<1>. QED BY <1>3, <1>4, <1>9 DEF SrLast

\* ... and before s is received, of the bytes received with s
LEMMA BeforeShows ==
  ASSUME NEW r, NEW u, FifoHolds(r, u), NEW s \in Seq(SrByte)
  PROVE  Shows(r, u \o s, Len(u))
<1> DEFINE d == Off(SrSize, r.put, r.get)
<1>1. u \in Seq(SrByte) /\ Len(u) \in Nat /\ Len(u) = d /\ Shows(r, u, Len(u))
  BY DEF FifoHolds
<1>2. \A i \in 1..Len(u) : (u \o s)[i] = u[i]
  BY <1>1, Joined
<1>3. \A i \in 1..d : Len(u) - d + i = i
  BY <1>1
<1>4. \A i \in 1..d : r.buf[Nth(SrSize, r.get, i)] = (u \o s)[Len(u) - d + i]
  BY <1>1, <1>2, <1>3 DEF Shows
<1>. QED BY <1>1, <1>4 DEF Shows

LEMMA LastOf ==
  ASSUME NEW n \in Nat, NEW m \in 1..n
  PROVE  1..m \in SUBSET (1..n) /\ 1..m # {} /\ (1..m) \ {m} = 1..(m - 1) /\ Max(1..m) = m
<1>1. 1..m \in SUBSET (1..n) /\ 1..m # {} /\ (1..m) \ {m} = 1..(m - 1) /\ m \in 1..m
  OBVIOUS
<1>2. Max(1..m) \in 1..m /\ \A y \in 1..m : Max(1..m) >= y
  BY <1>1, MaxIndex
<1>3. Max(1..m) = m
  BY <1>1, <1>2
<1>. QED BY <1>1, <1>3

\* rt_hw_serial_isr
LEMMA ReceivedHolds ==
  ASSUME NEW r, NEW u, FifoHolds(r, u), NEW s \in Seq(SrByte)
  PROVE  FifoHolds(FoldLeft(SrStored, r, s), SrLast(u \o s))
<1> DEFINE n == Len(s)
           x == u \o s
           Y == SrState
           F == [i \in 1..n |-> [e \in Y |-> SrStored(e, s[i])]]
           Run(h) == h = [a \in SUBSET (DOMAIN s) |->
                            IF a = {} THEN r
                            ELSE SrStored(h[a \ {Max(a)}], s[Max(a)])]
           h == CHOOSE h : Run(h)
<1>1. n \in Nat /\ DOMAIN s = 1..n /\ \A i \in 1..n : s[i] \in SrByte
  BY LenProperties, ElementOfSeq
<1>2. FoldLeft(SrStored, r, s) = h[DOMAIN s]
  BY DEF FoldLeft, MapThenFoldSet
<1> HIDE DEF n
<1>3. r \in Y
  BY DEF FifoHolds, Shows
<1>4. ASSUME NEW e \in Y, NEW c \in SrByte PROVE SrStored(e, c) \in Y
  <2>1. \A i \in 0..(SrSize - 1) : NextIndex(i) \in 0..(SrSize - 1)
    BY SrSizes DEF NextIndex
  <2>2. e.put \in 0..(SrSize - 1) /\ e.get \in 0..(SrSize - 1)
    BY DEF SrState
  <2>3. PICK b : b = [e.buf EXCEPT ![e.put] = c]
    OBVIOUS
  <2>4. b \in [0..(SrSize - 1) -> SrByte \cup {None}]
    BY <2>3 DEF SrState
  <2>5. PICK p \in 0..(SrSize - 1) : p = NextIndex(e.put)
    BY <2>1, <2>2
  <2>6. PICK g \in 0..(SrSize - 1) : g = IF p = e.get THEN NextIndex(e.get) ELSE e.get
    BY <2>1, <2>2
  <2>7. SrStored(e, c) = [e EXCEPT !.buf = b, !.put = p, !.full = e.full \/ p = e.get, !.get = g]
    BY <2>3, <2>5, <2>6 DEF SrStored, SrState
  <2>8. (e.full \/ p = e.get) \in BOOLEAN
    BY DEF SrState
  <2>. QED BY <2>4, <2>7, <2>8 DEF SrState
<1> HIDE DEF Y
<1>5. F \in [1..n -> [Y -> Y]]
  BY <1>1, <1>4
<1>6. PICK g \in [SUBSET (1..n) -> Y] : Follows(g, F, r, n)
  <2> HIDE DEF F, h, Run
  <2>1. n \in Nat
    BY <1>1
  <2>. QED BY <2>1, <1>3, <1>5, FoldExists
<1>7. ASSUME NEW a \in SUBSET (1..n), a # {}
      PROVE  Max(a) \in 1..n /\ a \ {Max(a)} \in SUBSET (1..n)
  BY <1>1, <1>7, MaxIndex
<1>8. ASSUME NEW a \in SUBSET (1..n)
      PROVE  g[a] = IF a = {} THEN r ELSE SrStored(g[a \ {Max(a)}], s[Max(a)])
  <2>1. CASE a = {}
    BY <1>6, <2>1 DEF Follows
  <2>2. CASE a # {}
    <3>1. g[a] = F[Max(a)][g[a \ {Max(a)}]]
      <4> HIDE DEF F
      <4>. QED BY <2>2, <1>6 DEF Follows
    <3>2. Max(a) \in 1..n /\ g[a \ {Max(a)}] \in Y
      BY <2>2, <1>6, <1>7
    <3>. QED BY <2>2, <3>1, <3>2
  <2>. QED BY <2>1, <2>2
<1>9. Run(g)
  BY <1>1, <1>6, <1>8
<1>10. Run(h)
  <2> HIDE DEF Run
  <2>. QED BY <1>9
<1> HIDE DEF h
<1>11. /\ u \in Seq(SrByte) /\ Len(u) \in Nat /\ x \in Seq(SrByte) /\ Len(x) = Len(u) + n
       /\ \A i \in 1..n : x[Len(u) + i] = s[i]
  <2>1. u \in Seq(SrByte)
    BY DEF FifoHolds
  <2>. QED BY <2>1, Joined DEF n
<1>12. Shows(r, x, Len(u))
  BY BeforeShows
<1> HIDE DEF x
<1> DEFINE B == {i \in 0..n : Shows(h[1..i], x, Len(u) + i)}
<1>13. 0 \in B
  <2>1. 1..0 = {} /\ Len(u) + 0 = Len(u) /\ {} \in SUBSET (DOMAIN s)
    BY <1>11
  <2>2. h[{}] = r
    BY <1>10, <2>1
  <2>. QED BY <1>1, <1>12, <2>1, <2>2
<1>14. ASSUME NEW m \in 1..n, m - 1 \in B PROVE m \in B
  <2>1. 1..m \in SUBSET (1..n) /\ 1..m # {} /\ (1..m) \ {m} = 1..(m - 1) /\ Max(1..m) = m
    BY <1>1, LastOf
  <2>2. m \in Nat
    BY <1>1
  <2>3. h[1..m] = SrStored(h[1..(m - 1)], s[m])
    BY <1>1, <1>10, <2>1, <2>2
  <2>4. PICK e : e = h[1..(m - 1)]
    OBVIOUS
  <2>5. PICK l : l = Len(u) + (m - 1)
    OBVIOUS
  <2>6. Shows(e, x, l)
    BY <1>14, <2>4, <2>5
  <2>7. /\ l \in Nat /\ Len(u) + m \in Nat /\ Len(u) + m = l + 1
        /\ s[m] \in SrByte /\ s[m] = x[Len(u) + m]
    BY <1>1, <1>11, <2>5
  <2>8. Shows(SrStored(e, s[m]), x, Len(u) + m)
    BY <2>6, <2>7, StoredShows
  <2>. QED BY <1>1, <2>3, <2>4, <2>8
<1>15. n \in B
  <2> HIDE DEF B
  <2>. QED BY <1>1, <1>13, <1>14, UpTo
<1>16. FifoHolds(h[1..n], SrLast(x))
  BY <1>11, <1>15, LastHolds
<1>. QED BY <1>1, <1>2, <1>16 DEF x

LEMMA StoredHolds ==
  ASSUME NEW r, NEW u, FifoHolds(r, u), NEW c \in SrByte
  PROVE  FifoHolds(SrStored(r, c), SrLast(Append(u, c)))
<1>1. PICK s : s = <<c>>
  OBVIOUS
<1>2. u \in Seq(SrByte) /\ s \in Seq(SrByte) /\ Len(s) = 1 /\ s[1] = c /\ Len(u) \in Nat
  BY <1>1 DEF FifoHolds
<1>3. PICK x : x = u \o s
  OBVIOUS
<1>4. x \in Seq(SrByte) /\ Len(x) = Len(u) + 1 /\ x[Len(u) + 1] = c /\ x = Append(u, c)
  BY <1>1, <1>2, <1>3
<1>5. Shows(r, x, Len(u))
  BY <1>2, <1>3, BeforeShows
<1>6. Len(x) \in Nat /\ c = x[Len(x)]
  BY <1>2, <1>4
<1>7. Shows(SrStored(r, c), x, Len(x))
  BY <1>2, <1>4, <1>5, <1>6, StoredShows
<1>. QED BY <1>4, <1>7, LastHolds

\* The FIFO has a byte when put_index is not get_index, and always with is_full
LEMMA FifoBytes ==
  ASSUME NEW r, NEW u, FifoHolds(r, u)
  PROVE  (r.put = r.get <=> u = <<>>) /\ (r.full => u # <<>>)
<1>1. /\ r \in SrState /\ SrSize \in Nat /\ SrSize > 1 /\ u \in Seq(SrByte) /\ Len(u) \in Nat
      /\ r.full => Off(SrSize, r.put, r.get) > 0
      /\ Len(u) = Off(SrSize, r.put, r.get)
  BY SrSizes DEF FifoHolds, Shows
<1>2. r.put \in Nat /\ r.put < SrSize /\ r.get \in Nat /\ r.get < SrSize
  BY <1>1 DEF SrState
<1>3. /\ r.put # r.get => Off(SrSize, r.put, r.get) > 0
      /\ r.put = r.get => Off(SrSize, r.put, r.get) <= 0
  BY <1>1, <1>2, OffAfter
<1>4. u = <<>> <=> Len(u) = 0
  BY <1>1
<1>. QED BY <1>1, <1>3, <1>4

\* _serial_int_rx: the oldest byte
LEMMA TakenHolds ==
  ASSUME NEW r, NEW u, FifoHolds(r, u), u # <<>>
  PROVE  FifoHolds([r EXCEPT !.get = NextIndex(@), !.full = FALSE], Tail(u))
<1>1. /\ r \in SrState /\ SrSize \in Nat /\ SrSize > 1 /\ u \in Seq(SrByte) /\ Len(u) \in Nat
      /\ Len(u) = Off(SrSize, r.put, r.get)
      /\ \A i \in 1..Len(u) : r.buf[Nth(SrSize, r.get, i)] = u[Len(u) - Len(u) + i]
  BY SrSizes DEF FifoHolds, Shows
<1>2. r.put \in Nat /\ r.put < SrSize /\ r.get \in Nat /\ r.get < SrSize
  BY <1>1 DEF SrState
<1>3. PICK g : g = After(SrSize, r.get)
  OBVIOUS
<1>4. PICK e : e = [r EXCEPT !.get = g, !.full = FALSE]
  OBVIOUS
<1>5. e = [r EXCEPT !.get = NextIndex(@), !.full = FALSE]
  BY <1>3, <1>4 DEF NextIndex, After
<1>6. g \in Nat /\ g < SrSize
  BY <1>1, <1>2, <1>3, AfterRange
<1>7. e \in SrState /\ e.buf = r.buf /\ e.put = r.put /\ e.get = g /\ ~e.full
  <2>1. g \in 0..(SrSize - 1)
    BY <1>1, <1>6
  <2>. QED BY <1>1, <1>4, <2>1 DEF SrState
<1>8. PICK v : v = Tail(u)
  OBVIOUS
<1>9. v \in Seq(SrByte) /\ Len(v) = Len(u) - 1 /\ \A i \in 1..Len(v) : v[i] = u[i + 1]
  BY <1>1, <1>8
<1>10. Off(SrSize, e.put, e.get) = Len(v) /\ Len(u) < SrSize /\ Len(v) \in Nat
  <2>1. r.put # r.get
    BY FifoBytes
  <2>2. /\ Off(SrSize, r.put, After(SrSize, r.get)) <= Off(SrSize, r.put, r.get) - 1
        /\ Off(SrSize, r.put, After(SrSize, r.get)) >= Off(SrSize, r.put, r.get) - 1
    BY <1>1, <1>2, <2>1, OffAfter
  <2>3. Off(SrSize, r.put, g) \in Nat /\ Len(u) < SrSize
    BY <1>1, <1>2, <1>6, OffRange, ZenonT(60)
  <2>. QED BY <1>1, <1>3, <1>7, <1>9, <2>2, <2>3
<1>11. ASSUME NEW i \in 1..Len(v)
       PROVE  e.buf[Nth(SrSize, e.get, i)] = v[Len(v) - Len(v) + i]
  <2>1. PICK j : j = i + 1
    OBVIOUS
  <2>2. j \in Nat /\ j \in 1..Len(u) /\ i \in 1..(SrSize - 1) /\ i \in Nat
    BY <1>1, <1>9, <1>10, <2>1
  <2>3. /\ Nth(SrSize, After(SrSize, r.get), i) \in Nat /\ Nth(SrSize, r.get, j) \in Nat
        /\ Nth(SrSize, After(SrSize, r.get), i) <= Nth(SrSize, r.get, j)
        /\ Nth(SrSize, After(SrSize, r.get), i) >= Nth(SrSize, r.get, j)
    BY <1>1, <1>2, <2>1, <2>2, NthAfter
  <2>4. Nth(SrSize, e.get, i) = Nth(SrSize, r.get, j)
    BY <1>3, <1>7, <2>3
  <2>5. Len(v) - Len(v) + i = i /\ Len(u) - Len(u) + j = j
    BY <1>1, <1>9, <2>2
  <2>. QED BY <1>1, <1>7, <1>9, <2>1, <2>2, <2>4, <2>5
<1>12. Shows(e, v, Len(v))
  BY <1>7, <1>10, <1>11 DEF Shows
<1>13. FifoHolds(e, v)
  BY <1>9, <1>10, <1>12 DEF FifoHolds
<1>. QED BY <1>5, <1>8, <1>13

\* _tc_flush, and a FIFO just made
LEMMA FlushedHolds ==
  ASSUME NEW r \in SrState, r.put = r.get, ~r.full
  PROVE  FifoHolds(r, <<>>)
<1>1. SrSize \in Nat /\ SrSize > 1 /\ r.put \in Nat
  BY SrSizes DEF SrState
<1>2. Off(SrSize, r.put, r.get) = 0
  BY <1>1 DEF Off
<1>3. <<>> \in Seq(SrByte) /\ Len(<<>>) = 0
  OBVIOUS
<1>. QED BY <1>1, <1>2, <1>3 DEF FifoHolds, Shows

\* The transmitter has no part in it
LEMMA BusyHolds ==
  ASSUME NEW r, NEW u, FifoHolds(r, u), NEW b \in BOOLEAN
  PROVE  FifoHolds([r EXCEPT !.busy = b], u)
<1>1. r \in SrState
  BY DEF FifoHolds, Shows
<1>2. PICK e : e = [r EXCEPT !.busy = b]
  OBVIOUS
<1>3. /\ e \in SrState /\ e.buf = r.buf /\ e.put = r.put /\ e.get = r.get
      /\ e.full = r.full
  BY <1>1, <1>2 DEF SrState
<1>4. FifoHolds(e, u)
  BY <1>3 DEF FifoHolds, Shows
<1>. QED BY <1>2, <1>4

\* The FIFO holds the bytes received and neither read nor dropped
LEMMA FifoMeans ==
  ASSUME FifoHolds(sr, unread)
  PROVE  SrType /\ SrKeepsBytes
<1>1. /\ sr \in SrState /\ SrSize \in Nat \ {0} /\ SrSize > 1
      /\ unread \in Seq(SrByte) /\ Len(unread) \in Nat
      /\ Len(unread) = Off(SrSize, sr.put, sr.get)
      /\ \A i \in 1..Len(unread) :
           sr.buf[Nth(SrSize, sr.get, i)] = unread[Len(unread) - Len(unread) + i]
  BY SrSizes DEF FifoHolds, Shows
<1>2. sr.put \in 0..(SrSize - 1) /\ sr.get \in 0..(SrSize - 1)
  BY <1>1 DEF SrState
<1>3. /\ (sr.put - sr.get) % SrSize = Off(SrSize, sr.put, sr.get)
      /\ Off(SrSize, sr.put, sr.get) \in 0..(SrSize - 1)
  BY <1>1, <1>2, Turn
<1>4. ASSUME NEW i \in 1..Len(unread)
      PROVE  sr.buf[(sr.get + i - 1) % SrSize] = unread[i]
  <2>1. i \in 1..SrSize /\ Len(unread) - Len(unread) + i = i
    BY <1>1, <1>3
  <2>2. (sr.get + i - 1) % SrSize = Nth(SrSize, sr.get, i)
    BY <1>1, <1>2, <2>1, NthMod
  <2>. QED BY <1>1, <2>1, <2>2
<1>5. unread = [i \in 1..Len(unread) |-> unread[i]]
  BY <1>1
<1>6. SrContents = unread
  BY <1>1, <1>3, <1>4, <1>5 DEF SrContents
<1>. QED BY <1>1, <1>2, <1>6, FifoBytes DEF SrType, SrKeepsBytes, SrState

LEMMA SrInitHolds ==
  ASSUME SrInit
  PROVE  FifoHolds(sr, unread)
<1>1. sr \in SrState /\ sr.put = sr.get /\ ~sr.full /\ unread = <<>>
  BY SrSizes DEF SrInit, SrState
<1>. QED BY <1>1, FlushedHolds

\* The FIFO is changed by the handler and the hook that receive, by a reader and a flush
LEMMA SrNextHolds ==
  ASSUME FifoHolds(sr, unread), SrNext
  PROVE  FifoHolds(sr', unread')
<1>1. sr \in SrState
  BY DEF FifoHolds, Shows
<1>2. ASSUME UNCHANGED <<sr, unread>> PROVE FifoHolds(sr', unread')
  BY <1>2
<1>3. ASSUME NEW t \in Running, SrGet(t) PROVE FifoHolds(sr', unread')
  <2>1. unread # <<>>
    BY <1>3, FifoBytes DEF SrGet, SrEmpty
  <2>. QED BY <1>3, <2>1, TakenHolds DEF SrGet
<1>4. ASSUME NEW t \in Running, SrFlush(t) PROVE FifoHolds(sr', unread')
  <2>1. sr' \in SrState /\ sr'.put = sr'.get /\ ~sr'.full
    <3>1. 0 \in 0..(SrSize - 1)
      BY SrSizes
    <3>. QED BY <1>1, <1>4, <3>1 DEF SrFlush, SrState
  <2>. QED BY <1>4, <2>1, FlushedHolds DEF SrFlush
<1>5. ASSUME NEW t \in Running, SrPut(t) PROVE FifoHolds(sr', unread')
  BY <1>5, BusyHolds DEF SrPut
<1>6. ASSUME SrIsrSent PROVE FifoHolds(sr', unread')
  BY <1>6, BusyHolds DEF SrIsrSent
<1>7. ASSUME NEW n \in SrFound, NEW s \in [1..n -> SrByte], SrIsrReceive(s)
      PROVE  FifoHolds(sr', unread')
  <2>1. s \in Seq(SrByte)
    BY SerialAssumption
  <2>. QED BY <1>7, <2>1, ReceivedHolds DEF SrIsrReceive
<1>8. ASSUME NEW c \in SrByte, SrIdleStore(c) PROVE FifoHolds(sr', unread')
  BY <1>8, StoredHolds DEF SrIdleStore
<1>9. ASSUME NEW t \in Running,
             \/ \E n \in SrCount : SrRead(t, n) \/ SrWrite(t, n)
             \/ SrReadEnd(t) \/ SrReadNone(t) \/ SrWait(t) \/ SrWaited(t)
             \/ SrPutRefused(t) \/ SrPutAgain(t) \/ SrPutWait(t) \/ SrPutWaited(t) \/ SrWritten(t)
      PROVE  UNCHANGED <<sr, unread>>
  BY <1>9 DEF SrRead, SrWrite, SrStarts, SrReadEnd, SrReturns, SrReadNone, SrWait, SrWaited,
              SrPutRefused, SrPutAgain, SrPutWait, SrPutWaited, SrWritten, serial
<1>10. ASSUME SrIdleLength \/ SrIdleWake PROVE UNCHANGED <<sr, unread>>
  BY <1>10 DEF SrIdleLength, SrIdleWake, serial
<1>. QED BY <1>2, <1>3, <1>4, <1>5, <1>6, <1>7, <1>8, <1>9, <1>10 DEF SrNext

-----------------------------------------------------------------------------
(***************************************************************************)
(* ringblk_buf.c.  The blocks in use, in the order of the list, lie behind *)
(* each other around the buffer: of m blocks the i-th takes what is from   *)
(* a[i] up to e[i].                                                        *)
(***************************************************************************)

\* Three offsets met in this order around the buffer
Around(x, y, z) == (x < y /\ y < z) \/ (y < z /\ z < x) \/ (z < x /\ x < y)

Layout(n, m, a, e) ==
  /\ \A i \in 1..m : a[i] \in Nat /\ e[i] \in Nat /\ a[i] < e[i] /\ e[i] <= n
  /\ \A i \in 1..m, j \in 1..m : i # j => e[i] <= a[j] \/ e[j] <= a[i]
  /\ \A i \in 1..m, j \in 1..m, l \in 1..m : i < j /\ j < l => Around(a[i], a[j], a[l])

\* There is room for s more at x, behind the m-th block
Fitting(n, m, a, e, x, s) ==
  /\ x \in Nat /\ s \in Nat /\ s > 0 /\ x + s <= n
  /\ \A i \in 1..m : e[i] <= x \/ x + s <= a[i]
  /\ \A i \in 1..m, j \in 1..m : i < j => Around(a[i], a[j], x)

\* A buffer whose tail has gone around the end: behind the tail, before the head
LEMMA RoomBetween ==
  ASSUME NEW n \in Nat, NEW m \in Nat \ {0}, NEW a, NEW e, Layout(n, m, a, e),
         a[1] > a[m], NEW s \in Nat, s > 0, e[m] + s <= a[1]
  PROVE  Fitting(n, m, a, e, e[m], s)
<1>1. 1 \in 1..m /\ m \in 1..m /\ 1 < m
  <2>1. 1 \in 1..m /\ m \in 1..m
    OBVIOUS
  <2>2. m # 1
    BY <2>1 DEF Layout
  <2>. QED BY <2>1, <2>2
<1>2. /\ a[1] \in Nat /\ e[1] \in Nat /\ a[1] < e[1] /\ e[1] <= n
      /\ a[m] \in Nat /\ e[m] \in Nat /\ a[m] < e[m] /\ e[m] <= n
  BY <1>1 DEF Layout
<1>3. ASSUME NEW i \in 1..m
      PROVE  /\ a[i] \in Nat /\ e[i] \in Nat /\ a[i] < e[i]
             /\ \/ a[i] <= a[m] /\ e[i] <= e[m]
                \/ a[1] <= a[i]
             /\ i # m /\ a[i] <= a[m] => a[i] < a[m]
             /\ a[1] <= a[i] => i # m
             /\ a[i] <= a[m] => i # 1
  <2>1. /\ a[i] \in Nat /\ e[i] \in Nat /\ a[i] < e[i]
        /\ i # m => e[i] <= a[m] \/ e[m] <= a[i]
        /\ i # 1 /\ i # m => Around(a[1], a[i], a[m])
    <3>1. 1 < i /\ i < m <=> i # 1 /\ i # m
      OBVIOUS
    <3>. QED BY <1>1, <3>1 DEF Layout
  <2>2. CASE i = 1
    BY <1>1, <1>2, <2>1, <2>2
  <2>3. CASE i = m
    BY <1>1, <1>2, <2>1, <2>3
  <2>4. CASE i # 1 /\ i # m
    BY <1>2, <2>1, <2>4 DEF Around
  <2>. QED BY <2>2, <2>3, <2>4
<1>4. ASSUME NEW i \in 1..m PROVE e[i] <= e[m] \/ e[m] + s <= a[i]
  BY <1>2, <1>3
<1>5. ASSUME NEW i \in 1..m, NEW j \in 1..m, i < j PROVE Around(a[i], a[j], e[m])
  <2>1. j # m => Around(a[i], a[j], a[m])
    <3>1. j # m => j < m
      OBVIOUS
    <3>. QED BY <1>1, <1>5, <3>1 DEF Layout
  <2>2. i # 1 => Around(a[1], a[i], a[j])
    <3>1. i # 1 => 1 < i
      OBVIOUS
    <3>. QED BY <1>1, <1>5, <3>1 DEF Layout
  <2>3. i # m /\ j # 1
    BY <1>5
  <2>4. CASE a[i] <= a[m] /\ a[j] <= a[m]
    <3>1. a[i] < a[j]
      <4>1. CASE j = m
        BY <1>3, <2>3, <2>4, <4>1
      <4>2. CASE j # m
        BY <1>2, <1>3, <2>1, <2>3, <2>4, <4>2 DEF Around
      <4>. QED BY <4>1, <4>2
    <3>2. a[j] < e[m]
      BY <1>2, <1>3, <2>4
    <3>. QED BY <3>1, <3>2 DEF Around
  <2>5. CASE a[i] <= a[m] /\ a[1] <= a[j]
    <3>1. i # 1
      BY <1>3, <2>5
    <3>2. Around(a[1], a[i], a[j])
      BY <2>2, <3>1
    <3>3. a[i] \in Nat /\ a[j] \in Nat
      BY <1>3
    <3>. QED BY <1>2, <2>5, <3>2, <3>3 DEF Around
  <2>6. CASE a[1] <= a[i] /\ a[j] <= a[m]
    <3>1. a[j] < e[m] /\ e[m] < a[i]
      BY <1>2, <1>3, <2>6
    <3>. QED BY <3>1 DEF Around
  <2>7. CASE a[1] <= a[i] /\ a[1] <= a[j]
    <3>1. j # m
      BY <1>3, <2>7
    <3>2. Around(a[i], a[j], a[m]) /\ a[i] \in Nat /\ a[j] \in Nat
      BY <1>3, <2>1, <3>1
    <3>3. a[i] < a[j] /\ e[m] < a[i]
      BY <1>2, <2>7, <3>2 DEF Around
    <3>. QED BY <3>3 DEF Around
  <2>. QED BY <1>3, <2>4, <2>5, <2>6, <2>7
<1>6. e[m] + s <= n
  BY <1>2
<1>. QED BY <1>2, <1>4, <1>5, <1>6 DEF Fitting

\* A buffer whose tail has not gone around: behind the tail, or at the start before the head
LEMMA LayoutRises ==
  ASSUME NEW n \in Nat, NEW m \in Nat \ {0}, NEW a, NEW e, Layout(n, m, a, e), a[1] <= a[m]
  PROVE  /\ \A i \in 1..m : a[1] <= a[i] /\ e[i] <= e[m] /\ a[i] <= a[m]
         /\ \A i \in 1..m, j \in 1..m : i < j => a[i] < a[j]
<1>1. 1 \in 1..m /\ m \in 1..m
  OBVIOUS
<1>2. /\ a[1] \in Nat /\ e[1] \in Nat /\ a[1] < e[1]
      /\ a[m] \in Nat /\ e[m] \in Nat /\ a[m] < e[m]
      /\ m # 1 => a[1] < a[m] /\ e[1] <= a[m]
  <2>1. /\ a[1] \in Nat /\ e[1] \in Nat /\ a[1] < e[1]
        /\ a[m] \in Nat /\ e[m] \in Nat /\ a[m] < e[m]
        /\ m # 1 => e[1] <= a[m] \/ e[m] <= a[1]
    BY <1>1 DEF Layout
  <2>. QED BY <2>1
<1>3. ASSUME NEW i \in 1..m
      PROVE  /\ a[1] <= a[i] /\ e[i] <= e[m] /\ a[i] <= a[m]
             /\ a[i] \in Nat /\ i # m => a[i] < a[m]
  <2>1. /\ a[i] \in Nat /\ e[i] \in Nat /\ a[i] < e[i]
        /\ i # m => e[i] <= a[m] \/ e[m] <= a[i]
        /\ i # 1 /\ i # m => Around(a[1], a[i], a[m])
    <3>1. 1 < i /\ i < m <=> i # 1 /\ i # m
      OBVIOUS
    <3>. QED BY <1>1, <3>1 DEF Layout
  <2>2. CASE i = 1
    BY <1>1, <1>2, <2>1, <2>2
  <2>3. CASE i = m
    BY <1>1, <1>2, <2>1, <2>3
  <2>4. CASE i # 1 /\ i # m
    <3>1. Around(a[1], a[i], a[m]) /\ m # 1
      BY <2>1, <2>4
    <3>. QED BY <1>2, <2>1, <2>4, <3>1 DEF Around
  <2>. QED BY <2>2, <2>3, <2>4
<1>4. ASSUME NEW i \in 1..m, NEW j \in 1..m, i < j PROVE a[i] < a[j]
  <2>1. j # m => Around(a[i], a[j], a[m])
    <3>1. j # m => j < m
      OBVIOUS
    <3>. QED BY <1>1, <1>4, <3>1 DEF Layout
  <2>2. a[i] < a[m] /\ a[i] \in Nat /\ a[j] \in Nat /\ a[j] <= a[m]
    <3>1. i # m
      BY <1>4
    <3>2. \A x \in 1..m : a[x] \in Nat
      BY DEF Layout
    <3>. QED BY <1>3, <3>1, <3>2
  <2>. QED BY <1>2, <2>1, <2>2 DEF Around
<1>. QED BY <1>3, <1>4

LEMMA RoomBehind ==
  ASSUME NEW n \in Nat, NEW m \in Nat \ {0}, NEW a, NEW e, Layout(n, m, a, e),
         a[1] <= a[m], NEW s \in Nat, s > 0, n - e[m] >= s
  PROVE  Fitting(n, m, a, e, e[m], s)
<1>1. /\ m \in 1..m /\ a[m] \in Nat /\ e[m] \in Nat /\ a[m] < e[m]
      /\ \A i \in 1..m : a[i] \in Nat
  BY DEF Layout
<1>2. ASSUME NEW i \in 1..m, NEW j \in 1..m, i < j PROVE Around(a[i], a[j], e[m])
  <2>1. a[i] < a[j] /\ a[j] <= a[m]
    BY <1>2, LayoutRises
  <2>2. a[j] < e[m]
    BY <1>1, <2>1
  <2>. QED BY <2>1, <2>2 DEF Around
<1>3. \A i \in 1..m : e[i] <= e[m]
  BY LayoutRises
<1>. QED BY <1>1, <1>2, <1>3 DEF Fitting

LEMMA RoomBefore ==
  ASSUME NEW n \in Nat, NEW m \in Nat \ {0}, NEW a, NEW e, Layout(n, m, a, e),
         a[1] <= a[m], NEW s \in Nat, s > 0, a[1] >= s
  PROVE  Fitting(n, m, a, e, 0, s)
<1>1. /\ 1 \in 1..m /\ a[1] \in Nat /\ e[1] \in Nat /\ a[1] < e[1] /\ e[1] <= n
      /\ \A i \in 1..m : a[i] \in Nat
  BY DEF Layout
<1>2. ASSUME NEW i \in 1..m, NEW j \in 1..m, i < j PROVE Around(a[i], a[j], 0)
  <2>1. a[i] < a[j] /\ a[1] <= a[i]
    BY <1>2, LayoutRises
  <2>2. 0 < a[i]
    BY <1>1, <2>1
  <2>. QED BY <2>1, <2>2 DEF Around
<1>3. ASSUME NEW i \in 1..m PROVE 0 + s <= a[i]
  <2>1. a[1] <= a[i] /\ a[i] \in Nat
    BY <1>1, LayoutRises
  <2>. QED BY <1>1, <2>1
<1>4. 0 + s <= n
  BY <1>1
<1>. QED BY <1>2, <1>3, <1>4 DEF Fitting

\* One block more
LEMMA LayoutGrows ==
  ASSUME NEW n \in Nat, NEW m \in Nat, NEW a, NEW e, Layout(n, m, a, e),
         NEW x, NEW s, Fitting(n, m, a, e, x, s), NEW l \in Nat, l = m + 1,
         NEW b, NEW f, \A i \in 1..m : b[i] = a[i] /\ f[i] = e[i],
         b[l] = x, f[l] = x + s
  PROVE  Layout(n, l, b, f)
<1>1. \A i \in 1..l : i \in 1..m \/ i = l
  OBVIOUS
<1>2. /\ \A i \in 1..m : b[i] \in Nat /\ f[i] \in Nat /\ b[i] < f[i] /\ f[i] <= n
      /\ \A i \in 1..m, j \in 1..m : i # j => f[i] <= b[j] \/ f[j] <= b[i]
      /\ \A i \in 1..m, j \in 1..m, h \in 1..m : i < j /\ j < h => Around(b[i], b[j], b[h])
  BY DEF Layout
<1>3. /\ x \in Nat /\ s \in Nat /\ s > 0 /\ x + s <= n
      /\ \A i \in 1..m : f[i] <= x \/ x + s <= b[i]
      /\ \A i \in 1..m, j \in 1..m : i < j => Around(b[i], b[j], x)
  BY DEF Fitting
<1>4. \A i \in 1..l : b[i] \in Nat /\ f[i] \in Nat /\ b[i] < f[i] /\ f[i] <= n
  BY <1>1, <1>2, <1>3
<1>5. ASSUME NEW i \in 1..l, NEW j \in 1..l, i # j PROVE f[i] <= b[j] \/ f[j] <= b[i]
  BY <1>1, <1>2, <1>3, <1>5
<1>6. ASSUME NEW i \in 1..l, NEW j \in 1..l, NEW h \in 1..l, i < j, j < h
      PROVE  Around(b[i], b[j], b[h])
  <2>1. i \in 1..m /\ j \in 1..m
    BY <1>6
  <2>. QED BY <1>1, <1>2, <1>3, <1>6, <2>1
<1>. QED BY <1>4, <1>5, <1>6 DEF Layout

\* One block less, wherever it is: b is a without its p-th of m places
Without(m, p, a, b) ==
  /\ \A i \in 1..(p - 1) : b[i] = a[i]
  /\ \A i \in p..(m - 1) : b[i] = a[i + 1]

LEMMA LayoutShrinks ==
  ASSUME NEW n \in Nat, NEW m \in Nat \ {0}, NEW a, NEW e, Layout(n, m, a, e),
         NEW p \in 1..m, NEW b, NEW f, Without(m, p, a, b), Without(m, p, e, f)
  PROVE  Layout(n, m - 1, b, f)
<1> DEFINE g(i) == IF i < p THEN i ELSE i + 1
<1>1. ASSUME NEW i \in 1..(m - 1) PROVE g(i) \in 1..m /\ b[i] = a[g(i)] /\ f[i] = e[g(i)]
  BY <1>1 DEF Without
<1>2. ASSUME NEW i \in 1..(m - 1), NEW j \in 1..(m - 1), i < j PROVE g(i) < g(j)
  BY <1>2
<1>3. ASSUME NEW i \in 1..(m - 1), NEW j \in 1..(m - 1), i # j PROVE g(i) # g(j)
  BY <1>3
<1> HIDE DEF g
<1>. QED BY <1>1, <1>2, <1>3 DEF Layout

RbbState ==
  [blk : [1..RbbMax -> [status : {"UNUSED", "INITED", "PUT", "GET"}, buf : Nat, size : Nat]],
   list : Seq(1..RbbMax)]

\* Where the block with place i on the list of b begins and ends
StartOf(b, i) == b.blk[b.list[i]].buf
EndOf(b, i) == b.blk[b.list[i]].buf + b.blk[b.list[i]].size

Fronts(b) == [i \in 1..Len(b.list) |-> StartOf(b, i)]
Backs(b) == [i \in 1..Len(b.list) |-> EndOf(b, i)]

BlocksHold(b) ==
  /\ b \in RbbState
  /\ Distinct(b.list)
  /\ \A i \in 1..RbbMax : Contains(b.list, i) <=> b.blk[i].status # "UNUSED"
  /\ Layout(RbbSize, Len(b.list), Fronts(b), Backs(b))

LEMMA RbbSizes == RbbMax \in Nat \ {0} /\ RbbSize \in Nat /\ RbbLen \subseteq 1..RbbSize
BY RingBlockAssumption

\* What is at each place of the list
LEMMA ListBlocks ==
  ASSUME NEW b, BlocksHold(b)
  PROVE  /\ Len(b.list) \in Nat /\ DOMAIN b.list = 1..Len(b.list) /\ DOMAIN b.blk = 1..RbbMax
         /\ b.list \in Seq(1..RbbMax)
         /\ \A i \in 1..Len(b.list) :
              /\ b.list[i] \in 1..RbbMax /\ Contains(b.list, b.list[i])
              /\ b.blk[b.list[i]].buf \in Nat /\ b.blk[b.list[i]].size \in Nat
              /\ Fronts(b)[i] = b.blk[b.list[i]].buf
              /\ Backs(b)[i] = b.blk[b.list[i]].buf + b.blk[b.list[i]].size
<1>1. b.list \in Seq(1..RbbMax) /\ DOMAIN b.blk = 1..RbbMax
      /\ \A i \in 1..RbbMax : b.blk[i].buf \in Nat /\ b.blk[i].size \in Nat
  BY DEF BlocksHold, RbbState
<1>2. /\ Len(b.list) \in Nat /\ DOMAIN b.list = 1..Len(b.list)
      /\ \A i \in 1..Len(b.list) : b.list[i] \in 1..RbbMax
  BY <1>1, LenProperties, ElementOfSeq
<1>3. \A i \in 1..Len(b.list) : Contains(b.list, b.list[i])
  BY <1>2 DEF Contains
<1>4. \A i \in 1..Len(b.list) : Fronts(b)[i] = b.blk[b.list[i]].buf
  BY DEF Fronts, StartOf
<1>5. \A i \in 1..Len(b.list) : Backs(b)[i] = b.blk[b.list[i]].buf + b.blk[b.list[i]].size
  BY DEF Backs, EndOf
<1>. QED BY <1>1, <1>2, <1>3, <1>4, <1>5

\* The blocks in use are on the list, within the buffer, and no two share a byte
LEMMA BlocksMean ==
  ASSUME BlocksHold(rbb)
  PROVE  RbbBlocksApart
<1>1. /\ Len(rbb.list) \in Nat /\ DOMAIN rbb.list = 1..Len(rbb.list)
      /\ DOMAIN rbb.blk = 1..RbbMax
      /\ \A i \in 1..Len(rbb.list) :
              /\ rbb.list[i] \in 1..RbbMax
              /\ Fronts(rbb)[i] = rbb.blk[rbb.list[i]].buf
              /\ Backs(rbb)[i] = rbb.blk[rbb.list[i]].buf + rbb.blk[rbb.list[i]].size
  BY ListBlocks
<1>2. \A j : j \in ToSet(rbb.list) <=> \E i \in 1..Len(rbb.list) : rbb.list[i] = j
  BY <1>1 DEF ToSet
<1>3. \A j : j \in ToSet(rbb.list) <=> Contains(rbb.list, j)
  BY <1>2 DEF Contains
<1>4. ToSet(rbb.list) = DOMAIN rbb.blk \ RbbFree
  <2>1. \A j : j \in ToSet(rbb.list) => j \in 1..RbbMax
    BY <1>1, <1>2
  <2>2. \A j \in 1..RbbMax : Contains(rbb.list, j) <=> rbb.blk[j].status # "UNUSED"
    BY DEF BlocksHold
  <2>. QED BY <1>1, <1>3, <2>1, <2>2 DEF RbbFree
<1>5. ASSUME NEW x \in ToSet(rbb.list), NEW y \in ToSet(rbb.list)
      PROVE  /\ RbbEnd(x) <= RbbSize
             /\ x # y => RbbEnd(x) <= rbb.blk[y].buf \/ RbbEnd(y) <= rbb.blk[x].buf
  <2>1. PICK i \in 1..Len(rbb.list) : rbb.list[i] = x
    BY <1>2
  <2>2. PICK j \in 1..Len(rbb.list) : rbb.list[j] = y
    BY <1>2
  <2>3. /\ Fronts(rbb)[i] = rbb.blk[x].buf /\ Backs(rbb)[i] = RbbEnd(x)
        /\ Fronts(rbb)[j] = rbb.blk[y].buf /\ Backs(rbb)[j] = RbbEnd(y)
    BY <1>1, <2>1, <2>2 DEF RbbEnd
  <2>4. /\ Backs(rbb)[i] <= RbbSize
        /\ i # j => Backs(rbb)[i] <= Fronts(rbb)[j] \/ Backs(rbb)[j] <= Fronts(rbb)[i]
    BY DEF BlocksHold, Layout
  <2>5. x # y => i # j
    BY <2>1, <2>2
  <2>. QED BY <2>3, <2>4, <2>5
<1>6. Distinct(rbb.list)
  BY DEF BlocksHold
<1>. QED BY <1>4, <1>5, <1>6 DEF RbbBlocksApart

LEMMA RbbInitHolds ==
  ASSUME RbbInit
  PROVE  BlocksHold(rbb)
<1>1. rbb.list = <<>> /\ Len(rbb.list) = 0 /\ rbb.list \in Seq(1..RbbMax)
  <2>1. rbb.list = <<>>
    BY DEF RbbInit
  <2>2. <<>> \in Seq(1..RbbMax) /\ Len(<<>>) = 0
    OBVIOUS
  <2>. QED BY <2>1, <2>2
<1>2. rbb.blk = [i \in 1..RbbMax |-> RbbUnused]
  BY DEF RbbInit
<1>3. rbb \in RbbState /\ \A i \in 1..RbbMax : rbb.blk[i].status = "UNUSED"
  <2>1. RbbUnused \in [status : {"UNUSED", "INITED", "PUT", "GET"}, buf : Nat, size : Nat]
    BY DEF RbbUnused
  <2>2. rbb.blk \in [1..RbbMax ->
                     [status : {"UNUSED", "INITED", "PUT", "GET"}, buf : Nat, size : Nat]]
    BY <1>2, <2>1
  <2>3. rbb = [blk |-> rbb.blk, list |-> rbb.list]
    BY DEF RbbInit
  <2>4. RbbUnused.status = "UNUSED"
    BY DEF RbbUnused
  <2>. QED BY <1>1, <1>2, <2>2, <2>3, <2>4 DEF RbbState
<1>4. Distinct(rbb.list) /\ \A i : ~Contains(rbb.list, i)
  BY <1>1 DEF Distinct, Contains
<1>5. Layout(RbbSize, Len(rbb.list), Fronts(rbb), Backs(rbb))
  BY <1>1 DEF Layout
<1>. QED BY <1>3, <1>4, <1>5 DEF BlocksHold

\* A status changes: rt_rbb_blk_put, rt_rbb_blk_get
LEMMA StatusHolds ==
  ASSUME NEW b, BlocksHold(b), NEW i \in 1..RbbMax, b.blk[i].status # "UNUSED",
         NEW s \in {"PUT", "GET"}
  PROVE  BlocksHold([b EXCEPT !.blk[i].status = s])
<1>1. b \in RbbState
  BY DEF BlocksHold
<1>2. PICK d : d = [b.blk[i] EXCEPT !.status = s]
  OBVIOUS
<1>3. d \in [status : {"UNUSED", "INITED", "PUT", "GET"}, buf : Nat, size : Nat]
      /\ d.buf = b.blk[i].buf /\ d.size = b.blk[i].size /\ d.status = s
  BY <1>1, <1>2 DEF RbbState
<1>4. PICK c : c = [b.blk EXCEPT ![i] = d]
  OBVIOUS
<1>5. PICK r : r = [b EXCEPT !.blk = c]
  OBVIOUS
<1>6. r = [b EXCEPT !.blk[i].status = s]
  BY <1>2, <1>4, <1>5
<1>7. r \in RbbState /\ r.list = b.list /\ r.blk = c
  BY <1>1, <1>3, <1>4, <1>5 DEF RbbState
<1>8. \A j \in 1..RbbMax : /\ c[j].buf = b.blk[j].buf /\ c[j].size = b.blk[j].size
                           /\ c[j].status # "UNUSED" <=> b.blk[j].status # "UNUSED"
  BY <1>1, <1>3, <1>4 DEF RbbState
<1>9. Fronts(r) = Fronts(b) /\ Backs(r) = Backs(b)
  <2>1. \A j \in 1..Len(b.list) : b.list[j] \in 1..RbbMax
    BY ListBlocks
  <2>. QED BY <1>7, <1>8, <2>1 DEF Fronts, Backs, StartOf, EndOf
<1>10. BlocksHold(r)
  BY <1>7, <1>8, <1>9 DEF BlocksHold
<1>. QED BY <1>6, <1>10

\* q is z without its item i, which is at place p
LosesAt(z, q, i, p) ==
  /\ z[p] = i
  /\ Len(q) = Len(z) - 1
  /\ \A x \in 1..(p - 1) : q[x] = z[x]
  /\ \A x \in p..(Len(z) - 1) : q[x] = z[x + 1]

\* A block leaves the list
LEMMA ListWithout ==
  ASSUME NEW z \in Seq(1..RbbMax), NEW i, Contains(z, i)
  PROVE  \E p \in 1..Len(z) : LosesAt(z, RemoveFirst(z, i), i, p)
<1>1. PICK S : S = 1..RbbMax
  OBVIOUS
<1>2. z \in Seq(S)
  BY <1>1
<1>3. PICK q : q = RemoveFirst(z, i)
  OBVIOUS
<1>4. \E n \in 1..Len(z) :
           /\ z[n] = i
           /\ q \in Seq(S)
           /\ Len(q) = Len(z) - 1
           /\ \A x \in 1..(n - 1) : q[x] = z[x]
           /\ \A x \in n..(Len(z) - 1) : q[x] = z[x + 1]
  BY <1>2, <1>3, RemoveFirstItems, SMTT(60)
<1>. QED BY <1>3, <1>4 DEF LosesAt

\* rt_rbb_blk_free
LEMMA FreedHolds ==
  ASSUME NEW b, BlocksHold(b), NEW i \in 1..RbbMax, b.blk[i].status # "UNUSED"
  PROVE  BlocksHold([b EXCEPT !.blk[i].status = "UNUSED", !.list = RemoveFirst(@, i)])
<1>1. b \in RbbState /\ Contains(b.list, i) /\ Distinct(b.list)
  BY DEF BlocksHold
<1>2. PICK d : d = [b.blk[i] EXCEPT !.status = "UNUSED"]
  OBVIOUS
<1>3. d \in [status : {"UNUSED", "INITED", "PUT", "GET"}, buf : Nat, size : Nat]
      /\ d.buf = b.blk[i].buf /\ d.size = b.blk[i].size /\ d.status = "UNUSED"
  BY <1>1, <1>2 DEF RbbState
<1>4. PICK c : c = [b.blk EXCEPT ![i] = d]
  OBVIOUS
<1>5. PICK q : q = RemoveFirst(b.list, i)
  OBVIOUS
<1>6. PICK r : r = [b EXCEPT !.blk = c, !.list = q]
  OBVIOUS
<1>7. r = [b EXCEPT !.blk[i].status = "UNUSED", !.list = RemoveFirst(@, i)]
  BY <1>2, <1>4, <1>5, <1>6
<1>8. b.list \in Seq(1..RbbMax)
  BY <1>1 DEF RbbState
<1>9. q \in Seq(1..RbbMax) /\ Distinct(q) /\ \A u : Contains(q, u) <=> Contains(b.list, u) /\ u # i
  BY <1>1, <1>5, <1>8, RemoveFirstList
<1>10. r \in RbbState /\ r.list = q /\ r.blk = c
  BY <1>1, <1>3, <1>4, <1>6, <1>9 DEF RbbState
<1>11. \A j \in 1..RbbMax : /\ c[j].buf = b.blk[j].buf /\ c[j].size = b.blk[j].size
                            /\ j # i => c[j].status = b.blk[j].status
                            /\ j = i => c[j].status = "UNUSED"
  BY <1>1, <1>3, <1>4 DEF RbbState
<1>12. \A j \in 1..RbbMax : Contains(q, j) <=> c[j].status # "UNUSED"
  BY <1>9, <1>11 DEF BlocksHold
<1>13. PICK p \in 1..Len(b.list) :
          /\ b.list[p] = i /\ Len(q) = Len(b.list) - 1
          /\ \A x \in 1..(p - 1) : q[x] = b.list[x]
          /\ \A x \in p..(Len(b.list) - 1) : q[x] = b.list[x + 1]
  <2>1. PICK z : z = b.list
    OBVIOUS
  <2>2. z \in Seq(1..RbbMax) /\ Contains(z, i)
    BY <1>1, <1>8, <2>1
  <2>3. PICK p \in 1..Len(z) : LosesAt(z, RemoveFirst(z, i), i, p)
    BY <2>2, ListWithout
  <2>4. LosesAt(b.list, q, i, p) /\ p \in 1..Len(b.list)
    BY <1>5, <2>1, <2>3
  <2>. QED BY <2>4 DEF LosesAt
<1>14. PICK m : m = Len(b.list)
  OBVIOUS
<1>15. m \in Nat \ {0} /\ p \in 1..m
  BY <1>8, <1>13, <1>14
<1>16. \A x \in 1..m : /\ b.list[x] \in 1..RbbMax
                       /\ Fronts(b)[x] = b.blk[b.list[x]].buf
                       /\ Backs(b)[x] = b.blk[b.list[x]].buf + b.blk[b.list[x]].size
  BY <1>14, ListBlocks
<1>17. \A x \in 1..(m - 1) : /\ Fronts(r)[x] = c[q[x]].buf
                             /\ Backs(r)[x] = c[q[x]].buf + c[q[x]].size
  <2>1. Len(r.list) = m - 1
    BY <1>10, <1>13, <1>14
  <2>. QED BY <1>10, <2>1 DEF Fronts, Backs, StartOf, EndOf
<1>18. \A x \in 1..(p - 1) : Fronts(r)[x] = Fronts(b)[x] /\ Backs(r)[x] = Backs(b)[x]
  <2>1. SUFFICES ASSUME NEW x \in 1..(p - 1)
                 PROVE  Fronts(r)[x] = Fronts(b)[x] /\ Backs(r)[x] = Backs(b)[x]
    OBVIOUS
  <2>2. x \in 1..(m - 1) /\ x \in 1..m
    BY <1>15
  <2>3. PICK y \in 1..RbbMax : y = b.list[x]
    BY <1>16, <2>2
  <2>4. Fronts(b)[x] = b.blk[y].buf /\ Backs(b)[x] = b.blk[y].buf + b.blk[y].size
    BY <1>16, <2>2, <2>3
  <2>5. q[x] = y
    BY <1>13, <2>1, <2>3
  <2>6. Fronts(r)[x] = c[y].buf /\ Backs(r)[x] = c[y].buf + c[y].size
    BY <1>17, <2>2, <2>5
  <2>. QED BY <1>11, <2>3, <2>4, <2>6
<1>19. \A x \in p..(m - 1) : Fronts(r)[x] = Fronts(b)[x + 1] /\ Backs(r)[x] = Backs(b)[x + 1]
  <2>1. SUFFICES ASSUME NEW x \in p..(m - 1)
                 PROVE  Fronts(r)[x] = Fronts(b)[x + 1] /\ Backs(r)[x] = Backs(b)[x + 1]
    OBVIOUS
  <2>2. x \in 1..(m - 1) /\ x + 1 \in 1..m /\ q[x] = b.list[x + 1]
    BY <1>13, <1>14, <1>15
  <2>3. PICK y \in 1..RbbMax : y = b.list[x + 1]
    BY <1>16, <2>2
  <2>4. Fronts(b)[x + 1] = b.blk[y].buf /\ Backs(b)[x + 1] = b.blk[y].buf + b.blk[y].size
    BY <1>16, <2>2, <2>3
  <2>5. Fronts(r)[x] = c[y].buf /\ Backs(r)[x] = c[y].buf + c[y].size
    BY <1>17, <2>2, <2>3
  <2>. QED BY <1>11, <2>3, <2>4, <2>5
<1>20. Layout(RbbSize, m, Fronts(b), Backs(b))
  BY <1>14 DEF BlocksHold
<1>21. Layout(RbbSize, m - 1, Fronts(r), Backs(r))
  <2>1. Without(m, p, Fronts(b), Fronts(r)) /\ Without(m, p, Backs(b), Backs(r))
    BY <1>18, <1>19 DEF Without
  <2>2. RbbSize \in Nat
    BY RbbSizes
  <2>. QED BY <1>15, <1>20, <2>1, <2>2, LayoutShrinks
<1>22. BlocksHold(r)
  BY <1>9, <1>10, <1>12, <1>13, <1>14, <1>21 DEF BlocksHold
<1>. QED BY <1>7, <1>22

\* The place rt_rbb_blk_alloc finds
LEMMA PlaceRoom ==
  ASSUME BlocksHold(rbb), NEW n \in RbbLen, NEW x \in RbbPlace(n)
  PROVE  Fitting(RbbSize, Len(rbb.list), Fronts(rbb), Backs(rbb), x, n)
<1> DEFINE m == Len(rbb.list)
           a == Fronts(rbb)
           e == Backs(rbb)
<1>1. n \in Nat /\ n > 0 /\ n <= RbbSize /\ RbbSize \in Nat
  BY RbbSizes
<1>2. /\ m \in Nat /\ rbb.list \in Seq(1..RbbMax) /\ Layout(RbbSize, m, a, e)
      /\ \A i \in 1..m : /\ a[i] = rbb.blk[rbb.list[i]].buf
                         /\ e[i] = RbbEnd(rbb.list[i])
  BY ListBlocks DEF BlocksHold, RbbEnd
<1>3. CASE rbb.list = <<>>
  <2>1. m = 0 /\ x = 0
    BY <1>2, <1>3 DEF RbbPlace
  <2> HIDE DEF m, a, e
  <2>. QED BY <1>1, <2>1 DEF Fitting, m, a, e
<1>4. CASE rbb.list # <<>>
  <2>1. m \in Nat \ {0} /\ Head(rbb.list) = rbb.list[1] /\ Last(rbb.list) = rbb.list[m]
    BY <1>2, <1>4 DEF Last
  <2>2. 1 \in 1..m /\ m \in 1..m
    BY <2>1
  <2>3. /\ rbb.blk[Head(rbb.list)].buf = a[1] /\ rbb.blk[Last(rbb.list)].buf = a[m]
        /\ RbbEnd(Last(rbb.list)) = e[m]
        /\ a[1] \in Nat /\ a[m] \in Nat /\ e[m] \in Nat
    <3>1. a[1] \in Nat /\ a[m] \in Nat /\ e[m] \in Nat
      BY <1>2, <2>2 DEF Layout
    <3>. QED BY <1>2, <2>1, <2>2, <3>1
  <2>4. x \in IF a[1] > a[m] THEN {y \in {e[m]} : a[1] - e[m] >= n}
              ELSE IF RbbSize - e[m] >= n THEN {e[m]}
              ELSE {y \in {0} : a[1] >= n}
    BY <1>4, <2>3 DEF RbbPlace
  <2> HIDE DEF m, a, e
  <2>5. CASE a[1] > a[m]
    <3>1. x = e[m] /\ e[m] + n <= a[1]
      BY <1>1, <2>3, <2>4, <2>5
    <3>2. Fitting(RbbSize, m, a, e, e[m], n)
      BY <1>1, <1>2, <2>1, <2>5, <3>1, RoomBetween
    <3>. QED BY <3>1, <3>2 DEF m, a, e
  <2>6. CASE a[1] <= a[m] /\ RbbSize - e[m] >= n
    <3>1. x = e[m]
      BY <1>1, <2>3, <2>4, <2>6
    <3>2. Fitting(RbbSize, m, a, e, e[m], n)
      BY <1>1, <1>2, <2>1, <2>6, RoomBehind
    <3>. QED BY <3>1, <3>2 DEF m, a, e
  <2>7. CASE a[1] <= a[m] /\ ~(RbbSize - e[m] >= n)
    <3>1. x = 0 /\ a[1] >= n
      BY <1>1, <2>3, <2>4, <2>7
    <3>2. Fitting(RbbSize, m, a, e, 0, n)
      BY <1>1, <1>2, <2>1, <2>7, <3>1, RoomBefore
    <3>. QED BY <3>1, <3>2 DEF m, a, e
  <2>8. a[1] > a[m] \/ a[1] <= a[m]
    BY <2>3
  <2>. QED BY <2>5, <2>6, <2>7, <2>8
<1>. QED BY <1>3, <1>4

\* rt_rbb_blk_alloc
LEMMA AllocHolds ==
  ASSUME BlocksHold(rbb), NEW n \in RbbLen, RbbAlloc(n)
  PROVE  BlocksHold(rbb')
<1>1. PICK x \in RbbPlace(n) :
        rbb' = [rbb EXCEPT !.blk[Min(RbbFree)] = [status |-> "INITED", buf |-> x, size |-> n],
                           !.list = Append(@, Min(RbbFree))]
  BY DEF RbbAlloc
<1>2. PICK i : i = Min(RbbFree)
  OBVIOUS
<1>3. rbb \in RbbState /\ rbb.list \in Seq(1..RbbMax) /\ Distinct(rbb.list)
  BY DEF BlocksHold, RbbState
<1>4. i \in 1..RbbMax /\ rbb.blk[i].status = "UNUSED" /\ ~Contains(rbb.list, i)
  <2>1. RbbFree \in SUBSET Nat /\ RbbFree # {} /\ RbbFree \subseteq 1..RbbMax
    <3>1. DOMAIN rbb.blk = 1..RbbMax
      BY <1>3 DEF RbbState
    <3>2. RbbFree \subseteq 1..RbbMax
      BY <3>1 DEF RbbFree
    <3>3. RbbFree # {}
      BY DEF RbbAlloc
    <3>4. 1..RbbMax \subseteq Nat
      BY RbbSizes
    <3>. QED BY <3>2, <3>3, <3>4
  <2>2. i \in RbbFree
    BY <1>2, <2>1, MinNat
  <2>. QED BY <2>1, <2>2 DEF RbbFree, BlocksHold
<1>5. PICK m : m = Len(rbb.list)
  OBVIOUS
<1>6. Fitting(RbbSize, m, Fronts(rbb), Backs(rbb), x, n)
  BY <1>5, PlaceRoom
<1>7. m \in Nat /\ x \in Nat /\ n \in Nat
  BY <1>3, <1>5, <1>6 DEF Fitting
<1>8. PICK d : d = [status |-> "INITED", buf |-> x, size |-> n]
  OBVIOUS
<1>9. d \in [status : {"UNUSED", "INITED", "PUT", "GET"}, buf : Nat, size : Nat]
      /\ d.status = "INITED" /\ d.buf = x /\ d.size = n
  BY <1>7, <1>8
<1>10. PICK c : c = [rbb.blk EXCEPT ![i] = d]
  OBVIOUS
<1>11. PICK q : q = Append(rbb.list, i)
  OBVIOUS
<1>12. PICK r : r = [rbb EXCEPT !.blk = c, !.list = q]
  OBVIOUS
<1>13. rbb' = r
  BY <1>1, <1>2, <1>8, <1>10, <1>11, <1>12
<1>14. /\ q \in Seq(1..RbbMax) /\ Distinct(q) /\ Len(q) = m + 1
       /\ \A u : Contains(q, u) <=> Contains(rbb.list, u) \/ u = i
       /\ \A y \in 1..m : q[y] = rbb.list[y]
       /\ q[m + 1] = i
  <2>1. q \in Seq(1..RbbMax) /\ Distinct(q)
        /\ \A u : Contains(q, u) <=> Contains(rbb.list, u) \/ u = i
    <3>1. PICK S : S = 1..RbbMax
      OBVIOUS
    <3>2. rbb.list \in Seq(S) /\ i \in S
      BY <1>3, <1>4, <3>1
    <3>3. /\ Append(rbb.list, i) \in Seq(S)
          /\ \A u : Contains(Append(rbb.list, i), u) <=> Contains(rbb.list, u) \/ u = i
          /\ Distinct(rbb.list) /\ ~Contains(rbb.list, i) => Distinct(Append(rbb.list, i))
      BY <3>2, AppendList
    <3>. QED BY <1>3, <1>4, <1>11, <3>1, <3>3
  <2>2. /\ Len(q) = Len(rbb.list) + 1
        /\ \A y \in 1..Len(rbb.list) : q[y] = rbb.list[y]
        /\ q[Len(rbb.list) + 1] = i
    BY <1>3, <1>4, <1>11, AppendProperties
  <2>. QED BY <1>5, <2>1, <2>2
<1>15. r \in RbbState /\ r.list = q /\ r.blk = c
  BY <1>3, <1>9, <1>10, <1>12, <1>14 DEF RbbState
<1>16. /\ \A j \in 1..RbbMax : j # i => c[j] = rbb.blk[j]
       /\ c[i] = d
  BY <1>3, <1>4, <1>10 DEF RbbState
<1>17. \A j \in 1..RbbMax : Contains(q, j) <=> c[j].status # "UNUSED"
  BY <1>4, <1>9, <1>14, <1>16 DEF BlocksHold
<1>18. PICK l : l = m + 1
  OBVIOUS
<1>19. l \in Nat /\ Len(r.list) = l
  BY <1>7, <1>14, <1>15, <1>18
<1>20. \A y \in 1..l : /\ Fronts(r)[y] = c[q[y]].buf
                       /\ Backs(r)[y] = c[q[y]].buf + c[q[y]].size
  BY <1>15, <1>19 DEF Fronts, Backs, StartOf, EndOf
<1>21. ASSUME NEW y \in 1..m
       PROVE  Fronts(r)[y] = Fronts(rbb)[y] /\ Backs(r)[y] = Backs(rbb)[y]
  <2>1. y \in 1..l
    BY <1>7, <1>18
  <2>2. /\ rbb.list[y] \in 1..RbbMax /\ Contains(rbb.list, rbb.list[y])
        /\ Fronts(rbb)[y] = rbb.blk[rbb.list[y]].buf
        /\ Backs(rbb)[y] = rbb.blk[rbb.list[y]].buf + rbb.blk[rbb.list[y]].size
    BY <1>5, ListBlocks
  <2>3. q[y] = rbb.list[y] /\ q[y] # i
    BY <1>4, <1>14, <2>2
  <2>. QED BY <1>16, <1>20, <2>1, <2>2, <2>3
<1>22. Fronts(r)[l] = x /\ Backs(r)[l] = x + n
  <2>1. l \in 1..l /\ q[l] = i
    BY <1>7, <1>14, <1>18
  <2>. QED BY <1>9, <1>16, <1>20, <2>1
<1>23. Layout(RbbSize, m, Fronts(rbb), Backs(rbb))
  BY <1>5 DEF BlocksHold
<1>24. Layout(RbbSize, l, Fronts(r), Backs(r))
  BY <1>6, <1>7, <1>18, <1>19, <1>21, <1>22, <1>23, RbbSizes, LayoutGrows, SMTT(60)
<1>25. BlocksHold(r)
  BY <1>14, <1>15, <1>17, <1>19, <1>24 DEF BlocksHold
<1>. QED BY <1>13, <1>25

\* Every use of the ring of blocks
LEMMA RbbNextHolds ==
  ASSUME BlocksHold(rbb), RbbNext
  PROVE  BlocksHold(rbb')
<1>1. DOMAIN rbb.blk = 1..RbbMax /\ DOMAIN rbb.list = 1..Len(rbb.list)
      /\ \A i \in 1..Len(rbb.list) : rbb.list[i] \in 1..RbbMax
  BY ListBlocks
<1>2. ASSUME NEW i \in 1..RbbMax, RbbPut(i) PROVE BlocksHold(rbb')
  BY <1>2, StatusHolds DEF RbbPut
<1>3. ASSUME NEW i \in 1..RbbMax, RbbFreed(i) PROVE BlocksHold(rbb')
  BY <1>3, FreedHolds DEF RbbFreed
<1>4. ASSUME RbbGet PROVE BlocksHold(rbb')
  <2>1. PICK n \in 1..Len(rbb.list) :
          /\ rbb.blk[rbb.list[n]].status = "PUT"
          /\ rbb' = [rbb EXCEPT !.blk[rbb.list[n]].status = "GET"]
    BY <1>1, <1>4 DEF RbbGet
  <2>2. PICK i \in 1..RbbMax : i = rbb.list[n]
    BY <1>1
  <2>. QED BY <2>1, <2>2, StatusHolds
<1>. QED BY <1>1, <1>2, <1>3, <1>4, AllocHolds DEF RbbNext

-----------------------------------------------------------------------------
(***************************************************************************)
(* Lists without a first or with a new first item.                         *)
(***************************************************************************)

\* r is s without its first item
Shortened(S, r, s) ==
  /\ r \in Seq(S) /\ Len(r) = Len(s) - 1
  /\ \A i \in 1..Len(r) : r[i] = s[i + 1]

LEMMA TailItems ==
  ASSUME NEW S, NEW s \in Seq(S), s # <<>>
  PROVE  Shortened(S, Tail(s), s) /\ s[1] \in S /\ Len(s) \in Nat \ {0}
<1>1. Len(s) \in Nat /\ Len(s) # 0
  BY EmptySeq, LenProperties
<1>. QED BY <1>1, HeadTailProperties DEF Shortened

LEMMA TailList ==
  ASSUME NEW S, NEW s \in Seq(S), s # <<>>, Distinct(s)
  PROVE  /\ Distinct(Tail(s))
         /\ \A u : Contains(Tail(s), u) <=> Contains(s, u) /\ u # s[1]
<1>1. PICK r : r = Tail(s)
  OBVIOUS
<1>2. Shortened(S, r, s) /\ Len(s) \in Nat \ {0}
  BY <1>1, TailItems
<1>3. \A i \in 1..Len(r) : r[i] = s[i + 1] /\ i + 1 \in 2..Len(s)
  BY <1>2 DEF Shortened
<1>4. Distinct(r)
  <2>1. ASSUME NEW i \in 1..Len(r), NEW j \in 1..Len(r), r[i] = r[j] PROVE i = j
    <3>1. i + 1 = j + 1
      BY <1>3, <2>1 DEF Distinct
    <3>. QED BY <3>1
  <2>. QED BY <2>1 DEF Distinct
<1>5. ASSUME NEW u PROVE Contains(r, u) <=> Contains(s, u) /\ u # s[1]
  <2>1. ASSUME NEW i \in 1..Len(r), r[i] = u PROVE Contains(s, u) /\ u # s[1]
    <3>1. s[i + 1] = u /\ i + 1 \in 2..Len(s) /\ 1 \in 1..Len(s) /\ i + 1 # 1
      BY <1>2, <1>3, <2>1
    <3>. QED BY <3>1 DEF Contains, Distinct
  <2>2. ASSUME NEW i \in 1..Len(s), s[i] = u, u # s[1] PROVE Contains(r, u)
    <3>1. i - 1 \in 1..Len(r) /\ (i - 1) + 1 = i
      BY <1>2, <2>2 DEF Shortened
    <3>. QED BY <1>3, <2>2, <3>1 DEF Contains
  <2>. QED BY <2>1, <2>2 DEF Contains
<1>. QED BY <1>1, <1>4, <1>5

LEMMA IndexCount ==
  ASSUME NEW n \in Nat
  PROVE  IsFiniteSet(1..n) /\ Cardinality(1..n) = n
<1>1. IsFiniteSet(1..n) /\ Cardinality(1..n) = IF 1 > n THEN 0 ELSE n - 1 + 1
  <2>1. 1 \in Int /\ n \in Int
    OBVIOUS
  <2>. QED BY <2>1, FS_Interval
<1>. QED BY <1>1

\* A list of different items of a finite set is no longer than the set
LEMMA NoLonger ==
  ASSUME NEW S, NEW n \in Nat, NEW s \in Seq(S), Distinct(s),
         IsFiniteSet(S), Cardinality(S) = n
  PROVE  Len(s) <= n
<1>1. IsFiniteSet(1..Len(s)) /\ Cardinality(1..Len(s)) = Len(s) /\ Len(s) \in Nat
  <2>1. Len(s) \in Nat
    OBVIOUS
  <2>. QED BY <2>1, IndexCount
<1>2. SUFFICES ASSUME n < Len(s) PROVE FALSE
  BY <1>1
<1>3. s \in [1..Len(s) -> S]
  OBVIOUS
<1>4. \E i, j \in 1..Len(s) : i # j /\ s[i] = s[j]
  BY <1>1, <1>2, <1>3, FS_PigeonHole
<1>. QED BY <1>4 DEF Distinct

\* Something put in front of a list
LEMMA ConsList ==
  ASSUME NEW S, NEW s \in Seq(S), Distinct(s), NEW t \in S, ~Contains(s, t)
  PROVE  LET q == <<t>> \o s
         IN  q \in Seq(S) /\ Distinct(q) /\ \A u : Contains(q, u) <=> Contains(s, u) \/ u = t
<1> DEFINE q == <<t>> \o s
<1>1. q \in Seq(S) /\ Len(q) = Len(s) + 1 /\ Len(s) \in Nat /\ q[1] = t
      /\ \A i \in 1..Len(s) : q[i + 1] = s[i]
  OBVIOUS
<1>2. \A i \in 2..Len(q) : i - 1 \in 1..Len(s) /\ q[i] = s[i - 1]
  <2>1. ASSUME NEW i \in 2..Len(q) PROVE i - 1 \in 1..Len(s) /\ q[i] = s[i - 1]
    <3>1. i - 1 \in 1..Len(s) /\ (i - 1) + 1 = i
      BY <1>1
    <3>. QED BY <1>1, <3>1
  <2>. QED BY <2>1
<1> HIDE DEF q
<1>3. \A i \in 1..Len(s) : s[i] # t
  BY DEF Contains
<1>4. Distinct(q)
  <2>1. ASSUME NEW i \in 1..Len(q), NEW j \in 1..Len(q), q[i] = q[j] PROVE i = j
    <3>1. CASE i = 1 /\ j = 1
      BY <3>1
    <3>2. CASE i = 1 /\ j \in 2..Len(q)
      BY <1>1, <1>2, <1>3, <2>1, <3>2
    <3>3. CASE j = 1 /\ i \in 2..Len(q)
      BY <1>1, <1>2, <1>3, <2>1, <3>3
    <3>4. CASE i \in 2..Len(q) /\ j \in 2..Len(q)
      <4>1. s[i - 1] = s[j - 1] /\ i - 1 \in 1..Len(s) /\ j - 1 \in 1..Len(s)
        BY <1>2, <2>1, <3>4
      <4>2. i - 1 = j - 1
        BY <4>1 DEF Distinct
      <4>. QED BY <4>2
    <3>. QED BY <1>1, <3>1, <3>2, <3>3, <3>4
  <2>. QED BY <2>1 DEF Distinct
<1>5. ASSUME NEW u PROVE Contains(q, u) <=> Contains(s, u) \/ u = t
  <2>1. ASSUME NEW i \in 1..Len(q), q[i] = u PROVE Contains(s, u) \/ u = t
    <3>1. CASE i = 1
      BY <1>1, <2>1, <3>1
    <3>2. CASE i \in 2..Len(q)
      BY <1>2, <2>1, <3>2 DEF Contains
    <3>. QED BY <1>1, <3>1, <3>2
  <2>2. ASSUME NEW i \in 1..Len(s), s[i] = u PROVE Contains(q, u)
    <3>1. i + 1 \in 1..Len(q) /\ q[i + 1] = u
      BY <1>1, <2>2
    <3>. QED BY <3>1 DEF Contains
  <2>3. Contains(q, t)
    BY <1>1 DEF Contains
  <2>. QED BY <2>1, <2>2, <2>3 DEF Contains
<1>. QED BY <1>1, <1>4, <1>5 DEF q

-----------------------------------------------------------------------------
(***************************************************************************)
(* The blocks of the message queue.  Chains of blocks follow next.         *)
(***************************************************************************)

First(w) == IF w = <<>> THEN None ELSE w[1]

\* Each block of w has the one after it as its next, and the last has none
Follow(next, w) ==
  \A i \in 1..Len(w) : next[w[i]] = IF i = Len(w) THEN None ELSE w[i + 1]

LEMMA BlockCount ==
  /\ IsFiniteSet(MqBlocks) /\ Cardinality(MqBlocks) = Len(MqBlock) /\ Len(MqBlock) \in Nat \ {0}
  /\ None \notin MqBlocks
<1>1. MqBlock \in Seq(MqBlocks) /\ Distinct(MqBlock) /\ MqBlock # <<>> /\ None \notin MqBlocks
  BY MessageQueueAssumption
<1>2. Len(MqBlock) \in Nat \ {0} /\ MqBlock \in [1..Len(MqBlock) -> MqBlocks]
  BY <1>1
<1>3. IsFiniteSet(1..Len(MqBlock)) /\ Cardinality(1..Len(MqBlock)) = Len(MqBlock)
  BY <1>2, IndexCount
<1>4. MqBlock \in Bijection(1..Len(MqBlock), MqBlocks)
  <2>1. \A i, j \in 1..Len(MqBlock) : MqBlock[i] = MqBlock[j] => i = j
    BY <1>1 DEF Distinct
  <2>2. \A b \in MqBlocks : \E i \in 1..Len(MqBlock) : MqBlock[i] = b
    BY DEF MqBlocks
  <2>. QED BY <1>2, <2>1, <2>2 DEF Bijection, Injection, Surjection, IsInjective
<1>5. ExistsBijection(1..Len(MqBlock), MqBlocks)
  BY <1>4 DEF ExistsBijection
<1>6. IsFiniteSet(MqBlocks) /\ Cardinality(MqBlocks) = Cardinality(1..Len(MqBlock))
  BY <1>3, <1>5, FS_Bijection
<1>. QED BY <1>1, <1>2, <1>3, <1>6

LEMMA ListFits ==
  ASSUME NEW w \in Seq(MqBlocks), Distinct(w)
  PROVE  Len(w) \in 0..Len(MqBlock)
<1>1. Len(w) <= Len(MqBlock)
  BY BlockCount, NoLonger
<1>. QED BY <1>1, BlockCount

\* Chain finds the list that the blocks are linked to
LEMMA ChainList ==
  ASSUME NEW q, NEW w \in Seq(MqBlocks), Distinct(w), Follow(q.next, w)
  PROVE  Chain(q, First(w)) = w
<1> DEFINE N == Len(MqBlock)
           b == First(w)
           Links(g) == g = [i \in 0..N |-> IF i = 0 THEN b ELSE IF g[i - 1] = None THEN None
                                                              ELSE q.next[g[i - 1]]]
           f == [i \in 0..N |-> IF i < Len(w) THEN w[i + 1] ELSE None]
           at == CHOOSE g : Links(g)
<1>1. Len(w) \in 0..N /\ N \in Nat \ {0}
  BY ListFits, BlockCount
<1>2. \A i \in 1..Len(w) : w[i] \in MqBlocks /\ w[i] # None
  BY BlockCount
<1>3. Links(f)
  <2>1. f[0] = b
    BY <1>1, EmptySeq DEF First
  <2>2. ASSUME NEW i \in 1..N
        PROVE  f[i] = IF f[i - 1] = None THEN None ELSE q.next[f[i - 1]]
    <3>1. i - 1 \in 0..N /\ i \in 0..N /\ (i - 1) + 1 = i
      BY <1>1
    <3>2. CASE i <= Len(w)
      <4>1. f[i - 1] = w[i] /\ i \in 1..Len(w)
        BY <1>1, <3>1, <3>2
      <4>2. f[i] = IF i = Len(w) THEN None ELSE w[i + 1]
        BY <1>1, <3>1, <3>2
      <4> HIDE DEF f
      <4>. QED BY <1>2, <4>1, <4>2 DEF Follow
    <3>3. CASE i > Len(w)
      <4>1. f[i - 1] = None /\ f[i] = None
        BY <1>1, <3>1, <3>3
      <4>. QED BY <4>1
    <3>. QED BY <1>1, <3>2, <3>3
  <2> DEFINE F == [i \in 0..N |-> IF i = 0 THEN b ELSE IF f[i - 1] = None THEN None
                                                              ELSE q.next[f[i - 1]]]
  <2>3. ASSUME NEW i \in 0..N PROVE f[i] = F[i]
    <3>1. CASE i = 0
      BY <2>1, <3>1, <1>1
    <3>2. CASE i # 0
      <4>1. i \in 1..N
        BY <3>2
      <4> HIDE DEF f
      <4>. QED BY <4>1, <2>2
    <3>. QED BY <3>1, <3>2
  <2>4. f = F
    BY <2>3
  <2>. QED BY <2>4
<1>4. Links(at)
  <2> HIDE DEF Links
  <2>. QED BY <1>3
<1> HIDE DEF f
<1>5. ASSUME NEW n \in 0..N PROVE at[n] = f[n]
  <2> HIDE DEF at
  <2> DEFINE B == {i \in 0..n : at[i] = f[i]}
  <2>1. 0 \in B
    BY <1>3, <1>4, <1>1
  <2>2. ASSUME NEW i \in 1..n, i - 1 \in B PROVE i \in B
    <3>1. i \in 0..N /\ i # 0
      BY <1>1
    <3>. QED BY <2>2, <3>1, <1>3, <1>4
  <2>3. n \in B
    <3> HIDE DEF B
    <3>. QED BY <2>1, <2>2, UpTo
  <2>. QED BY <2>3
<1>6. Chain(q, b) = [i \in {j \in 1..N : at[j - 1] # None} |-> at[i - 1]]
  BY DEF Chain
<1> HIDE DEF at, Links, b
<1>7. \A j \in 1..N : j - 1 \in 0..N /\ f[j - 1] = IF j <= Len(w) THEN w[j] ELSE None
  <2>1. \A j \in 1..N : j - 1 \in 0..N /\ (j - 1) + 1 = j /\ (j - 1 < Len(w) <=> j <= Len(w))
    BY <1>1
  <2>. QED BY <2>1 DEF f
<1>8. {j \in 1..N : at[j - 1] # None} = 1..Len(w)
  BY <1>1, <1>2, <1>5, <1>7
<1>9. \A i \in 1..Len(w) : i \in 1..N /\ at[i - 1] = w[i]
  BY <1>1, <1>5, <1>7
<1>10. Chain(q, b) = [i \in 1..Len(w) |-> w[i]]
  BY <1>6, <1>8, <1>9
<1>11. w = [i \in 1..Len(w) |-> w[i]]
  OBVIOUS
<1>. QED BY <1>10, <1>11 DEF b

LEMMA FollowOther ==
  ASSUME NEW next, NEW w \in Seq(MqBlocks), Follow(next, w), NEW b, ~Contains(w, b), NEW x
  PROVE  Follow([next EXCEPT ![b] = x], w)
BY DEF Follow, Contains

LEMMA FollowTail ==
  ASSUME NEW next, NEW w \in Seq(MqBlocks), w # <<>>, Follow(next, w)
  PROVE  Follow(next, Tail(w)) /\ next[w[1]] = First(Tail(w))
<1>1. PICK r : r = Tail(w)
  OBVIOUS
<1>2. Shortened(MqBlocks, r, w) /\ Len(w) \in Nat \ {0}
  BY <1>1, TailItems
<1>3. ASSUME NEW i \in 1..Len(r) PROVE next[r[i]] = IF i = Len(r) THEN None ELSE r[i + 1]
  <2>1. i + 1 \in 1..Len(w) /\ r[i] = w[i + 1] /\ (i = Len(r) <=> i + 1 = Len(w))
    BY <1>2 DEF Shortened
  <2>2. i # Len(r) => r[i + 1] = w[(i + 1) + 1]
    BY <1>2 DEF Shortened
  <2>. QED BY <2>1, <2>2 DEF Follow
<1>4. next[w[1]] = First(r)
  <2>1. 1 \in 1..Len(w) /\ next[w[1]] = IF 1 = Len(w) THEN None ELSE w[1 + 1]
    <3>1. 1 \in 1..Len(w)
      BY <1>2
    <3>. QED BY <3>1 DEF Follow
  <2>2. CASE Len(w) = 1
    <3>1. r = <<>>
      BY <1>2, <2>2, EmptySeq DEF Shortened
    <3>. QED BY <2>1, <2>2, <3>1 DEF First
  <2>3. CASE Len(w) # 1
    <3>1. r # <<>> /\ r[1] = w[1 + 1]
      BY <1>2, <2>3, EmptySeq DEF Shortened
    <3>. QED BY <2>1, <2>3, <3>1 DEF First
  <2>. QED BY <2>2, <2>3
<1>. QED BY <1>1, <1>3, <1>4 DEF Follow

LEMMA FollowCons ==
  ASSUME NEW next \in [MqBlocks -> MqBlocks \cup {None}], NEW w \in Seq(MqBlocks), Follow(next, w),
         NEW b \in MqBlocks, ~Contains(w, b)
  PROVE  Follow([next EXCEPT ![b] = First(w)], <<b>> \o w)
<1>1. PICK z : z = [next EXCEPT ![b] = First(w)]
  OBVIOUS
<1>2. Follow(z, w) /\ z[b] = First(w)
  BY <1>1, FollowOther
<1>3. PICK r : r = <<b>> \o w
  OBVIOUS
<1>4. /\ Len(r) = Len(w) + 1 /\ Len(w) \in Nat /\ r[1] = b
      /\ \A i \in 1..Len(w) : r[i + 1] = w[i]
  BY <1>3
<1>5. z[r[1]] = IF 1 = Len(r) THEN None ELSE r[1 + 1]
  <2>1. CASE w = <<>>
    BY <1>2, <1>4, <2>1 DEF First
  <2>2. CASE w # <<>>
    <3>1. Len(w) # 0 /\ r[1 + 1] = w[1]
      BY <1>4, <2>2, EmptySeq
    <3>. QED BY <1>2, <1>4, <2>2, <3>1 DEF First
  <2>. QED BY <2>1, <2>2
<1>6. ASSUME NEW i \in 2..Len(r) PROVE z[r[i]] = IF i = Len(r) THEN None ELSE r[i + 1]
  <2>1. PICK j \in 1..Len(w) : i = j + 1 /\ (i = Len(r) <=> j = Len(w))
    <3>1. i - 1 \in 1..Len(w) /\ i = (i - 1) + 1 /\ (i = Len(r) <=> i - 1 = Len(w))
      BY <1>4
    <3>. QED BY <3>1
  <2>2. z[w[j]] = IF j = Len(w) THEN None ELSE w[j + 1]
    BY <1>2 DEF Follow
  <2>3. j # Len(w) => j + 1 \in 1..Len(w)
    BY <1>4
  <2>. QED BY <1>4, <2>1, <2>2, <2>3
<1>. QED BY <1>1, <1>3, <1>4, <1>5, <1>6 DEF Follow

\* b is linked behind w, with z for next
Extended(next, z, w, b) ==
  /\ Follow(z, Append(w, b)) /\ z \in [MqBlocks -> MqBlocks \cup {None}]
  /\ \A x \in MqBlocks : x # b /\ ~Contains(w, x) => z[x] = next[x]

LEMMA FollowAppend ==
  ASSUME NEW next \in [MqBlocks -> MqBlocks \cup {None}], NEW w \in Seq(MqBlocks), Distinct(w),
         Follow(next, w), NEW b \in MqBlocks, ~Contains(w, b),
         NEW z, z = IF w # <<>> THEN [next EXCEPT ![w[Len(w)]] = b, ![b] = None]
                                ELSE [next EXCEPT ![b] = None]
  PROVE  Extended(next, z, w, b)
<1>1. PICK r : r = Append(w, b)
  OBVIOUS
<1>2. /\ Len(r) = Len(w) + 1 /\ Len(w) \in Nat /\ r[Len(w) + 1] = b
      /\ \A i \in 1..Len(w) : r[i] = w[i] /\ w[i] \in MqBlocks /\ w[i] # b
  BY <1>1 DEF Contains
<1>3. CASE w = <<>>
  <2>1. z = [next EXCEPT ![b] = None] /\ Len(r) = 1 /\ r[1] = b
    BY <1>2, <1>3
  <2>. QED BY <1>1, <2>1 DEF Follow, Extended
<1>4. CASE w # <<>>
  <2>1. Len(w) \in 1..Len(w) /\ Contains(w, w[Len(w)])
    <3>1. Len(w) \in 1..Len(w)
      BY <1>2, <1>4, EmptySeq
    <3>. QED BY <3>1 DEF Contains
  <2>2. /\ z[b] = None /\ z[w[Len(w)]] = b /\ z \in [MqBlocks -> MqBlocks \cup {None}]
        /\ \A x \in MqBlocks : x # b /\ x # w[Len(w)] => z[x] = next[x]
    BY <1>2, <1>4, <2>1
  <2>3. \A x \in MqBlocks : x # b /\ ~Contains(w, x) => z[x] = next[x]
    BY <2>1, <2>2
  <2>4. ASSUME NEW i \in 1..Len(r) PROVE z[r[i]] = IF i = Len(r) THEN None ELSE r[i + 1]
    <3>1. CASE i = Len(r)
      BY <1>2, <2>2, <3>1
    <3>2. CASE i = Len(w)
      BY <1>2, <2>1, <2>2, <3>2
    <3>3. CASE i \in 1..(Len(w) - 1)
      <4>1. i \in 1..Len(w) /\ i # Len(w) /\ i + 1 \in 1..Len(w) /\ i # Len(r)
        BY <1>2, <3>3
      <4>2. w[i] # w[Len(w)]
        BY <2>1, <4>1 DEF Distinct
      <4>3. z[w[i]] = next[w[i]] /\ next[w[i]] = w[i + 1]
        BY <1>2, <2>2, <4>1, <4>2 DEF Follow
      <4>. QED BY <1>2, <4>1, <4>3
    <3>. QED BY <1>2, <3>1, <3>2, <3>3
  <2>. QED BY <1>1, <2>2, <2>3, <2>4 DEF Follow, Extended
<1>. QED BY <1>3, <1>4

-----------------------------------------------------------------------------
(***************************************************************************)
(* Queue q with the blocks w waiting, in that order, f free, and those of  *)
(* H in the hands of threads.                                              *)
(***************************************************************************)

MqState ==
  [head : MqBlocks \cup {None}, tail : MqBlocks \cup {None}, free : MqBlocks \cup {None},
   entry : Nat, next : [MqBlocks -> MqBlocks \cup {None}],
   data : [MqBlocks -> Message \cup {None}]]

\* Every block is in one place
InOnePlace(w, f, H) ==
  \A b \in MqBlocks :
    /\ Contains(w, b) \/ Contains(f, b) \/ b \in H
    /\ ~(Contains(w, b) /\ Contains(f, b))
    /\ b \in H => ~Contains(w, b) /\ ~Contains(f, b)

BlocksIn(q, H, w, f) ==
  /\ q \in MqState
  /\ w \in Seq(MqBlocks) /\ Distinct(w) /\ Follow(q.next, w)
  /\ f \in Seq(MqBlocks) /\ Distinct(f) /\ Follow(q.next, f) /\ q.free = First(f)
  /\ \A i \in 1..Len(w) : q.data[w[i]] \in Message
  /\ H \subseteq MqBlocks /\ InOnePlace(w, f, H)

Final(w) == IF w = <<>> THEN None ELSE w[Len(w)]

\* msg_queue_head, msg_queue_tail and entry are those of w
QueueOf(q, w) == q.head = First(w) /\ q.tail = Final(w) /\ q.entry = Len(w)

\* What linking a block changes
With(q, z, d, h, l, n) == [q EXCEPT !.next = z, !.data = d, !.head = h, !.entry = n, !.tail = l]

LEMMA MqFields ==
  ASSUME NEW q \in MqState, NEW z \in [MqBlocks -> MqBlocks \cup {None}],
         NEW d \in [MqBlocks -> Message \cup {None}], NEW h \in MqBlocks, NEW l \in MqBlocks,
         NEW n \in Nat,
         NEW r, r = With(q, z, d, h, l, n)
  PROVE  /\ r \in MqState
         /\ r.next = z /\ r.free = q.free /\ r.data = d
         /\ r.head = h /\ r.tail = l /\ r.entry = n
BY DEF MqState, With

\* Only what is linked where counts
LEMMA SameBlocks ==
  ASSUME NEW q, NEW r \in MqState, NEW H, NEW w, NEW f, BlocksIn(q, H, w, f),
         r.next = q.next, r.free = q.free, r.data = q.data
  PROVE  BlocksIn(r, H, w, f)
BY DEF BlocksIn

\* The first block that waits is taken
LEMMA TakeFirst ==
  ASSUME NEW q, NEW H, NEW w, NEW f, BlocksIn(q, H, w, f), w # <<>>
  PROVE  /\ BlocksIn(q, H \cup {w[1]}, Tail(w), f)
         /\ w[1] \in MqBlocks \ H /\ q.next[w[1]] = First(Tail(w))
<1>1. w \in Seq(MqBlocks) /\ Distinct(w) /\ Follow(q.next, w)
  BY DEF BlocksIn
<1>2. PICK r : r = Tail(w)
  OBVIOUS
<1>3. Shortened(MqBlocks, r, w) /\ w[1] \in MqBlocks /\ Len(w) \in Nat \ {0}
  BY <1>1, <1>2, TailItems
<1>4. Distinct(r) /\ \A u : Contains(r, u) <=> Contains(w, u) /\ u # w[1]
  BY <1>1, <1>2, TailList
<1>5. Follow(q.next, r) /\ q.next[w[1]] = First(r)
  BY <1>1, <1>2, FollowTail
<1>6. \A i \in 1..Len(r) : q.data[r[i]] \in Message
  <2>1. \A i \in 1..Len(r) : r[i] = w[i + 1] /\ i + 1 \in 1..Len(w)
    BY <1>3 DEF Shortened
  <2>. QED BY <2>1 DEF BlocksIn
<1>7. Contains(w, w[1])
  BY <1>3 DEF Contains
<1>8. w[1] \notin H /\ InOnePlace(r, f, H \cup {w[1]})
  BY <1>3, <1>4, <1>7 DEF BlocksIn, InOnePlace
<1>. QED BY <1>2, <1>3, <1>4, <1>5, <1>6, <1>8 DEF BlocksIn, Shortened

\* The first free block is taken
LEMMA TakeFree ==
  ASSUME NEW q, NEW H, NEW w, NEW f, BlocksIn(q, H, w, f), q.free # None,
         NEW r, r = [q EXCEPT !.free = q.next[@]]
  PROVE  /\ BlocksIn(r, H \cup {q.free}, w, Tail(f)) /\ q.free \in MqBlocks \ H
         /\ r.data = q.data /\ (QueueOf(q, w) => QueueOf(r, w))
<1>1. f \in Seq(MqBlocks) /\ Distinct(f) /\ Follow(q.next, f) /\ f # <<>> /\ q.free = f[1]
      /\ q \in MqState
  BY DEF BlocksIn, First
<1>2. PICK z : z = Tail(f)
  OBVIOUS
<1>3. Shortened(MqBlocks, z, f) /\ f[1] \in MqBlocks /\ Len(f) \in Nat \ {0}
  BY <1>1, <1>2, TailItems
<1>4. Distinct(z) /\ \A u : Contains(z, u) <=> Contains(f, u) /\ u # f[1]
  BY <1>1, <1>2, TailList
<1>5. Follow(q.next, z) /\ q.next[f[1]] = First(z)
  BY <1>1, <1>2, FollowTail
<1>6. /\ r \in MqState /\ r.free = First(z) /\ r.next = q.next /\ r.data = q.data
      /\ r.head = q.head /\ r.tail = q.tail /\ r.entry = q.entry
  BY <1>1, <1>3, <1>5 DEF MqState
<1>7. Contains(f, f[1])
  BY <1>3 DEF Contains
<1>8. f[1] \notin H /\ InOnePlace(w, z, H \cup {f[1]})
  BY <1>3, <1>4, <1>7 DEF BlocksIn, InOnePlace
<1>9. BlocksIn(r, H \cup {f[1]}, w, z)
  BY <1>3, <1>4, <1>5, <1>6, <1>8 DEF BlocksIn, Shortened
<1>. QED BY <1>1, <1>2, <1>3, <1>6, <1>8, <1>9 DEF QueueOf

\* A block is given back
LEMMA GiveBack ==
  ASSUME NEW q, NEW H, NEW w, NEW f, BlocksIn(q, H, w, f), NEW b \in H
  PROVE  /\ BlocksIn(Released(q, b), H \ {b}, w, <<b>> \o f)
         /\ Released(q, b).data = q.data /\ (QueueOf(q, w) => QueueOf(Released(q, b), w))
<1>1. /\ f \in Seq(MqBlocks) /\ Distinct(f) /\ Follow(q.next, f) /\ q.free = First(f)
      /\ w \in Seq(MqBlocks) /\ Follow(q.next, w) /\ q \in MqState
      /\ b \in MqBlocks /\ ~Contains(w, b) /\ ~Contains(f, b)
  BY DEF BlocksIn, InOnePlace
<1>2. PICK r : r = Released(q, b)
  OBVIOUS
<1>3. q.next \in [MqBlocks -> MqBlocks \cup {None}] /\ q.free \in MqBlocks \cup {None}
  BY <1>1 DEF MqState
<1>4. /\ r \in MqState /\ r.free = b /\ r.next = [q.next EXCEPT ![b] = First(f)] /\ r.data = q.data
      /\ r.head = q.head /\ r.tail = q.tail /\ r.entry = q.entry
  BY <1>1, <1>2, <1>3 DEF MqState, Released
<1>5. PICK z : z = <<b>> \o f
  OBVIOUS
<1>6. z \in Seq(MqBlocks) /\ Distinct(z) /\ \A u : Contains(z, u) <=> Contains(f, u) \/ u = b
  BY <1>1, <1>5, ConsList
<1>7. Follow(r.next, z) /\ Follow(r.next, w)
  <2>1. Follow([q.next EXCEPT ![b] = First(f)], z)
    BY <1>1, <1>3, <1>5, FollowCons
  <2>2. Follow([q.next EXCEPT ![b] = First(f)], w)
    BY <1>1, FollowOther
  <2>. QED BY <1>4, <2>1, <2>2
<1>8. First(z) = b
  BY <1>1, <1>5 DEF First
<1>9. InOnePlace(w, z, H \ {b})
  BY <1>1, <1>6 DEF BlocksIn, InOnePlace
<1>10. BlocksIn(r, H \ {b}, w, z)
  BY <1>4, <1>6, <1>7, <1>8, <1>9 DEF BlocksIn
<1>. QED BY <1>2, <1>4, <1>5, <1>10 DEF QueueOf

\* A message is put last
LEMMA PutLast ==
  ASSUME NEW q, NEW H, NEW w, NEW f, BlocksIn(q, H, w, f), QueueOf(q, w),
         NEW b \in H, NEW v \in Message
  PROVE  /\ BlocksIn(Linked(q, b, v), H \ {b}, Append(w, b), f)
         /\ QueueOf(Linked(q, b, v), Append(w, b))
         /\ Linked(q, b, v).data = [q.data EXCEPT ![b] = v]
<1>1. /\ f \in Seq(MqBlocks) /\ Distinct(f) /\ Follow(q.next, f) /\ q.free = First(f)
      /\ w \in Seq(MqBlocks) /\ Distinct(w) /\ Follow(q.next, w) /\ q \in MqState
      /\ b \in MqBlocks /\ ~Contains(w, b) /\ ~Contains(f, b)
  BY DEF BlocksIn, InOnePlace
<1>2. /\ q.next \in [MqBlocks -> MqBlocks \cup {None}] /\ q.free \in MqBlocks \cup {None}
      /\ q.data \in [MqBlocks -> Message \cup {None}] /\ q.entry = Len(w) /\ Len(w) \in Nat
  BY <1>1 DEF MqState, QueueOf
<1>3. q.tail # None <=> w # <<>>
  <2>1. ASSUME w # <<>> PROVE w[Len(w)] \in MqBlocks
    <3>1. Len(w) \in 1..Len(w)
      BY <1>1, <2>1, EmptySeq
    <3>. QED BY <1>1, <3>1
  <2>. QED BY <2>1, BlockCount DEF QueueOf, Final
<1>4. PICK z : z = IF w # <<>> THEN [q.next EXCEPT ![w[Len(w)]] = b, ![b] = None]
                               ELSE [q.next EXCEPT ![b] = None]
  OBVIOUS
<1>5. PICK y : y = Append(w, b)
  OBVIOUS
<1>6. Follow(z, y) /\ z \in [MqBlocks -> MqBlocks \cup {None}]
      /\ \A x \in MqBlocks : x # b /\ ~Contains(w, x) => z[x] = q.next[x]
  <2>1. Extended(q.next, z, w, b)
    BY <1>1, <1>2, <1>4, FollowAppend
  <2>. QED BY <1>5, <2>1 DEF Extended
<1>7. /\ y \in Seq(MqBlocks) /\ Distinct(y) /\ \A u : Contains(y, u) <=> Contains(w, u) \/ u = b
      /\ y # <<>>
  BY <1>1, <1>5, AppendList
<1>8. Len(y) = Len(w) + 1 /\ y[Len(y)] = b /\ \A i \in 1..Len(w) : y[i] = w[i]
  BY <1>1, <1>5
<1>9. PICK h : h = IF q.head = None THEN b ELSE q.head
  OBVIOUS
<1>10. h = First(y) /\ h \in MqBlocks
  <2>1. CASE w = <<>>
    <3>1. y[1] = b
      BY <1>1, <1>5, <2>1
    <3>. QED BY <1>1, <1>7, <1>9, <2>1, <3>1 DEF QueueOf, First
  <2>2. CASE w # <<>>
    <3>1. 1 \in 1..Len(w) /\ w[1] \in MqBlocks
      BY <1>1, <2>2, EmptySeq
    <3>. QED BY <1>7, <1>8, <1>9, <2>2, <3>1, BlockCount DEF QueueOf, First
  <2>. QED BY <2>1, <2>2
<1>11. PICK r : r = Linked(q, b, v)
  OBVIOUS
<1>18. PICK d : d = [q.data EXCEPT ![b] = v]
  OBVIOUS
<1>19. d \in [MqBlocks -> Message \cup {None}]
  BY <1>1, <1>2, <1>18
<1>12. /\ r \in MqState /\ r.next = z /\ r.free = q.free /\ r.data = d
       /\ r.head = h /\ r.tail = b /\ r.entry = Len(w) + 1
  <2>0. PICK n \in Nat : n = Len(w) + 1
    BY <1>2
  <2>1. r = With(q, z, d, h, b, n)
    <3>1. q.tail # None => q.tail = w[Len(w)]
      BY <1>3 DEF QueueOf, Final
    <3>2. z = IF q.tail # None THEN [q.next EXCEPT ![q.tail] = b, ![b] = None]
                               ELSE [q.next EXCEPT ![b] = None]
      BY <1>3, <1>4, <3>1
    <3>. QED BY <1>1, <1>2, <1>9, <1>11, <1>18, <2>0, <3>2 DEF Linked, MqState, With
  <2>2. q \in MqState /\ h \in MqBlocks /\ b \in MqBlocks /\ n \in Nat
        /\ z \in [MqBlocks -> MqBlocks \cup {None}] /\ d \in [MqBlocks -> Message \cup {None}]
    BY <1>1, <1>6, <1>10, <1>19, <2>0
  <2>3. r \in MqState /\ r.next = z /\ r.free = q.free /\ r.data = d
        /\ r.head = h /\ r.tail = b /\ r.entry = n
    BY <2>1, <2>2, MqFields
  <2>. QED BY <2>0, <2>3
<1>13. Follow(r.next, f)
  <2>1. \A i \in 1..Len(f) : f[i] \in MqBlocks /\ Contains(f, f[i])
    BY <1>1 DEF Contains
  <2>2. \A i \in 1..Len(f) : f[i] # b /\ ~Contains(w, f[i])
    BY <1>1, <2>1 DEF BlocksIn, InOnePlace
  <2>. QED BY <1>1, <1>6, <1>12, <2>1, <2>2 DEF Follow
<1>14. \A i \in 1..Len(y) : r.data[y[i]] \in Message
  <2>1. \A i \in 1..Len(w) : w[i] \in MqBlocks /\ w[i] # b /\ q.data[w[i]] \in Message
    BY <1>1 DEF Contains, BlocksIn
  <2>. QED BY <1>1, <1>2, <1>8, <1>12, <1>18, <2>1
<1>15. InOnePlace(y, f, H \ {b})
  BY <1>1, <1>7 DEF BlocksIn, InOnePlace
<1>16. BlocksIn(r, H \ {b}, y, f)
  BY <1>1, <1>6, <1>7, <1>12, <1>13, <1>14, <1>15 DEF BlocksIn
<1>17. QueueOf(r, y)
  BY <1>7, <1>8, <1>10, <1>12 DEF QueueOf, Final
<1>. QED BY <1>5, <1>11, <1>12, <1>16, <1>17, <1>18

\* ... first
LEMMA PutFirst ==
  ASSUME NEW q, NEW H, NEW w, NEW f, BlocksIn(q, H, w, f), QueueOf(q, w),
         NEW b \in H, NEW v \in Message
  PROVE  /\ BlocksIn(LinkedFirst(q, b, v), H \ {b}, <<b>> \o w, f)
         /\ QueueOf(LinkedFirst(q, b, v), <<b>> \o w)
         /\ LinkedFirst(q, b, v).data = [q.data EXCEPT ![b] = v]
<1>1. /\ f \in Seq(MqBlocks) /\ Distinct(f) /\ Follow(q.next, f) /\ q.free = First(f)
      /\ w \in Seq(MqBlocks) /\ Distinct(w) /\ Follow(q.next, w) /\ q \in MqState
      /\ b \in MqBlocks /\ ~Contains(w, b) /\ ~Contains(f, b)
  BY DEF BlocksIn, InOnePlace
<1>2. /\ q.next \in [MqBlocks -> MqBlocks \cup {None}] /\ q.free \in MqBlocks \cup {None}
      /\ q.data \in [MqBlocks -> Message \cup {None}] /\ q.entry = Len(w) /\ Len(w) \in Nat
      /\ q.head = First(w) /\ q.head \in MqBlocks \cup {None} /\ q.tail \in MqBlocks \cup {None}
  BY <1>1 DEF MqState, QueueOf
<1>3. PICK y : y = <<b>> \o w
  OBVIOUS
<1>4. y \in Seq(MqBlocks) /\ Distinct(y) /\ \A u : Contains(y, u) <=> Contains(w, u) \/ u = b
  BY <1>1, <1>3, ConsList
<1>5. Len(y) = Len(w) + 1 /\ y[1] = b /\ (\A i \in 1..Len(w) : y[i + 1] = w[i]) /\ y # <<>>
  BY <1>1, <1>3
<1>6. PICK z : z = [q.next EXCEPT ![b] = First(w)]
  OBVIOUS
<1>7. Follow(z, y)
  BY <1>1, <1>2, <1>3, <1>6, FollowCons
<1>8. Follow(z, f)
  BY <1>1, <1>6, FollowOther
<1>9. PICK l : l = IF q.tail = None THEN b ELSE q.tail
  OBVIOUS
<1>10. PICK r : r = LinkedFirst(q, b, v)
  OBVIOUS
<1>17. PICK d : d = [q.data EXCEPT ![b] = v]
  OBVIOUS
<1>18. d \in [MqBlocks -> Message \cup {None}]
  BY <1>1, <1>2, <1>17
<1>11. /\ r \in MqState /\ r.next = z /\ r.free = q.free /\ r.data = d
       /\ r.head = b /\ r.tail = l /\ r.entry = Len(w) + 1
  <2>0. PICK n \in Nat : n = Len(w) + 1
    BY <1>2
  <2>1. r = With(q, z, d, b, l, n)
    BY <1>1, <1>2, <1>6, <1>9, <1>10, <1>17, <2>0 DEF LinkedFirst, MqState, With
  <2>3. z \in [MqBlocks -> MqBlocks \cup {None}] /\ l \in MqBlocks
    BY <1>1, <1>2, <1>6, <1>9
  <2>4. r \in MqState /\ r.next = z /\ r.free = q.free /\ r.data = d
        /\ r.head = b /\ r.tail = l /\ r.entry = n
    <3>1. q \in MqState /\ b \in MqBlocks /\ l \in MqBlocks /\ n \in Nat
          /\ z \in [MqBlocks -> MqBlocks \cup {None}] /\ d \in [MqBlocks -> Message \cup {None}]
      BY <1>1, <1>18, <2>0, <2>3
    <3>. QED BY <2>1, <3>1, MqFields
  <2>. QED BY <2>0, <2>4
<1>12. l = Final(y)
  <2>1. CASE w = <<>>
    <3>1. Len(y) = 1 /\ q.tail = None
      BY <1>5, <2>1 DEF QueueOf, Final
    <3>. QED BY <1>5, <1>9, <3>1 DEF Final
  <2>2. CASE w # <<>>
    <3>1. Len(w) \in 1..Len(w)
      BY <1>1, <2>2, EmptySeq
    <3>2. q.tail = w[Len(w)] /\ w[Len(w)] \in MqBlocks /\ y[Len(y)] = w[Len(w)]
      BY <1>1, <1>5, <2>2, <3>1 DEF QueueOf, Final
    <3>. QED BY <1>5, <1>9, <3>2, BlockCount DEF Final
  <2>. QED BY <2>1, <2>2
<1>13. \A i \in 1..Len(y) : r.data[y[i]] \in Message
  <2>1. \A i \in 1..Len(w) : w[i] \in MqBlocks /\ w[i] # b /\ q.data[w[i]] \in Message
    BY <1>1 DEF Contains, BlocksIn
  <2>2. ASSUME NEW i \in 1..Len(y), i # 1 PROVE r.data[y[i]] \in Message
    <3>1. PICK j \in 1..Len(w) : y[i] = w[j]
      <4>1. i - 1 \in 1..Len(w) /\ (i - 1) + 1 = i
        BY <1>2, <1>5, <2>2
      <4>. QED BY <1>5, <4>1
    <3>. QED BY <1>2, <1>11, <1>17, <2>1, <3>1
  <2>. QED BY <1>1, <1>2, <1>5, <1>11, <1>17, <2>2
<1>14. InOnePlace(y, f, H \ {b})
  BY <1>1, <1>4 DEF BlocksIn, InOnePlace
<1>15. BlocksIn(r, H \ {b}, y, f)
  BY <1>1, <1>4, <1>7, <1>8, <1>11, <1>13, <1>14 DEF BlocksIn
<1>16. QueueOf(r, y)
  BY <1>5, <1>11, <1>12 DEF QueueOf, First
<1>. QED BY <1>3, <1>10, <1>11, <1>15, <1>16, <1>17

\* The first message is taken off the queue
LEMMA TakenOff ==
  ASSUME NEW q, NEW H, NEW w, NEW f, BlocksIn(q, H, w, f), QueueOf(q, w), w # <<>>
  PROVE  /\ BlocksIn(Unlinked(q), H \cup {q.head}, Tail(w), f) /\ QueueOf(Unlinked(q), Tail(w))
         /\ q.head = w[1] /\ q.head \in MqBlocks \ H /\ Unlinked(q).data = q.data
<1>1. /\ BlocksIn(q, H \cup {w[1]}, Tail(w), f)
      /\ w[1] \in MqBlocks \ H /\ q.next[w[1]] = First(Tail(w))
  BY TakeFirst
<1>2. q.head = w[1] /\ w \in Seq(MqBlocks) /\ Distinct(w) /\ q \in MqState
  BY DEF BlocksIn, QueueOf, First
<1>3. PICK z : z = Tail(w)
  OBVIOUS
<1>4. Shortened(MqBlocks, z, w) /\ Len(w) \in Nat \ {0}
  BY <1>2, <1>3, TailItems
<1>5. PICK r : r = Unlinked(q)
  OBVIOUS
<1>6. PICK l : l = IF q.tail = q.head THEN None ELSE q.tail
  OBVIOUS
<1>7. l = Final(z)
  <2>1. q.tail = w[Len(w)]
    BY DEF QueueOf, Final
  <2>2. CASE Len(w) = 1
    <3>1. z = <<>>
      BY <1>4, <2>2, EmptySeq DEF Shortened
    <3>. QED BY <1>2, <1>6, <2>1, <2>2, <3>1 DEF Final
  <2>3. CASE Len(w) # 1
    <3>1. Len(z) \in 1..Len(z) /\ z[Len(z)] = w[Len(w)]
      BY <1>4, <2>3 DEF Shortened
    <3>2. w[Len(w)] # w[1]
      <4>1. 1 \in 1..Len(w) /\ Len(w) \in 1..Len(w)
        BY <1>4
      <4>. QED BY <1>2, <2>3, <4>1 DEF Distinct
    <3>3. z # <<>>
      BY <3>1, EmptySeq
    <3>. QED BY <1>2, <1>6, <2>1, <3>1, <3>2, <3>3 DEF Final
  <2>. QED BY <2>2, <2>3
<1>8. /\ r \in MqState /\ r.next = q.next /\ r.free = q.free /\ r.data = q.data
      /\ r.head = First(z) /\ r.tail = l /\ r.entry = Len(z)
  <2>1. First(z) \in MqBlocks \cup {None} /\ l \in MqBlocks \cup {None} /\ Len(z) = q.entry - 1
        /\ Len(z) \in Nat
    BY <1>1, <1>2, <1>3, <1>4, <1>6 DEF MqState, Shortened, QueueOf
  <2>2. r = [q EXCEPT !.head = First(z), !.entry = q.entry - 1, !.tail = l]
    BY <1>1, <1>2, <1>3, <1>5, <1>6 DEF Unlinked, MqState
  <2>. QED BY <1>2, <2>1, <2>2 DEF MqState
<1>9. BlocksIn(r, H \cup {w[1]}, z, f)
  BY <1>1, <1>3, <1>8, SameBlocks
<1>. QED BY <1>1, <1>2, <1>3, <1>5, <1>7, <1>8, <1>9 DEF QueueOf

\* The rounds of rt_mq_control(RT_IPC_CMD_RESET)
LEMMA ReleaseRounds ==
  ASSUME NEW q \in MqState, NEW w \in Seq(MqBlocks)
  PROVE  \E h : /\ FoldLeft(Released, q, w) = h[1..Len(w)] /\ h[1..0] = q
                /\ \A m \in 1..Len(w) : h[1..m] = Released(h[1..(m - 1)], w[m])
<1> DEFINE n == Len(w)
           F == [i \in 1..n |-> [r \in MqState |-> Released(r, w[i])]]
           Run(h) == h = [s \in SUBSET (DOMAIN w) |->
                            IF s = {} THEN q
                            ELSE Released(h[s \ {Max(s)}], w[Max(s)])]
           h == CHOOSE h : Run(h)
<1>1. n \in Nat /\ DOMAIN w = 1..n /\ \A i \in 1..n : w[i] \in MqBlocks
  BY LenProperties, ElementOfSeq
<1>2. FoldLeft(Released, q, w) = h[DOMAIN w]
  BY DEF FoldLeft, MapThenFoldSet
<1> HIDE DEF n
<1>3. ASSUME NEW r \in MqState, NEW b \in MqBlocks PROVE Released(r, b) \in MqState
  BY DEF Released, MqState
<1>4. F \in [1..n -> [MqState -> MqState]]
  BY <1>1, <1>3
<1>5. PICK g \in [SUBSET (1..n) -> MqState] : Follows(g, F, q, n)
  <2> HIDE DEF F, h, Run
  <2>. QED BY <1>1, <1>4, FoldExists
<1>6. ASSUME NEW s \in SUBSET (1..n), s # {}
      PROVE  Max(s) \in 1..n /\ s \ {Max(s)} \in SUBSET (1..n)
  BY <1>1, <1>6, MaxIndex
<1>7. ASSUME NEW s \in SUBSET (1..n)
      PROVE  g[s] = IF s = {} THEN q ELSE Released(g[s \ {Max(s)}], w[Max(s)])
  <2>1. CASE s = {}
    BY <1>5, <2>1 DEF Follows
  <2>2. CASE s # {}
    <3>1. g[s] = F[Max(s)][g[s \ {Max(s)}]]
      <4> HIDE DEF F
      <4>. QED BY <2>2, <1>5 DEF Follows
    <3>2. Max(s) \in 1..n /\ g[s \ {Max(s)}] \in MqState
      BY <2>2, <1>5, <1>6
    <3>. QED BY <2>2, <3>1, <3>2
  <2>. QED BY <2>1, <2>2
<1>8. Run(g)
  BY <1>1, <1>5, <1>7
<1>9. Run(h)
  <2> HIDE DEF Run
  <2>. QED BY <1>8
<1> HIDE DEF h
<1>10. h[1..0] = q
  <2>1. 1..0 = {} /\ {} \in SUBSET (DOMAIN w)
    OBVIOUS
  <2>. QED BY <1>9, <2>1
<1>11. ASSUME NEW m \in 1..n PROVE h[1..m] = Released(h[1..(m - 1)], w[m])
  <2>1. 1..m \in SUBSET (DOMAIN w) /\ 1..m # {} /\ m \in 1..m /\ 1..m \in SUBSET (1..n)
    <3>1. 1..m \in SUBSET (1..n) /\ m \in 1..m
      BY <1>1
    <3>. QED BY <1>1, <3>1
  <2>2. Max(1..m) \in 1..m /\ Max(1..m) >= m
    BY <1>1, <2>1, MaxIndex
  <2>3. Max(1..m) = m /\ (1..m) \ {m} = 1..(m - 1)
    BY <1>1, <2>2
  <2>4. h[1..m] = Released(h[(1..m) \ {Max(1..m)}], w[Max(1..m)])
    BY <1>9, <2>1
  <2>. QED BY <2>3, <2>4
<1>. QED BY <1>1, <1>2, <1>10, <1>11 DEF n

LEMMA WholeList ==
  ASSUME NEW S, NEW w \in Seq(S)
  PROVE  SubSeq(w, 1, Len(w)) = w
<1>1. PICK z : z = SubSeq(w, 1, Len(w))
  OBVIOUS
<1>2. Len(w) \in Nat
  OBVIOUS
<1>3. z \in Seq(S) /\ Len(z) = Len(w) /\ \A i \in 1..Len(z) : z[i] = w[1 + i - 1]
  BY <1>1, <1>2, Part
<1>4. \A i \in 1..Len(z) : z[i] = w[i]
  BY <1>2, <1>3
<1>. QED BY <1>1, <1>3, <1>4, SameSequence

LEMMA TailOfPart ==
  ASSUME NEW S, NEW w \in Seq(S), NEW m \in 1..Len(w)
  PROVE  LET z == SubSeq(w, m, Len(w))
         IN  z # <<>> /\ z[1] = w[m] /\ Tail(z) = SubSeq(w, m + 1, Len(w))
<1>1. PICK z : z = SubSeq(w, m, Len(w))
  OBVIOUS
<1>2. PICK y : y = SubSeq(w, m + 1, Len(w))
  OBVIOUS
<1>3. Len(w) \in Nat /\ m \in Nat \ {0}
  OBVIOUS
<1>4. /\ z \in Seq(S) /\ Len(z) = Len(w) - m + 1
      /\ \A i \in 1..Len(z) : z[i] = w[m + i - 1]
  BY <1>1, <1>3, Part
<1>5. /\ y \in Seq(S) /\ Len(y) = Len(w) - m
      /\ \A i \in 1..Len(y) : y[i] = w[m + 1 + i - 1]
  <2>1. m + 1 \in Nat \ {0} /\ Len(w) \in Int /\ Len(w) <= Len(w)
    BY <1>3
  <2>2. /\ y \in Seq(S) /\ Len(y) = IF m + 1 <= Len(w) THEN Len(w) - (m + 1) + 1 ELSE 0
        /\ \A i \in 1..Len(y) : y[i] = w[m + 1 + i - 1]
    BY <1>2, <2>1, Part
  <2>3. Len(y) = Len(w) - m
    BY <1>3, <2>2
  <2>. QED BY <2>2, <2>3
<1>6. z # <<>> /\ z[1] = w[m]
  BY <1>3, <1>4, EmptySeq
<1>7. PICK r : r = Tail(z)
  OBVIOUS
<1>8. Shortened(S, r, z)
  BY <1>4, <1>6, <1>7, TailItems
<1>9. r = y
  <2>1. r \in Seq(S) /\ Len(r) = Len(y)
    BY <1>3, <1>4, <1>5, <1>8 DEF Shortened
  <2>2. ASSUME NEW i \in 1..Len(r) PROVE r[i] = y[i]
    <3>1. i + 1 \in 1..Len(z) /\ r[i] = z[i + 1] /\ z[i + 1] = w[m + (i + 1) - 1]
      BY <1>3, <1>4, <1>5, <1>8, <2>1 DEF Shortened
    <3>2. m + (i + 1) - 1 = m + 1 + i - 1
      BY <1>3
    <3>. QED BY <1>5, <2>1, <3>1, <3>2
  <2>. QED BY <1>5, <2>1, <2>2, SameSequence
<1>. QED BY <1>1, <1>2, <1>6, <1>7, <1>9

\* A reset frees the blocks one by one
LEMMA AllReleased ==
  ASSUME NEW q, NEW H, NEW w, NEW f, BlocksIn(q, H, w, f)
  PROVE  \E g : /\ BlocksIn(FoldLeft(Released, q, w), H, <<>>, g)
                /\ FoldLeft(Released, q, w).data = q.data
<1>1. q \in MqState /\ w \in Seq(MqBlocks) /\ Len(w) \in Nat
  BY DEF BlocksIn
<1>2. PICK h : /\ FoldLeft(Released, q, w) = h[1..Len(w)] /\ h[1..0] = q
               /\ \A m \in 1..Len(w) : h[1..m] = Released(h[1..(m - 1)], w[m])
  BY <1>1, ReleaseRounds
<1> DEFINE n == Len(w)
           Rest(i) == SubSeq(w, i + 1, n)
           Good(i) == \E g : BlocksIn(h[1..i], H, Rest(i), g) /\ h[1..i].data = q.data
           B == {i \in 0..n : Good(i)}
<1>3. 0 \in B
  <2>1. 0 + 1 = 1 /\ 0 \in 0..n
    BY <1>1
  <2>2. Rest(0) = w
    BY <1>1, <2>1, WholeList
  <2>3. Good(0)
    BY <1>2, <2>2
  <2> HIDE DEF Good
  <2>. QED BY <2>1, <2>3
<1>4. ASSUME NEW m \in 1..n, m - 1 \in B PROVE m \in B
  <2>1. (m - 1) + 1 = m
    BY <1>1
  <2>2. PICK g : BlocksIn(h[1..(m - 1)], H, SubSeq(w, m, n), g) /\ h[1..(m - 1)].data = q.data
    BY <1>4, <2>1
  <2>3. PICK z : z = SubSeq(w, m, n)
    OBVIOUS
  <2>4. z # <<>> /\ z[1] = w[m] /\ Tail(z) = Rest(m)
    BY <1>1, <2>3, TailOfPart
  <2>5. PICK r : r = h[1..(m - 1)]
    OBVIOUS
  <2>6. BlocksIn(r, H \cup {w[m]}, Tail(z), g) /\ w[m] \notin H
    <3>1. BlocksIn(r, H, z, g)
      BY <2>2, <2>3, <2>5
    <3>2. BlocksIn(r, H \cup {z[1]}, Tail(z), g) /\ z[1] \in MqBlocks \ H
      BY <2>4, <3>1, TakeFirst
    <3>. QED BY <2>4, <3>2
  <2>7. /\ BlocksIn(Released(r, w[m]), (H \cup {w[m]}) \ {w[m]}, Tail(z), <<w[m]>> \o g)
        /\ Released(r, w[m]).data = r.data
    BY <2>6, GiveBack
  <2>8. (H \cup {w[m]}) \ {w[m]} = H
    BY <2>6
  <2>9. Good(m)
    BY <1>2, <2>2, <2>4, <2>5, <2>7, <2>8
  <2>. QED BY <1>1, <2>9
<1>5. n \in B
  <2> HIDE DEF B, n
  <2>. QED BY <1>1, <1>3, <1>4, UpTo DEF n
<1>6. Rest(n) = <<>>
  <2>1. n + 1 \in Nat \ {0} /\ n <= Len(w) /\ n \in Int
    BY <1>1
  <2>2. Rest(n) \in Seq(MqBlocks) /\ Len(Rest(n)) = 0
    BY <1>1, <2>1, Part
  <2>. QED BY <2>2, EmptySeq
<1>. QED BY <1>2, <1>5, <1>6

-----------------------------------------------------------------------------
(***************************************************************************)
(* The values along a chain of blocks.                                     *)
(***************************************************************************)
Values(d, w) == [i \in 1..Len(w) |-> d[w[i]]]

LEMMA ValuesAre ==
  ASSUME NEW d \in [MqBlocks -> Message \cup {None}], NEW w \in Seq(MqBlocks),
         \A i \in 1..Len(w) : d[w[i]] \in Message
  PROVE  /\ Values(d, w) \in Seq(Message) /\ Len(Values(d, w)) = Len(w)
         /\ \A i \in 1..Len(w) : Values(d, w)[i] = d[w[i]]
BY DEF Values

LEMMA ValuesAppend ==
  ASSUME NEW d \in [MqBlocks -> Message \cup {None}], NEW w \in Seq(MqBlocks),
         \A i \in 1..Len(w) : d[w[i]] \in Message,
         NEW b \in MqBlocks, ~Contains(w, b), NEW v \in Message
  PROVE  Values([d EXCEPT ![b] = v], Append(w, b)) = Append(Values(d, w), v)
<1>1. PICK e : e = [d EXCEPT ![b] = v]
  OBVIOUS
<1>2. PICK z : z = Append(w, b)
  OBVIOUS
<1>3. PICK s : s = Values(d, w)
  OBVIOUS
<1>4. PICK y : y = Append(s, v)
  OBVIOUS
<1>5. s \in Seq(Message) /\ Len(s) = Len(w) /\ \A i \in 1..Len(w) : s[i] = d[w[i]]
  BY <1>3, ValuesAre
<1>6. /\ y \in Seq(Message) /\ Len(y) = Len(w) + 1 /\ y[Len(w) + 1] = v
      /\ \A i \in 1..Len(w) : y[i] = s[i]
  BY <1>4, <1>5
<1>7. /\ z \in Seq(MqBlocks) /\ Len(z) = Len(w) + 1 /\ z[Len(w) + 1] = b
      /\ \A i \in 1..Len(w) : z[i] = w[i] /\ w[i] # b /\ w[i] \in MqBlocks
  BY <1>2 DEF Contains
<1>8. e[b] = v /\ \A x \in MqBlocks : x # b => e[x] = d[x]
  BY <1>1
<1>9. \A i \in 1..Len(z) : e[z[i]] = y[i]
  <2>1. \A i \in 1..Len(z) : i \in 1..Len(w) \/ i = Len(w) + 1
    BY <1>7
  <2>. QED BY <1>5, <1>6, <1>7, <1>8, <2>1
<1>10. y = [i \in 1..Len(z) |-> y[i]]
  BY <1>6, <1>7
<1>11. Values(e, z) = y
  BY <1>9, <1>10 DEF Values
<1>. QED BY <1>1, <1>2, <1>3, <1>4, <1>11

LEMMA ValuesCons ==
  ASSUME NEW d \in [MqBlocks -> Message \cup {None}], NEW w \in Seq(MqBlocks),
         \A i \in 1..Len(w) : d[w[i]] \in Message,
         NEW b \in MqBlocks, ~Contains(w, b), NEW v \in Message
  PROVE  Values([d EXCEPT ![b] = v], <<b>> \o w) = <<v>> \o Values(d, w)
<1>1. PICK e : e = [d EXCEPT ![b] = v]
  OBVIOUS
<1>2. PICK z : z = <<b>> \o w
  OBVIOUS
<1>3. PICK s : s = Values(d, w)
  OBVIOUS
<1>4. PICK y : y = <<v>> \o s
  OBVIOUS
<1>5. s \in Seq(Message) /\ Len(s) = Len(w) /\ \A i \in 1..Len(w) : s[i] = d[w[i]]
  BY <1>3, ValuesAre
<1>6. /\ y \in Seq(Message) /\ Len(y) = Len(w) + 1 /\ y[1] = v
      /\ \A i \in 1..Len(w) : y[i + 1] = s[i]
  BY <1>4, <1>5
<1>7. /\ z \in Seq(MqBlocks) /\ Len(z) = Len(w) + 1 /\ z[1] = b
      /\ \A i \in 1..Len(w) : z[i + 1] = w[i] /\ w[i] # b /\ w[i] \in MqBlocks
  BY <1>2 DEF Contains
<1>8. e[b] = v /\ \A x \in MqBlocks : x # b => e[x] = d[x]
  BY <1>1
<1>9. \A i \in 1..Len(z) : e[z[i]] = y[i]
  <2>1. ASSUME NEW i \in 1..Len(z), i # 1 PROVE e[z[i]] = y[i]
    <3>1. i - 1 \in 1..Len(w) /\ (i - 1) + 1 = i
      BY <1>7, <2>1
    <3>2. z[i] = w[i - 1] /\ y[i] = s[i - 1] /\ s[i - 1] = d[w[i - 1]] /\ w[i - 1] # b
          /\ w[i - 1] \in MqBlocks
      BY <1>5, <1>6, <1>7, <3>1
    <3>. QED BY <1>8, <3>2
  <2>. QED BY <1>6, <1>7, <1>8, <2>1
<1>10. y = [i \in 1..Len(z) |-> y[i]]
  BY <1>6, <1>7
<1>11. Values(e, z) = y
  BY <1>9, <1>10 DEF Values
<1>. QED BY <1>1, <1>2, <1>3, <1>4, <1>11

LEMMA ValuesTail ==
  ASSUME NEW d \in [MqBlocks -> Message \cup {None}], NEW w \in Seq(MqBlocks), w # <<>>,
         \A i \in 1..Len(w) : d[w[i]] \in Message
  PROVE  /\ Values(d, Tail(w)) = Tail(Values(d, w))
         /\ Values(d, w) # <<>> /\ Head(Values(d, w)) = d[w[1]]
<1>1. PICK z : z = Tail(w)
  OBVIOUS
<1>2. PICK s : s = Values(d, w)
  OBVIOUS
<1>3. PICK y : y = Tail(s)
  OBVIOUS
<1>4. s \in Seq(Message) /\ Len(s) = Len(w) /\ \A i \in 1..Len(w) : s[i] = d[w[i]]
  BY <1>2, ValuesAre
<1>5. Shortened(MqBlocks, z, w) /\ Len(w) \in Nat \ {0}
  BY <1>1, TailItems
<1>6. s # <<>>
  BY <1>4, <1>5, EmptySeq
<1>7. Shortened(Message, y, s)
  BY <1>3, <1>4, <1>6, TailItems
<1>8. Len(y) = Len(z) /\ \A i \in 1..Len(z) : d[z[i]] = y[i]
  BY <1>4, <1>5, <1>7 DEF Shortened
<1>9. y = [i \in 1..Len(z) |-> y[i]]
  BY <1>7, <1>8 DEF Shortened
<1>10. Values(d, z) = y
  BY <1>8, <1>9 DEF Values
<1>11. Head(s) = s[1] /\ 1 \in 1..Len(w)
  BY <1>4, <1>5, <1>6
<1>. QED BY <1>1, <1>2, <1>3, <1>4, <1>6, <1>10, <1>11

-----------------------------------------------------------------------------
(***************************************************************************)
(* The rings of the mailbox and of the data queue.                         *)
(***************************************************************************)

\* The ring p of n places holds w from place o on
InRing(S, n, p, o, w) ==
  /\ n \in Nat \ {0} /\ o \in 0..(n - 1)
  /\ p \in [0..(n - 1) -> S \cup {None}]
  /\ w \in Seq(S) /\ Len(w) <= n
  /\ \A i \in 1..Len(w) : p[Nth(n, o, i)] = w[i]

LEMMA NthPlace ==
  ASSUME NEW n \in Nat \ {0}, NEW o \in 0..(n - 1), NEW i \in 1..(n + 1)
  PROVE  /\ Nth(n, o, i) \in 0..(n - 1)
         /\ \A j \in 1..n : i <= n /\ i # j => Nth(n, o, i) # Nth(n, o, j)
BY DEF Nth

LEMMA NthSecond ==
  ASSUME NEW n \in Nat \ {0}, NEW o \in 0..(n - 1), NEW i \in 1..n
  PROVE  /\ Nth(n, Nth(n, o, 2), i) = Nth(n, o, i + 1)
         /\ Nth(n, o, 1) = o
         /\ Nth(n, o, 2) = IF o + 1 = n THEN 0 ELSE o + 1
BY DEF Nth

LEMMA NthNext ==
  ASSUME NEW n \in Nat \ {0}, NEW o \in 0..(n - 1), NEW i \in 1..n
  PROVE  Nth(n, o, i + 1) = IF Nth(n, o, i) + 1 = n THEN 0 ELSE Nth(n, o, i) + 1
BY DEF Nth

LEMMA RingEmpty ==
  ASSUME NEW S, NEW n \in Nat \ {0}, NEW o \in 0..(n - 1), NEW p \in [0..(n - 1) -> S \cup {None}]
  PROVE  InRing(S, n, p, o, <<>>)
<1>1. <<>> \in Seq(S) /\ Len(<<>>) = 0
  BY EmptySeq
<1>. QED BY <1>1 DEF InRing

LEMMA RingPut ==
  ASSUME NEW S, NEW n, NEW p, NEW o, NEW w, InRing(S, n, p, o, w), Len(w) < n, NEW v \in S,
         NEW x, x = Nth(n, o, Len(w) + 1)
  PROVE  InRing(S, n, [p EXCEPT ![x] = v], o, Append(w, v)) /\ x \in 0..(n - 1)
<1>1. /\ n \in Nat \ {0} /\ o \in 0..(n - 1) /\ p \in [0..(n - 1) -> S \cup {None}]
      /\ w \in Seq(S) /\ Len(w) \in Nat /\ Len(w) + 1 \in 1..n
      /\ \A i \in 1..Len(w) : p[Nth(n, o, i)] = w[i]
  BY DEF InRing
<1>2. PICK y : y = Append(w, v)
  OBVIOUS
<1>3. PICK l \in Nat : l = Len(w)
  BY <1>1
<1>4. /\ y \in Seq(S) /\ Len(y) = l + 1 /\ y[l + 1] = v /\ \A i \in 1..l : y[i] = w[i]
  BY <1>1, <1>2, <1>3
<1>5. x \in 0..(n - 1) /\ \A i \in 1..l : Nth(n, o, i) \in 0..(n - 1) /\ Nth(n, o, i) # x
  <2>1. l + 1 \in 1..n /\ l + 1 \in 1..(n + 1)
    BY <1>1, <1>3
  <2>2. ASSUME NEW i \in 1..l PROVE Nth(n, o, i) \in 0..(n - 1) /\ Nth(n, o, i) # x
    <3>1. i \in 1..(n + 1) /\ i <= n /\ i # l + 1
      BY <1>1, <2>1
    <3>. QED BY <1>1, <1>3, <2>1, <3>1, NthPlace
  <2>. QED BY <1>1, <1>3, <2>1, <2>2, NthPlace
<1>6. PICK g : g = [p EXCEPT ![x] = v]
  OBVIOUS
<1>7. /\ g \in [0..(n - 1) -> S \cup {None}] /\ g[x] = v
      /\ \A z \in 0..(n - 1) : z # x => g[z] = p[z]
  BY <1>1, <1>5, <1>6
<1>8. ASSUME NEW i \in 1..Len(y) PROVE g[Nth(n, o, i)] = y[i]
  <2>1. CASE i = l + 1
    BY <1>3, <1>4, <1>7, <2>1
  <2>2. CASE i \in 1..l
    BY <1>1, <1>3, <1>4, <1>5, <1>7, <2>2
  <2>. QED BY <1>4, <2>1, <2>2
<1>9. InRing(S, n, g, o, y)
  BY <1>1, <1>3, <1>4, <1>7, <1>8 DEF InRing
<1>. QED BY <1>2, <1>5, <1>6, <1>9

LEMMA RingGet ==
  ASSUME NEW S, NEW n, NEW p, NEW o, NEW w, InRing(S, n, p, o, w), w # <<>>
  PROVE  /\ InRing(S, n, p, Nth(n, o, 2), Tail(w)) /\ Len(Tail(w)) = Len(w) - 1
         /\ Head(w) = p[o] /\ Head(w) \in S
<1>1. /\ n \in Nat \ {0} /\ o \in 0..(n - 1) /\ p \in [0..(n - 1) -> S \cup {None}]
      /\ w \in Seq(S) /\ Len(w) <= n
      /\ \A i \in 1..Len(w) : p[Nth(n, o, i)] = w[i]
  BY DEF InRing
<1>2. PICK z : z = Tail(w)
  OBVIOUS
<1>3. Shortened(S, z, w) /\ w[1] \in S /\ Len(w) \in Nat \ {0}
  BY <1>1, <1>2, TailItems
<1>4. z \in Seq(S) /\ Len(z) = Len(w) - 1 /\ \A i \in 1..Len(z) : z[i] = w[i + 1] /\ i + 1 \in 1..Len(w)
  BY <1>3 DEF Shortened
<1>5. Head(w) = w[1] /\ w[1] = p[o]
  <2>1. 1 \in 1..Len(w) /\ 1 \in 1..n
    BY <1>1, <1>3
  <2>2. Nth(n, o, 1) = o
    BY <1>1, <2>1, NthSecond
  <2>. QED BY <1>1, <2>1, <2>2
<1>6. Nth(n, o, 2) \in 0..(n - 1)
  <2>1. 2 \in 1..(n + 1)
    BY <1>1
  <2>. QED BY <1>1, <2>1, NthPlace
<1>7. ASSUME NEW i \in 1..Len(z) PROVE p[Nth(n, Nth(n, o, 2), i)] = z[i]
  <2>1. i \in 1..n
    BY <1>1, <1>3, <1>4
  <2>2. Nth(n, Nth(n, o, 2), i) = Nth(n, o, i + 1)
    BY <1>1, <2>1, NthSecond
  <2>. QED BY <1>1, <1>4, <2>2
<1>8. InRing(S, n, p, Nth(n, o, 2), z)
  BY <1>1, <1>3, <1>4, <1>6, <1>7 DEF InRing
<1>. QED BY <1>2, <1>3, <1>4, <1>5, <1>8

LEMMA RingReads ==
  ASSUME NEW S, NEW n, NEW p, NEW o, NEW w, InRing(S, n, p, o, w)
  PROVE  [i \in 1..Len(w) |-> p[(o + i - 1) % n]] = w
<1>1. /\ n \in Nat \ {0} /\ o \in 0..(n - 1) /\ w \in Seq(S) /\ Len(w) <= n /\ Len(w) \in Nat
      /\ \A i \in 1..Len(w) : p[Nth(n, o, i)] = w[i]
  BY DEF InRing
<1>2. ASSUME NEW i \in 1..Len(w) PROVE p[(o + i - 1) % n] = w[i]
  <2>1. i \in 1..n
    BY <1>1
  <2>2. (o + i - 1) % n = Nth(n, o, i)
    BY <1>1, <2>1, NthMod
  <2>. QED BY <1>1, <2>2
<1>3. w = [i \in 1..Len(w) |-> w[i]]
  BY <1>1
<1>. QED BY <1>2, <1>3

\* Indices that only grow
LEMMA Multiple ==
  ASSUME NEW n \in Nat \ {0}, NEW q \in Nat, NEW s \in 0..(n - 1)
  PROVE  (n * q + s) % n = s
OBVIOUS

LEMMA Quotient ==
  ASSUME NEW n \in Nat \ {0}, NEW x \in Nat
  PROVE  (x % n) \in 0..(n - 1) /\ \E q \in Nat : x = n * q + (x % n)
<1>1. (x % n) \in 0..(n - 1) /\ x \div n \in Nat
  OBVIOUS
<1>2. x = n * (x \div n) + (x % n)
  OBVIOUS
<1>. QED BY <1>1, <1>2

LEMMA NthGrows ==
  ASSUME NEW n \in Nat \ {0}, NEW x \in Nat, NEW i \in 1..(n + 1)
  PROVE  (x + i - 1) % n = Nth(n, x % n, i)
<1>1. PICK q \in Nat : x = n * q + (x % n)
  BY Quotient
<1>2. PICK r \in 0..(n - 1) : r = x % n
  BY Quotient
<1>3. CASE r + i - 1 < n
  <2>1. PICK s \in 0..(n - 1) : s = r + i - 1
    BY <1>3
  <2>2. x + i - 1 = n * q + s
    BY <1>1, <1>2, <2>1
  <2>3. (n * q + s) % n = s
    BY Multiple
  <2>4. Nth(n, r, i) = s
    BY <1>3, <2>1 DEF Nth
  <2>. QED BY <1>2, <2>2, <2>3, <2>4
<1>4. CASE r + i - 1 >= n
  <2>1. PICK s \in 0..(n - 1) : s = r + i - 1 - n
    BY <1>4
  <2>2. PICK m \in Nat : m = q + 1
    OBVIOUS
  <2>3. n * m = n * q + n
    BY <2>2
  <2>4. x + i - 1 = n * m + s
    BY <1>1, <1>2, <2>1, <2>3
  <2>5. (n * m + s) % n = s
    BY Multiple
  <2>6. Nth(n, r, i) = s
    BY <1>4, <2>1 DEF Nth
  <2>. QED BY <1>2, <2>4, <2>5, <2>6
<1>. QED BY <1>2, <1>3, <1>4

-----------------------------------------------------------------------------
(***************************************************************************)
(* What one step does to the kernel.                                       *)
(***************************************************************************)

\* The kernel states
Kernel ==
  [cur : Thread, stat : [Thread -> Stat], prio : [Thread -> Prio],
   ready : [Prio -> Seq(Thread)], table : SUBSET Prio,
   group : SUBSET (0..31), wait : [WaitList -> Seq(Thread)],
   timer : [Thread -> BOOLEAN], err : [Thread -> Error], lock : Nat]

\* From e to r some waiting threads are made ready, some of them with an error, and nothing
\* else happens to a thread
Wakes(e, r) ==
  /\ KernelInv(r, {})
  /\ r.cur = e.cur /\ r.lock = e.lock /\ r.prio = e.prio
  /\ \A u \in Thread : r.stat[u] = e.stat[u] \/ (e.stat[u] = "suspend" /\ r.stat[u] = "ready")
  /\ \A u \in Thread : e.stat[u] = "ready" \/ r.stat[u] = "suspend" => r.err[u] = e.err[u]
  /\ \A w \in WaitList : \A u : Contains(r.wait[w], u) => Contains(e.wait[w], u)

\* From e to x the error of t may be set, and nothing else
Readies(e, x, t) ==
  /\ KernelInv(x, {})
  /\ x.cur = e.cur /\ x.lock = e.lock /\ x.prio = e.prio /\ x.stat = e.stat /\ x.wait = e.wait
  /\ \A u \in Thread \ {t} : x.err[u] = e.err[u]

\* From e to r the ready thread t is suspended, on the lists W if on any; but for the lock of
\* a pipe, whose waiters get no error, its error is reset before
Sleeps(e, r, t, W) ==
  /\ KernelInv(r, {})
  /\ r.cur = e.cur /\ r.lock = e.lock /\ r.prio = e.prio
  /\ r.stat = [e.stat EXCEPT ![t] = "suspend"]
  /\ \A u \in Thread \ {t} : r.err[u] = e.err[u]
  /\ \A w \in W : w # "pp" => r.err[t] = "EOK"
  /\ \A w \in WaitList : \A u :
       Contains(r.wait[w], u) => Contains(e.wait[w], u) \/ (u = t /\ w \in W)

LEMMA NothingWakes ==
  ASSUME NEW e, KernelInv(e, {})
  PROVE  Wakes(e, e)
BY DEF Wakes

LEMMA NothingReadies ==
  ASSUME NEW e, KernelInv(e, {}), NEW t
  PROVE  Readies(e, e, t)
BY DEF Readies

\* rt_thread_resume, which refuses a thread that is not suspended
LEMMA ResumeWakes ==
  ASSUME NEW e, NEW r, Wakes(e, r), NEW t \in Thread
  PROVE  Wakes(e, Resume(r, t))
<1>1. CASE r.stat[t] = "suspend"
  <2>1. PICK z : z = Resume(r, t)
    OBVIOUS
  <2>2. KernelInv(z, {}) /\ Woken(r, z, t)
    BY <1>1, <2>1, ResumeKeeps DEF Wakes
  <2>3. r.stat \in [Thread -> Stat]
    BY DEF Wakes, KernelInv, KernelType
  <2>4. \A u \in Thread : z.stat[u] = r.stat[u] \/ (u = t /\ z.stat[u] = "ready")
    BY <2>2, <2>3 DEF Woken
  <2>5. \A w \in WaitList : \A u : Contains(z.wait[w], u) => Contains(r.wait[w], u)
    BY <2>2 DEF Woken
  <2>6. z.cur = r.cur /\ z.lock = r.lock /\ z.prio = r.prio /\ z.err = r.err
    BY <2>2 DEF Woken
  <2>7. \A u \in Thread : e.stat[u] = "ready" \/ z.stat[u] = "suspend" => z.err[u] = e.err[u]
    BY <2>4, <2>6 DEF Wakes
  <2>. QED BY <1>1, <2>1, <2>2, <2>4, <2>5, <2>6, <2>7 DEF Wakes
<1>2. CASE r.stat[t] # "suspend"
  BY <1>2 DEF Resume
<1>. QED BY <1>1, <1>2

\* An assignment to thread->error is all that happens
LEMMA ErrorReadies ==
  ASSUME NEW e, KernelInv(e, {}), NEW t \in Thread, NEW x \in Error
  PROVE  Readies(e, [e EXCEPT !.err[t] = x], t) /\ [e EXCEPT !.err[t] = x].err[t] = x
<1>1. PICK z : z = [e EXCEPT !.err[t] = x]
  OBVIOUS
<1>2. KernelInv(z, {}) /\ z = [e EXCEPT !.err = [e.err EXCEPT ![t] = x]]
  BY <1>1, ErrorKeeps
<1>3. KernelType(e)
  BY DEF KernelInv
<1>4. /\ z.cur = e.cur /\ z.lock = e.lock /\ z.prio = e.prio /\ z.stat = e.stat /\ z.wait = e.wait
      /\ z.err[t] = x /\ \A u \in Thread \ {t} : z.err[u] = e.err[u]
  BY <1>2, <1>3 DEF KernelType
<1>. QED BY <1>1, <1>2, <1>4 DEF Readies

\* The first of a suspend list is a thread
LEMMA FirstWaiter ==
  ASSUME NEW e, KernelInv(e, {}), NEW w \in WaitList, e.wait[w] # <<>>
  PROVE  Head(e.wait[w]) \in Thread /\ Contains(e.wait[w], Head(e.wait[w]))
<1>1. e.wait[w] \in Seq(Thread)
  BY DEF KernelInv, KernelType
<1>. QED BY <1>1, HeadList

\* rt_ipc_list_resume where a list has a thread
LEMMA WakeOneWakes ==
  ASSUME NEW e, NEW r, Wakes(e, r), NEW w \in WaitList
  PROVE  Wakes(e, WakeOne(r, w))
<1>1. CASE r.wait[w] # <<>>
  <2>1. Head(r.wait[w]) \in Thread
    BY <1>1, FirstWaiter DEF Wakes
  <2>2. WakeOne(r, w) = Resume(r, Head(r.wait[w]))
    BY <1>1 DEF WakeOne, ResumeFirst
  <2>. QED BY <2>1, <2>2, ResumeWakes
<1>2. CASE r.wait[w] = <<>>
  BY <1>2 DEF WakeOne
<1>. QED BY <1>1, <1>2

\* No thread is closed: the threads of a system of services do not end
NoneClosed(e) == \A u \in Thread : e.stat[u] # "close"

LEMMA WakesOpen ==
  ASSUME NEW e, NEW r, Wakes(e, r), NoneClosed(e)
  PROVE  NoneClosed(r)
BY DEF Wakes, NoneClosed

\* ... so that who is on a list is suspended
LEMMA WaiterSuspended ==
  ASSUME NEW e, KernelInv(e, {}), NoneClosed(e), NEW w \in WaitList, NEW u \in Thread,
         Contains(e.wait[w], u)
  PROVE  e.stat[u] = "suspend"
BY DEF KernelInv, WaitListsExact, NoneClosed

\* A suspended thread is given an error and made ready
LEMMA WokenWakes ==
  ASSUME NEW e, NEW r, Wakes(e, r), NEW t \in Thread, r.stat[t] = "suspend",
         NEW y, Readies(r, y, t), NEW z, KernelInv(z, {}), Woken(y, z, t)
  PROVE  Wakes(e, z) /\ z.stat = [r.stat EXCEPT ![t] = "ready"]
<1>1. r.stat \in [Thread -> Stat]
  BY DEF Wakes, KernelInv, KernelType
<1>2. z.stat = [r.stat EXCEPT ![t] = "ready"]
  BY DEF Woken, Readies
<1>3. \A u \in Thread : z.stat[u] = e.stat[u] \/ (e.stat[u] = "suspend" /\ z.stat[u] = "ready")
  BY <1>1, <1>2 DEF Wakes
<1>4. ASSUME NEW u \in Thread, e.stat[u] = "ready" \/ z.stat[u] = "suspend"
      PROVE  z.err[u] = e.err[u]
  <2>1. u # t
    BY <1>1, <1>2, <1>4 DEF Wakes
  <2>2. r.stat[u] = z.stat[u]
    BY <1>1, <1>2, <2>1
  <2>3. z.err[u] = r.err[u]
    BY <2>1 DEF Woken, Readies
  <2>. QED BY <1>4, <2>2, <2>3 DEF Wakes
<1>5. z.cur = e.cur /\ z.lock = e.lock /\ z.prio = e.prio
  BY DEF Woken, Readies, Wakes
<1>6. \A w \in WaitList : \A u : Contains(z.wait[w], u) => Contains(e.wait[w], u)
  BY DEF Woken, Readies, Wakes
<1>. QED BY <1>2, <1>3, <1>4, <1>5, <1>6 DEF Wakes

\* ... by rt_thread_resume
LEMMA FailedWakes ==
  ASSUME NEW e, NEW r, Wakes(e, r), NEW t \in Thread, r.stat[t] = "suspend", NEW x \in Error
  PROVE  /\ Wakes(e, Resume([r EXCEPT !.err[t] = x], t))
         /\ Resume([r EXCEPT !.err[t] = x], t).stat = [r.stat EXCEPT ![t] = "ready"]
<1>1. PICK y : y = [r EXCEPT !.err[t] = x]
  OBVIOUS
<1>2. Readies(r, y, t)
  BY <1>1, ErrorReadies DEF Wakes
<1>3. PICK z : z = Resume(y, t)
  OBVIOUS
<1>4. KernelInv(z, {}) /\ Woken(y, z, t)
  BY <1>2, <1>3, ResumeKeeps DEF Readies
<1>. QED BY <1>1, <1>2, <1>3, <1>4, WokenWakes

LEMMA ResumeFailedWakes ==
  ASSUME NEW e, KernelInv(e, {}), NoneClosed(e), NEW w \in WaitList, e.wait[w] # <<>>
  PROVE  Wakes(e, ResumeFailed(e, w))
<1>1. Head(e.wait[w]) \in Thread /\ Wakes(e, e) /\ e.stat[Head(e.wait[w])] = "suspend"
  BY FirstWaiter, NothingWakes, WaiterSuspended
<1>. QED BY <1>1, FailedWakes DEF ResumeFailed, Error

\* One round of rt_ipc_list_resume_all, on any thread
FailedRound(r, t) == Resume([r EXCEPT !.err[t] = "ERROR"], t)

\* Of the waiters q those with a place in s have been resumed, and no other
Roused(e, b, q, s, r) ==
  /\ Wakes(e, r) /\ Wakes(b, r)
  /\ \A i \in 1..Len(q) : r.stat[q[i]] = IF i \in s THEN "ready" ELSE "suspend"

LEMMA RoundRouses ==
  ASSUME NEW e, NEW b, NEW q \in Seq(Thread), Distinct(q), NEW s \in SUBSET (1..Len(q)),
         NEW m \in s, NEW r, Roused(e, b, q, s \ {m}, r)
  PROVE  Roused(e, b, q, s, FailedRound(r, q[m]))
<1>1. m \in 1..Len(q) /\ q[m] \in Thread /\ r.stat[q[m]] = "suspend" /\ "ERROR" \in Error
  BY LenProperties, ElementOfSeq DEF Roused, Error
<1>2. PICK z : z = FailedRound(r, q[m])
  OBVIOUS
<1>3. Wakes(e, z) /\ Wakes(b, z) /\ z.stat = [r.stat EXCEPT ![q[m]] = "ready"]
  BY <1>1, <1>2, FailedWakes DEF Roused, FailedRound
<1>4. r.stat \in [Thread -> Stat]
  BY DEF Roused, Wakes, KernelInv, KernelType
<1>5. ASSUME NEW i \in 1..Len(q) PROVE z.stat[q[i]] = IF i \in s THEN "ready" ELSE "suspend"
  <2>1. q[i] \in Thread
    BY LenProperties, ElementOfSeq
  <2>2. CASE i = m
    BY <1>1, <1>3, <1>4, <2>2
  <2>3. CASE i # m
    <3>1. q[i] # q[m]
      BY <1>1, <2>3 DEF Distinct
    <3>. QED BY <1>3, <1>4, <2>1, <2>3, <3>1 DEF Roused
  <2>. QED BY <2>2, <2>3
<1>. QED BY <1>2, <1>3, <1>5 DEF Roused

LEMMA RoundStays ==
  ASSUME NEW r, KernelInv(r, {}), NEW t \in Thread
  PROVE  KernelInv(FailedRound(r, t), {})
<1>1. PICK y : y = [r EXCEPT !.err[t] = "ERROR"]
  OBVIOUS
<1>2. KernelInv(y, {})
  BY <1>1, ErrorReadies DEF Readies, Error
<1>. QED BY <1>1, <1>2, NothingWakes, ResumeWakes DEF FailedRound, Wakes

\* rt_ipc_list_resume_all: the list is empty when it is done
LEMMA WakeAllWakes ==
  ASSUME NEW e, NEW b, Wakes(e, b), NoneClosed(b), NEW w \in WaitList
  PROVE  /\ Wakes(e, WakeAllFailed(b, w)) /\ Wakes(b, WakeAllFailed(b, w))
         /\ WakeAllFailed(b, w).wait[w] = <<>>
<1> DEFINE q == b.wait[w]
           n == Len(q)
           Y == {r \in Kernel : KernelInv(r, {})}
           F == [i \in 1..n |-> [r \in Y |-> FailedRound(r, q[i])]]
           Run(h) == h = [s \in SUBSET (DOMAIN q) |->
                            IF s = {} THEN b
                            ELSE FailedRound(h[s \ {Max(s)}], q[Max(s)])]
           h == CHOOSE h : Run(h)
           G == [s \in SUBSET (1..n) |-> <<s, h[s]>>]
           Z == {p \in (SUBSET (1..n)) \X Y : Roused(e, b, q, p[1], p[2])}
<1>1. q \in Seq(Thread) /\ Distinct(q) /\ KernelInv(b, {}) /\ Wakes(b, b)
  BY NothingWakes DEF Wakes, KernelInv, KernelType, WaitListsExact
<1>2. n \in Nat /\ DOMAIN q = 1..n /\ \A i \in 1..n : q[i] \in Thread
  BY <1>1, LenProperties, ElementOfSeq
<1>3. WakeAllFailed(b, w) = h[DOMAIN q]
  BY DEF WakeAllFailed, FoldLeft, MapThenFoldSet, FailedRound
<1>4. \A r : KernelInv(r, {}) => r \in Y
  BY DEF KernelInv, KernelType, Kernel
<1>5. ASSUME NEW r \in Y, NEW t \in Thread PROVE FailedRound(r, t) \in Y
  BY <1>4, RoundStays
<1>6. F \in [1..n -> [Y -> Y]]
  BY <1>2, <1>5
<1>0. Roused(e, b, q, {}, b)
  <2>1. ASSUME NEW i \in 1..n PROVE b.stat[q[i]] = "suspend"
    <3>1. Contains(q, q[i])
      BY DEF Contains
    <3>. QED BY <1>1, <1>2, <3>1, WaiterSuspended
  <2>. QED BY <1>1, <2>1 DEF Roused
<1> HIDE DEF q, n
<1>7. PICK g \in [SUBSET (1..n) -> Y] : Follows(g, F, b, n)
  <2> HIDE DEF F, h, Run, Y, G, Z
  <2>1. n \in Nat /\ b \in Y
    BY <1>1, <1>2, <1>4
  <2>. QED BY <2>1, <1>6, FoldExists
<1>8. ASSUME NEW s \in SUBSET (1..n), s # {}
      PROVE  Max(s) \in s /\ Max(s) \in 1..n /\ s \ {Max(s)} \in SUBSET (1..n)
  BY <1>2, <1>8, MaxIndex
<1>9. ASSUME NEW s \in SUBSET (1..n)
      PROVE  g[s] = IF s = {} THEN b ELSE FailedRound(g[s \ {Max(s)}], q[Max(s)])
  <2>1. CASE s = {}
    BY <1>7, <2>1 DEF Follows
  <2>2. CASE s # {}
    <3>1. g[s] = F[Max(s)][g[s \ {Max(s)}]]
      <4> HIDE DEF F
      <4>. QED BY <2>2, <1>7 DEF Follows
    <3>2. Max(s) \in 1..n /\ g[s \ {Max(s)}] \in Y
      BY <2>2, <1>7, <1>8
    <3>. QED BY <2>2, <3>1, <3>2
  <2>. QED BY <2>1, <2>2
<1>10. Run(g)
  BY <1>2, <1>7, <1>9
<1>11. Run(h)
  <2> HIDE DEF Run
  <2>. QED BY <1>10
<1> HIDE DEF h, Y, F
<1>12. \A s \in SUBSET (1..n) :
         h[s] = IF s = {} THEN b ELSE FailedRound(h[s \ {Max(s)}], q[Max(s)])
  BY <1>2, <1>11
<1> HIDE DEF Run
<1>13. G[{}] \in Z
  <2>1. h[{}] = b /\ b \in Y /\ {} \in SUBSET (1..n)
    BY <1>1, <1>4, <1>12
  <2>. QED BY <1>0, <2>1
<1>14. ASSUME NEW s \in SUBSET (1..n), s # {}, G[s \ {Max(s)}] \in Z PROVE G[s] \in Z
  <2>1. Max(s) \in s /\ Max(s) \in 1..n /\ s \ {Max(s)} \in SUBSET (1..n)
    BY <1>8, <1>14
  <2>2. PICK r : r = h[s \ {Max(s)}]
    OBVIOUS
  <2>3. r \in Y /\ Roused(e, b, q, s \ {Max(s)}, r)
    BY <1>14, <2>1, <2>2
  <2>4. PICK z : z = FailedRound(r, q[Max(s)])
    OBVIOUS
  <2>5. h[s] = z
    BY <1>12, <1>14, <2>2, <2>4
  <2>6. Roused(e, b, q, s, z)
    BY <1>1, <2>1, <2>3, <2>4, RoundRouses DEF n
  <2>7. z \in Y
    BY <1>2, <1>5, <2>1, <2>3, <2>4
  <2>. QED BY <2>5, <2>6, <2>7
<1>15. G[1..n] \in Z
  <2> HIDE DEF G, Z
  <2>. QED BY <1>2, <1>13, <1>14, FoldStays
<1>16. PICK r : r = WakeAllFailed(b, w)
  OBVIOUS
<1>17. Roused(e, b, q, 1..n, r)
  <2>1. G[1..n] = <<1..n, h[1..n]>>
    OBVIOUS
  <2>. QED BY <1>2, <1>3, <1>15, <1>16, <2>1
<1>18. r.wait[w] = <<>>
  <2>1. KernelInv(r, {}) /\ \A u : Contains(r.wait[w], u) => Contains(q, u)
    BY <1>17 DEF Roused, Wakes, q
  <2>2. SUFFICES ASSUME r.wait[w] # <<>> PROVE FALSE
    OBVIOUS
  <2>3. PICK u : u = Head(r.wait[w])
    OBVIOUS
  <2>4. u \in Thread /\ Contains(r.wait[w], u)
    BY <2>1, <2>2, <2>3, FirstWaiter
  <2>5. PICK i \in 1..n : u = q[i]
    BY <2>1, <2>4 DEF Contains, n
  <2>6. r.stat[u] = "ready"
    BY <1>17, <2>5 DEF Roused, n
  <2>. QED BY <2>1, <2>4, <2>6 DEF KernelInv, WaitListsExact
<1>. QED BY <1>16, <1>17, <1>18 DEF Roused

\* rt_thread_timeout
LEMMA TimeoutWakes ==
  ASSUME NEW e, KernelInv(e, {}), NEW t \in Thread, e.timer[t]
  PROVE  Wakes(e, Timeout(e, t))
<1>1. e.stat[t] = "suspend"
  BY DEF KernelInv, TimersExact
<1>2. PICK y : y = [e EXCEPT !.err[t] = "ETIMEOUT"]
  OBVIOUS
<1>3. PICK z : z = Timeout(e, t)
  OBVIOUS
<1>4. Readies(e, y, t)
  BY <1>2, ErrorReadies DEF Error
<1>5. KernelInv(z, {}) /\ Woken(y, z, t)
  <2>1. t \in Thread \ {}
    OBVIOUS
  <2>2. KernelInv(Timeout(e, t), {}) /\ Woken([e EXCEPT !.err[t] = "ETIMEOUT"], Timeout(e, t), t)
    BY <2>1, TimeoutKeeps
  <2>. QED BY <1>2, <1>3, <2>2
<1>. QED BY <1>1, <1>3, <1>4, <1>5, NothingWakes, WokenWakes

\* rt_thread_yield at the end of a slice
LEMMA RotateWakes ==
  ASSUME NEW e, KernelInv(e, {})
  PROVE  Wakes(e, Rotate(e))
<1>1. PICK z : z = Rotate(e)
  OBVIOUS
<1>2. KernelInv(z, {}) /\ z = [e EXCEPT !.ready = z.ready]
  BY <1>1, RotateKeeps
<1>3. KernelType(e)
  BY DEF KernelInv
<1>4. /\ z.cur = e.cur /\ z.lock = e.lock /\ z.prio = e.prio /\ z.stat = e.stat /\ z.wait = e.wait
      /\ z.err = e.err
  BY <1>2, <1>3 DEF KernelType
<1>. QED BY <1>1, <1>2, <1>4 DEF Wakes

\* rt_thread_suspend
LEMMA SuspendBlocks ==
  ASSUME NEW e, NEW t \in Thread, t # Idle, e.stat[t] = "ready", NEW x, Readies(e, x, t)
  PROVE  Sleeps(e, Suspend(x, t), t, {})
<1>1. PICK z : z = Suspend(x, t)
  OBVIOUS
<1>2. KernelInv(z, {}) /\ Suspended(x, z, t)
  BY <1>1, SuspendKeeps DEF Readies
<1>. QED BY <1>1, <1>2 DEF Sleeps, Suspended, Readies

\* rt_ipc_list_suspend
LEMMA ListSuspendBlocks ==
  ASSUME NEW e, NEW t \in Thread, t # Idle, e.stat[t] = "ready", NEW x, Readies(e, x, t),
         NEW w \in WaitList, w # "pp" => x.err[t] = "EOK", NEW flag
  PROVE  Sleeps(e, ListSuspend(x, w, t, flag), t, {w})
<1>1. PICK z : z = ListSuspend(x, w, t, flag)
  OBVIOUS
<1>2. KernelInv(z, {}) /\ Waiting(x, z, w, t, flag)
  BY <1>1, ListSuspendKeeps DEF Readies
<1>3. x.wait \in [WaitList -> Seq(Thread)]
  BY DEF Readies, KernelInv, KernelType
<1>4. \A v \in WaitList : v # w => z.wait[v] = x.wait[v]
  BY <1>2, <1>3 DEF Waiting
<1>5. ASSUME NEW v \in WaitList, NEW u, Contains(z.wait[v], u)
      PROVE  Contains(e.wait[v], u) \/ (u = t /\ v \in {w})
  BY <1>2, <1>4, <1>5 DEF Waiting, Readies
<1>6. /\ z.cur = e.cur /\ z.lock = e.lock /\ z.prio = e.prio
      /\ z.stat = [e.stat EXCEPT ![t] = "suspend"]
      /\ \A u \in Thread \ {t} : z.err[u] = e.err[u]
      /\ z.err[t] = x.err[t]
  BY <1>2 DEF Waiting, Readies
<1>. QED BY <1>1, <1>2, <1>5, <1>6 DEF Sleeps

\* rt_timer_start after it
LEMMA TimedBlocks ==
  ASSUME NEW e, NEW r, NEW t \in Thread, KernelInv(e, {}), NEW W, Sleeps(e, r, t, W)
  PROVE  Sleeps(e, StartTimer(r, t), t, W)
<1>1. PICK z : z = StartTimer(r, t)
  OBVIOUS
<1>2. r.stat[t] = "suspend"
  BY DEF Sleeps, KernelInv, KernelType
<1>3. KernelInv(z, {}) /\ z = [r EXCEPT !.timer = [r.timer EXCEPT ![t] = TRUE]]
  BY <1>1, <1>2, StartTimerKeeps DEF Sleeps
<1>4. KernelType(r)
  BY DEF Sleeps, KernelInv
<1>5. /\ z.cur = r.cur /\ z.lock = r.lock /\ z.prio = r.prio /\ z.stat = r.stat /\ z.wait = r.wait
      /\ z.err = r.err
  BY <1>3, <1>4 DEF KernelType
<1>. QED BY <1>1, <1>3, <1>5 DEF Sleeps

\* The node of a suspended thread on no list is put on list w, in the place that q gives it
LEMMA LinkKeeps ==
  ASSUME NEW s, KernelInv(s, {}), NEW t \in Thread, s.stat[t] = "suspend",
         \A v \in WaitList : ~Contains(s.wait[v], t),
         NEW w \in WaitList, NEW q \in Seq(Thread), Distinct(q),
         \A u : Contains(q, u) <=> Contains(s.wait[w], u) \/ u = t
  PROVE  KernelInv([s EXCEPT !.wait = [s.wait EXCEPT ![w] = q]], {})
<1> DEFINE r == [s EXCEPT !.wait = [s.wait EXCEPT ![w] = q]]
<1>0. KernelType(s)
  BY DEF KernelInv
<1>1. /\ r.wait = [s.wait EXCEPT ![w] = q] /\ KernelType(r)
      /\ r.ready = s.ready /\ r.table = s.table /\ r.group = s.group /\ r.stat = s.stat
      /\ r.prio = s.prio /\ r.timer = s.timer
  BY <1>0 DEF KernelType
<1> HIDE DEF r
<1>2. r.wait[w] = q /\ \A v \in WaitList \ {w} : r.wait[v] = s.wait[v]
  BY <1>0, <1>1 DEF KernelType
<1>3. WaitListsExact(r, {})
  <2>1. WaitListsExact(s, {})
    BY DEF KernelInv
  <2> SUFFICES ASSUME NEW v \in WaitList
               PROVE  /\ Distinct(r.wait[v])
                      /\ \A u \in Thread : Contains(r.wait[v], u) =>
                           /\ r.stat[u] \in {"suspend", "close"}
                           /\ u \notin {}
                           /\ \A z \in WaitList \ {v} : ~Contains(r.wait[z], u)
    BY DEF WaitListsExact
  <2>2. Distinct(r.wait[v])
    BY <2>1, <1>2 DEF WaitListsExact
  <2>3. ASSUME NEW u \in Thread, Contains(r.wait[v], u), u # t
        PROVE  /\ r.stat[u] \in {"suspend", "close"}
               /\ \A z \in WaitList \ {v} : ~Contains(r.wait[z], u)
    <3>1. \A z \in WaitList : Contains(r.wait[z], u) <=> Contains(s.wait[z], u)
      BY <2>3, <1>2
    <3>. QED BY <3>1, <2>1, <2>3, <1>1 DEF WaitListsExact
  <2>4. ASSUME Contains(r.wait[v], t)
        PROVE  /\ r.stat[t] \in {"suspend", "close"}
               /\ \A z \in WaitList \ {v} : ~Contains(r.wait[z], t)
    BY <2>4, <1>1, <1>2
  <2>. QED BY <2>2, <2>3, <2>4
<1>4. ReadyListsExact(r, {}) /\ BitmapExact(r) /\ TimersExact(r)
  BY <1>1 DEF KernelInv, ReadyListsExact, BitmapExact, TimersExact
<1>. QED BY <1>1, <1>3, <1>4 DEF KernelInv, r

-----------------------------------------------------------------------------
(***************************************************************************)
(* The inductive invariant of the calls: the kernel is consistent; a       *)
(* thread is at a place in the code with a call that fits it; the running  *)
(* thread is ready but where a call has suspended it and rt_schedule is    *)
(* still to come; only rt_data_queue_reset locks the scheduler; and who is *)
(* on a suspend list is in a call that waits on that list.                 *)
(***************************************************************************)
AllLabels == Labels \cup {"run", "schedule", "again", "post", "ret", "detach", "wake"}

\* Thread t is between the rt_enter_critical and rt_exit_critical of rt_data_queue_reset
InReset(t) == pc[t] \in {"detach", "wake"} /\ call[t].op = "dq_reset"

\* The suspend lists and the calls that wait on them
WaitPairs ==
  {<<"mb.recv", "mb_recv">>, <<"mb.send", "mb_send">>, <<"mq", "mq_recv">>, <<"ev", "ev_recv">>,
   <<"mp", "mp_alloc">>, <<"dq.push", "dq_push">>, <<"dq.pop", "dq_pop">>,
   <<"cp", "cp_wait">>, <<"cp", "sr_write">>}
    \cup {<<"ev", op>> : op \in OnOps} \cup {<<"pp", op>> : op \in PpOp}

PlacePart ==
  /\ use \in Uses /\ alive \subseteq Object
  /\ pc \in [Thread -> AllLabels] /\ DOMAIN call = Thread
  /\ \A t \in Thread : CallFits(pc[t], call[t])
  /\ pc[Idle] \in {"run", "sr_length", "sr_wake"}
  /\ \A t \in Thread : pc[t] \in {"sr_length", "sr_wake"} => t = Idle
  /\ \A t \in Thread : pc[t] = "wk_resume" => Worker \in Thread

RunningPart ==
  /\ k.stat[k.cur] = "ready" \/ pc[k.cur] \in {"schedule", "post"}
  /\ \A t \in Thread : k.stat[t] = "suspend" => pc[t] \in {"schedule", "again", "post", "run"}
  /\ NoneClosed(k)

LockPart ==
  /\ k.lock = 0 \/ (k.lock = 1 /\ InReset(k.cur))
  /\ \A t \in Thread : InReset(t) => t = k.cur /\ k.lock = 1

WaitingPart ==
  \A w \in WaitList, t \in Thread : Contains(k.wait[w], t) =>
    pc[t] \in {"schedule", "again"} /\ <<w, call[t].op>> \in WaitPairs

Core == KernelInv(k, {}) /\ PlacePart /\ RunningPart /\ LockPart /\ WaitingPart

LEMMA CoreTypes ==
  Core => CallerType(Labels) /\ \A t \in Thread : CallFits(pc[t], call[t])
BY DEF Core, PlacePart, RunningPart, CallerType, AllLabels

LEMMA KernelFunctions ==
  ASSUME NEW e, KernelInv(e, {})
  PROVE  /\ e.cur \in Thread /\ e.stat \in [Thread -> Stat] /\ e.lock \in Nat
         /\ e.wait \in [WaitList -> Seq(Thread)]
         /\ \A w \in WaitList, u \in Thread : Contains(e.wait[w], u) => e.stat[u] # "ready"
BY DEF KernelInv, KernelType, WaitListsExact

\* Another thread's call is as it was, or it is woken with what it waits for
CallKept(u) ==
  \/ call'[u] = call[u]
  \/ /\ pc[u] \in {"schedule", "again"} /\ call'[u] \in WaitCall /\ call'[u].op = call[u].op
     /\ k'.stat[u] = "ready"

CallsKept(S) == DOMAIN call' = Thread /\ \A u \in S : CallKept(u)

\* What a place asks of the thread that comes to it
MayBeAt(t, p) ==
  /\ t = Idle => p \in {"run", "sr_length", "sr_wake"}
  /\ p \in {"sr_length", "sr_wake"} => t = Idle
  /\ p = "wk_resume" => Worker \in Thread

\* Calls kept by others fit the places they are at
LEMMA PlaceKept ==
  ASSUME PlacePart, NEW t \in Thread, NEW p \in AllLabels, pc' = [pc EXCEPT ![t] = p],
         CallsKept(Thread \ {t}), CallFits(p, call'[t]), MayBeAt(t, p),
         use' = use, alive' \subseteq Object
  PROVE  PlacePart'
<1>1. pc \in [Thread -> AllLabels] /\ Worker' = Worker
  BY DEF PlacePart, Worker
<1>2. pc' \in [Thread -> AllLabels] /\ pc'[t] = p /\ \A u \in Thread \ {t} : pc'[u] = pc[u]
  BY <1>1
<1>3. ASSUME NEW u \in Thread \ {t} PROVE CallFits(pc'[u], call'[u])
  <2>1. CallFits(pc[u], call[u])
    BY DEF PlacePart
  <2>2. CASE call'[u] = call[u]
    BY <1>2, <2>1, <2>2
  <2>3. CASE pc[u] \in {"schedule", "again"} /\ call'[u] \in WaitCall
    BY <1>2, <2>3 DEF CallFits
  <2>. QED BY <2>2, <2>3 DEF CallsKept, CallKept
<1>4. \A u \in Thread : CallFits(pc'[u], call'[u])
  BY <1>2, <1>3
<1>5. pc'[Idle] \in {"run", "sr_length", "sr_wake"}
  BY <1>2, KernelAssumption DEF PlacePart, MayBeAt
<1>6. \A u \in Thread : pc'[u] \in {"sr_length", "sr_wake"} => u = Idle
  BY <1>2 DEF PlacePart, MayBeAt
<1>7. \A u \in Thread : pc'[u] = "wk_resume" => Worker \in Thread
  BY <1>2 DEF PlacePart, MayBeAt
<1>. QED BY <1>1, <1>2, <1>4, <1>5, <1>6, <1>7 DEF PlacePart, CallsKept, AllLabels, Labels, CallFits

\* Who waits keeps its place and the kind of its call
LEMMA WaitingKept ==
  ASSUME WaitingPart, DOMAIN call' = Thread, NEW u \in Thread, pc'[u] = pc[u], CallKept(u),
         NEW w \in WaitList, Contains(k.wait[w], u)
  PROVE  pc'[u] \in {"schedule", "again"} /\ <<w, call'[u].op>> \in WaitPairs
BY DEF WaitingPart, CallKept

(***************************************************************************)
(* What every step does to the threads, whatever object it is a step of.   *)
(* The others keep their places and the kind of their calls; who is        *)
(* suspended is made ready or stays as it is; only the running thread      *)
(* comes to be suspended, when it leaves its place for one where it waits, *)
(* and only then is it put on a list.                                      *)
(***************************************************************************)
Blocked(u) ==
  /\ u = k.cur /\ pc[u] \notin {"schedule", "post"} /\ pc'[u] \in {"schedule", "post"}
  /\ k.stat[u] = "ready" /\ k'.stat[u] = "suspend"

IdleRuns == (\E c : SrIdleStore(c)) \/ SrIdleLength \/ SrIdleWake

FlowPlaces ==
  /\ use' = use
  /\ \A u \in Thread \ {k.cur, Idle} : pc'[u] = pc[u]
  /\ pc'[Idle] = pc[Idle] \/ IdleRuns
  /\ \A u \in Thread : u # k.cur \/ pc[u] = "schedule" => CallKept(u)
  /\ pc[k.cur] = "schedule" => pc'[k.cur] \in {"schedule", "again"}

FlowStates ==
  /\ \A u \in Thread :
       \/ k'.stat[u] = k.stat[u]
       \/ k.stat[u] = "suspend" /\ k'.stat[u] = "ready"
       \/ Blocked(u)
  /\ \A u \in Thread : k.stat[u] = "ready" \/ k'.stat[u] = "suspend" =>
       k'.err[u] = k.err[u] \/ Blocked(u)

FlowLists ==
  \A w \in WaitList : \A u : Contains(k'.wait[w], u) =>
    \/ Contains(k.wait[w], u)
    \/ Blocked(u) /\ pc'[u] = "schedule" /\ (w # "pp" => k'.err[u] = "EOK")

CoreStep == Core' /\ FlowPlaces /\ FlowStates /\ FlowLists

\* Threads are only woken
LEMMA WakesFlow ==
  ASSUME NEW e, Wakes(k, e), k'.stat = e.stat, k'.wait = e.wait, k'.err = e.err
  PROVE  FlowStates /\ FlowLists
<1>1. FlowStates
  BY DEF Wakes, FlowStates
<1>2. FlowLists
  BY DEF Wakes, FlowLists
<1>. QED BY <1>1, <1>2

(***************************************************************************)
(* A step of the running thread inside a call: it wakes some threads,      *)
(* perhaps none, and goes on to p.  The scheduler is locked in             *)
(* rt_data_queue_reset only.                                               *)
(***************************************************************************)
LEMMA Moves ==
  ASSUME Core, NEW t \in Thread, t = k.cur, t # Idle, k.stat[t] = "ready", pc[t] # "schedule",
         NEW p \in AllLabels \ {"schedule"}, pc' = [pc EXCEPT ![t] = p],
         CallsKept(Thread \ {t}), CallFits(p, call'[t]), MayBeAt(t, p),
         NEW e, Wakes(k, e), KernelInv(k', {}),
         k'.cur = e.cur, k'.stat = e.stat, k'.wait = e.wait, k'.err = e.err,
         k'.lock = IF p \in {"detach", "wake"} /\ call'[t].op = "dq_reset" THEN 1 ELSE 0,
         use' = use, alive' \subseteq Object
  PROVE  CoreStep
<1>1. pc \in [Thread -> AllLabels] /\ KernelInv(k, {})
  BY DEF Core, PlacePart
<1>2. pc'[t] = p /\ \A u \in Thread \ {t} : pc'[u] = pc[u]
  BY <1>1
<1>3. PlacePart'
  BY PlaceKept DEF Core
<1>4. k'.cur = t /\ k'.stat[t] = "ready"
  BY DEF Wakes
<1>5. \A u \in Thread \ {t} : k'.stat[u] = "suspend" => k.stat[u] = "suspend"
  BY DEF Wakes
<1>6. RunningPart'
  <2>1. NoneClosed(k') /\ pc'[t] = p
    BY <1>2 DEF Wakes, NoneClosed, Core, RunningPart
  <2>2. (\A u \in Thread : k.stat[u] = "suspend" => pc[u] \in {"schedule", "again", "post", "run"})
    BY DEF Core, RunningPart
  <2>3. \A u \in Thread : k'.stat[u] = "suspend" => pc'[u] \in {"schedule", "again", "post", "run"}
    BY <1>2, <1>4, <1>5, <2>2
  <2>. QED BY <1>4, <2>1, <2>3 DEF RunningPart, NoneClosed
<1>7. ASSUME NEW u \in Thread \ {t} PROVE ~InReset(u)'
  <2>1. ~InReset(u)
    BY DEF Core, LockPart
  <2>2. CASE call'[u] = call[u]
    BY <1>2, <2>1, <2>2 DEF InReset
  <2>3. CASE pc[u] \in {"schedule", "again"}
    BY <1>2, <2>3 DEF InReset
  <2>. QED BY <2>2, <2>3 DEF CallsKept, CallKept
<1>8. InReset(t)' <=> p \in {"detach", "wake"} /\ call'[t].op = "dq_reset"
  BY <1>2 DEF InReset
<1>9. LockPart'
  BY <1>4, <1>7, <1>8 DEF LockPart
<1>10. WaitingPart'
  <2>1. ASSUME NEW w \in WaitList, NEW u \in Thread, Contains(k'.wait[w], u)
        PROVE  pc'[u] \in {"schedule", "again"} /\ <<w, call'[u].op>> \in WaitPairs
    <3>1. Contains(k.wait[w], u)
      BY <2>1 DEF Wakes
    <3>2. u # t
      BY <1>1, <3>1, KernelFunctions
    <3>. QED BY <3>1, <3>2, <1>2, WaitingKept DEF Core, CallsKept
  <2>. QED BY <2>1 DEF WaitingPart, WaitPairs
<1>11. Core'
  BY <1>3, <1>6, <1>9, <1>10 DEF Core
<1>12. FlowPlaces
  BY <1>2, KernelAssumption DEF FlowPlaces, CallsKept
<1>. QED BY <1>11, <1>12, WakesFlow DEF CoreStep

\* ... with the scheduler not locked before or after
LEMMA Acts ==
  ASSUME Core, NEW t \in Thread, t = k.cur, t # Idle,
         pc[t] \notin {"schedule", "post", "detach", "wake"},
         NEW p \in AllLabels \ {"schedule", "detach", "wake"}, pc' = [pc EXCEPT ![t] = p],
         CallsKept(Thread \ {t}), CallFits(p, call'[t]), MayBeAt(t, p), Wakes(k, k'),
         use' = use, alive' \subseteq Object
  PROVE  CoreStep
<1>1. k.stat[t] = "ready"
  BY DEF Core, RunningPart
<1>2. k'.lock = 0
  BY DEF Core, LockPart, InReset, Wakes
<1>3. KernelInv(k', {}) /\ pc[t] # "schedule"
  BY DEF Wakes
<1>. QED BY <1>1, <1>2, <1>3, Moves

(***************************************************************************)
(* A step of a handler, of a timer, of the tick or of a hook of the idle   *)
(* thread: it wakes some threads and may end with rt_schedule.             *)
(***************************************************************************)
LEMMA Interrupts ==
  ASSUME Core, NEW p \in {"run", "sr_length", "sr_wake"}, pc' = [pc EXCEPT ![Idle] = p],
         CallsKept(Thread), NEW e, Wakes(k, e),
         k' = e \/ k' = Schedule(e), use' = use, alive' = alive, p = pc[Idle] \/ IdleRuns
  PROVE  CoreStep
<1>1. KernelInv(k, {}) /\ KernelInv(e, {}) /\ pc \in [Thread -> AllLabels]
  BY DEF Core, PlacePart, Wakes
<1>2. /\ KernelInv(k', {}) /\ k'.stat = e.stat /\ k'.wait = e.wait /\ k'.lock = e.lock
      /\ k'.err = e.err
      /\ k'.cur = e.cur \/ (e.lock = 0 /\ k'.stat[k'.cur] = "ready")
  <2>1. CASE k' = e
    BY <1>1, <2>1
  <2>2. CASE k' = Schedule(e)
    <3>1. PICK r : r = k'
      OBVIOUS
    <3>2. /\ KernelInv(r, {}) /\ r = [e EXCEPT !.cur = r.cur]
          /\ e.lock = 0 => e.stat[r.cur] = "ready"
          /\ e.lock # 0 => r = e
      BY <1>1, <2>2, <3>1, ScheduleKeeps
    <3>3. r.stat = e.stat /\ r.wait = e.wait /\ r.lock = e.lock /\ r.err = e.err
      BY <1>1, <3>2 DEF KernelInv, KernelType
    <3>. QED BY <3>1, <3>2, <3>3
  <2>. QED BY <2>1, <2>2
<1>3. PlacePart'
  <2>1. Idle \in Thread
    BY KernelAssumption
  <2>2. p \in AllLabels /\ MayBeAt(Idle, p)
    BY DEF AllLabels, Labels, MayBeAt
  <2>3. CallFits(p, call'[Idle])
    <3>1. call'[Idle] = call[Idle] /\ call[Idle] = None
      BY <2>1 DEF Core, PlacePart, CallsKept, CallKept, CallFits
    <3>. QED BY <3>1 DEF CallFits
  <2>4. CallsKept(Thread \ {Idle})
    BY DEF CallsKept
  <2>5. alive' \subseteq Object
    BY DEF Core, PlacePart
  <2>. QED BY <2>1, <2>2, <2>3, <2>4, <2>5, PlaceKept DEF Core
<1>8. /\ Idle \in Thread /\ k.stat[Idle] = "ready"
      /\ \A u \in Thread : k.stat[u] # "ready" => pc'[u] = pc[u] /\ u # Idle
      /\ pc[Idle] \notin {"detach", "wake"} /\ pc'[Idle] \notin {"detach", "wake"}
      /\ \A u \in Thread \ {Idle} : pc'[u] = pc[u]
  BY <1>1, KernelAssumption DEF Core, PlacePart, KernelInv
<1>4. RunningPart'
  <2>1. \A u \in Thread : k'.stat[u] = "suspend" => k.stat[u] = "suspend"
    BY <1>2 DEF Wakes
  <2>2. k.cur \in Thread /\ k'.cur \in Thread
    BY <1>1, <1>2, KernelFunctions
  <2>3. k'.cur = e.cur => k'.cur = k.cur /\ (k.stat[k.cur] = "ready" => k'.stat[k'.cur] = "ready")
    BY <1>2, <2>2 DEF Wakes
  <2>4. \A u \in Thread : k'.stat[u] = "suspend" => pc'[u] \in {"schedule", "again", "post", "run"}
    BY <1>8, <2>1 DEF Core, RunningPart
  <2>5. k'.stat[k'.cur] = "ready" \/ pc'[k'.cur] \in {"schedule", "post"}
    BY <1>2, <1>8, <2>2, <2>3 DEF Core, RunningPart
  <2>6. NoneClosed(k')
    BY <1>2 DEF Wakes, NoneClosed, Core, RunningPart
  <2>. QED BY <2>4, <2>5, <2>6 DEF RunningPart, NoneClosed
<1>5. \A u \in Thread : InReset(u)' <=> InReset(u)
  BY <1>8 DEF CallsKept, CallKept, InReset
<1>6. LockPart'
  <2>1. k.lock = e.lock /\ e.cur = k.cur /\ k.cur \in Thread /\ k'.cur \in Thread
    BY <1>1, <1>2, KernelFunctions DEF Wakes
  <2>2. k.lock = 0 => \A u \in Thread : ~InReset(u)
    BY DEF Core, LockPart
  <2>3. CASE k'.cur = k.cur
    BY <1>2, <1>5, <2>1, <2>3 DEF Core, LockPart
  <2>4. CASE k.lock = 0
    BY <1>2, <1>5, <2>1, <2>2, <2>4 DEF LockPart
  <2>. QED BY <1>2, <2>1, <2>3, <2>4
<1>7. WaitingPart'
  <2>1. ASSUME NEW w \in WaitList, NEW u \in Thread, Contains(k'.wait[w], u)
        PROVE  pc'[u] \in {"schedule", "again"} /\ <<w, call'[u].op>> \in WaitPairs
    <3>1. Contains(k.wait[w], u)
      BY <1>2, <2>1 DEF Wakes
    <3>2. pc'[u] = pc[u]
      BY <1>1, <1>8, <3>1, KernelFunctions
    <3>. QED BY <3>1, <3>2, WaitingKept DEF Core, CallsKept
  <2>. QED BY <2>1 DEF WaitingPart, WaitPairs
<1>9. Core'
  BY <1>2, <1>3, <1>4, <1>6, <1>7 DEF Core
<1>10. FlowPlaces
  <2>1. pc[Idle] # "schedule"
    BY <1>8, KernelAssumption DEF Core, PlacePart
  <2>2. pc[k.cur] = "schedule" => pc'[k.cur] = pc[k.cur]
    BY <1>1, <1>8, <2>1, KernelFunctions
  <2>3. pc'[Idle] = pc[Idle] \/ IdleRuns
    BY <1>1, <1>8
  <2>. QED BY <1>8, <2>2, <2>3 DEF FlowPlaces, CallsKept
<1>. QED BY <1>2, <1>9, <1>10, WakesFlow DEF CoreStep

\* The running thread is suspended, in a call that waits on the lists W, or asleep
LEMMA Waits ==
  ASSUME Core, NEW t \in Thread, t = k.cur, pc[t] \notin {"schedule", "post", "detach", "wake"},
         t # Idle, NEW W, Sleeps(k, k', t, W),
         NEW p \in {"schedule", "post"}, pc' = [pc EXCEPT ![t] = p],
         DOMAIN call' = Thread, \A u \in Thread \ {t} : call'[u] = call[u],
         NEW c, call'[t] = c, CallFits(p, c),
         \A w \in W : p = "schedule" /\ <<w, c.op>> \in WaitPairs,
         use' = use, alive' = alive
  PROVE  CoreStep
<1>1. pc \in [Thread -> AllLabels] /\ KernelInv(k, {}) /\ KernelInv(k', {})
      /\ DOMAIN call = Thread
  BY DEF Core, PlacePart, Sleeps
<1>2. pc'[t] = p /\ \A u \in Thread \ {t} : pc'[u] = pc[u]
  BY <1>1
<1>3. call'[t] = c /\ DOMAIN call' = Thread /\ \A u \in Thread \ {t} : call'[u] = call[u]
  OBVIOUS
<1>4. CallsKept(Thread \ {t})
  BY <1>3 DEF CallsKept, CallKept
<1>5. PlacePart'
  <2>1. p \in AllLabels /\ MayBeAt(t, p) /\ alive' \subseteq Object
    BY DEF AllLabels, MayBeAt, Core, PlacePart
  <2>. QED BY <1>3, <1>4, <2>1, PlaceKept DEF Core
<1>6. k'.cur = t /\ k'.stat = [k.stat EXCEPT ![t] = "suspend"] /\ k'.lock = k.lock
  BY DEF Sleeps
<1>7. RunningPart'
  <2>1. k.stat \in [Thread -> Stat]
    BY <1>1, KernelFunctions
  <2>2. \A u \in Thread \ {t} : k'.stat[u] = k.stat[u]
    BY <1>6, <2>1
  <2>3. k'.stat[t] = "suspend" /\ k'.stat[k'.cur] = "suspend"
    BY <1>6, <2>1
  <2>4. NoneClosed(k')
    BY <2>2, <2>3 DEF Core, RunningPart, NoneClosed
  <2>5. \A u \in Thread : k'.stat[u] = "suspend" => pc'[u] \in {"schedule", "again", "post", "run"}
    BY <1>2, <2>2 DEF Core, RunningPart
  <2>. QED BY <1>2, <1>6, <2>4, <2>5 DEF RunningPart, NoneClosed
<1>8. LockPart'
  <2>1. k.lock = 0 /\ \A u \in Thread : ~InReset(u)
    BY DEF Core, LockPart, InReset
  <2>. QED BY <1>2, <1>3, <1>6, <2>1 DEF LockPart, InReset
<1>9. WaitingPart'
  <2>1. ASSUME NEW w \in WaitList, NEW u \in Thread, Contains(k'.wait[w], u)
        PROVE  pc'[u] \in {"schedule", "again"} /\ <<w, call'[u].op>> \in WaitPairs
    <3>1. Contains(k.wait[w], u) \/ (u = t /\ w \in W)
      BY <2>1 DEF Sleeps
    <3>2. CASE u = t /\ w \in W
      BY <3>2, <1>2, <1>3
    <3>3. CASE Contains(k.wait[w], u)
      <4>1. k.stat[t] = "ready"
        BY DEF Core, RunningPart
      <4>2. u # t
        BY <1>1, <3>3, <4>1, KernelFunctions
      <4>. QED BY <3>3, <4>2, <1>2, <1>3, <1>4, WaitingKept DEF Core, CallsKept
    <3>. QED BY <3>1, <3>2, <3>3
  <2>. QED BY <2>1 DEF WaitingPart, WaitPairs
<1>10. Core'
  BY <1>1, <1>5, <1>7, <1>8, <1>9 DEF Core
<1>11. FlowPlaces
  BY <1>2, <1>4, KernelAssumption DEF FlowPlaces, CallsKept
<1>12. Blocked(t)
  <2>1. k.stat \in [Thread -> Stat] /\ k.stat[t] = "ready"
    BY <1>1, KernelFunctions DEF Core, RunningPart
  <2>. QED BY <1>2, <1>6, <2>1 DEF Blocked
<1>13. FlowStates
  <2>1. k.stat \in [Thread -> Stat]
    BY <1>1, KernelFunctions
  <2>2. \A u \in Thread \ {t} : k'.stat[u] = k.stat[u] /\ k'.err[u] = k.err[u]
    BY <1>6, <2>1 DEF Sleeps
  <2>. QED BY <1>12, <2>2 DEF FlowStates
<1>14. FlowLists
  <2>1. ASSUME NEW w \in WaitList, NEW u, Contains(k'.wait[w], u), ~Contains(k.wait[w], u)
        PROVE  Blocked(u) /\ pc'[u] = "schedule" /\ (w # "pp" => k'.err[u] = "EOK")
    <3>1. u = t /\ w \in W
      BY <2>1 DEF Sleeps
    <3>2. w # "pp" => k'.err[t] = "EOK"
      BY <3>1 DEF Sleeps
    <3>. QED BY <1>2, <1>12, <3>1, <3>2
  <2>. QED BY <2>1 DEF FlowLists
<1>. QED BY <1>10, <1>11, <1>13, <1>14 DEF CoreStep

-----------------------------------------------------------------------------
(***************************************************************************)
(* The steps that the calls of every object are made of.                   *)
(***************************************************************************)

\* The threads that may step the code of an object's calls
Free(t) == t = k.cur /\ t \in Thread /\ pc[t] \notin {"schedule", "post", "detach", "wake"}

\* Only the idle thread is at places of its own, and it calls nothing
LEMMA StartsFree ==
  ASSUME Core, NEW t \in Running, NEW op, NEW o, Starts(t, op, o)
  PROVE  Free(t) /\ t # Idle /\ pc[t] = "run" /\ call[t] = None
<1>1. t \in Thread
  BY KernelFunctions DEF Core, Running
<1>2. use.calls[Idle] = {}
  BY CallerAssumption DEF Core, PlacePart
<1>3. call[t] = None
  BY <1>1 DEF Core, PlacePart, CallFits, Starts, At
<1>. QED BY <1>1, <1>2, <1>3 DEF Free, Starts, At

LEMMA InsideFree ==
  ASSUME Core, NEW t \in Running,
         pc[t] \notin {"schedule", "post", "detach", "wake", "run", "sr_length", "sr_wake"}
  PROVE  Free(t) /\ t # Idle
<1>1. t \in Thread
  BY KernelFunctions DEF Core, Running
<1>. QED BY <1>1 DEF Free, Running, Core, PlacePart

LEMMA TestsFree ==
  ASSUME Core, NEW t \in Running, NEW c, NEW o, Tests(t, c, o)
  PROVE  Free(t) /\ t # Idle
<1>1. CASE Enters(t, c, o)
  BY <1>1, StartsFree DEF Enters
<1>2. CASE Again(t, c)
  BY <1>2, InsideFree DEF Again, At
<1>. QED BY <1>1, <1>2 DEF Tests

\* An ordinary step
LEMMA Goes ==
  ASSUME Core, NEW t, Free(t), t # Idle, Wakes(k, k'),
         NEW p \in AllLabels \ {"schedule", "detach", "wake", "sr_length", "sr_wake"}, Goto(t, p),
         NEW c, call' = [call EXCEPT ![t] = c], CallFits(p, c),
         p = "wk_resume" => Worker \in Thread,
         use' = use, alive' \subseteq Object
  PROVE  CoreStep
<1>1. DOMAIN call = Thread
  BY DEF Core, PlacePart
<1>2. CallsKept(Thread \ {t}) /\ CallFits(p, call'[t])
  BY <1>1 DEF CallsKept, CallKept, Free
<1>. QED BY <1>2, Acts DEF Free, Goto, MayBeAt

\* ... that leaves the call as it is
LEMMA GoesOn ==
  ASSUME Core, NEW t, Free(t), t # Idle, Wakes(k, k'),
         NEW p \in AllLabels \ {"schedule", "detach", "wake", "sr_length", "sr_wake"}, Goto(t, p),
         call' = call, CallFits(p, call[t]),
         p = "wk_resume" => Worker \in Thread,
         use' = use, alive' \subseteq Object
  PROVE  CoreStep
<1>1. DOMAIN call = Thread
  BY DEF Core, PlacePart
<1>2. CallsKept(Thread \ {t}) /\ CallFits(p, call'[t])
  BY <1>1 DEF CallsKept, CallKept, Free
<1>. QED BY <1>2, Acts DEF Free, Goto, MayBeAt

\* No object is made alive again
LEMMA AliveKept ==
  Core /\ alive' = alive => alive' \subseteq Object
BY DEF Core, PlacePart

\* A call returns
LEMMA Finishes ==
  ASSUME Core, NEW t, Free(t), t # Idle, Wakes(k, k'), NEW woke \in BOOLEAN, NEW v, Finish(t, woke, v)
  PROVE  CoreStep
<1>1. PICK p \in {"post", "ret", "run"} : Goto(t, p)
  BY DEF Finish
<1>2. p \in AllLabels /\ CallFits(p, None)
  BY DEF AllLabels, CallFits
<1>. QED BY <1>1, <1>2, Goes, AliveKept DEF Finish

LEMMA Refuses ==
  ASSUME Core, NEW t, Free(t), t # Idle, Refuse(t) \/ Fail(t)
  PROVE  CoreStep
<1>1. "run" \in AllLabels /\ CallFits("run", None)
  BY DEF AllLabels, CallFits
<1>2. Wakes(k, k')
  BY NothingWakes DEF Core, Refuse, Fail
<1>. QED BY <1>1, <1>2, Goes, AliveKept DEF Refuse, Fail

\* Threads that fail or return from a wait
LEMMA Fails ==
  ASSUME Core, NEW t \in Running, Failed(t), Fail(t)
  PROVE  CoreStep
BY InsideFree, Refuses DEF Failed, At

LEMMA IsReady ==
  ASSUME Core, NEW t, Free(t)
  PROVE  k.stat[t] = "ready"
BY DEF Core, RunningPart, Free

\* A call waits
LEMMA Suspends ==
  ASSUME Core, NEW t, Free(t), t # Idle, NEW kk, NEW W, Sleeps(k, kk, t, W),
         NEW c \in WaitCall, Block(t, c, kk), \A w \in W : <<w, c.op>> \in WaitPairs
  PROVE  CoreStep
<1>1. t \in Thread /\ KernelInv(k, {})
  BY DEF Free, Core
<1>2. Sleeps(k, k', t, W)
  BY <1>1, TimedBlocks DEF Block
<1>3. CallFits("schedule", c)
  BY DEF CallFits
<1>4. DOMAIN call' = Thread /\ call'[t] = c /\ \A u \in Thread \ {t} : call'[u] = call[u]
  BY <1>1 DEF Block, Core, PlacePart
<1>. QED BY <1>1, <1>2, <1>3, <1>4, Waits, ZenonT(60) DEF Block, Goto, Free

LEMMA WaitsOn ==
  ASSUME Core, NEW t, Free(t), t # Idle, NEW w \in WaitList, NEW flag,
         NEW c \in WaitCall, <<w, c.op>> \in WaitPairs,
         Block(t, c, ListSuspend([k EXCEPT !.err[t] = "EOK"], w, t, flag))
  PROVE  CoreStep
<1>1. t \in Thread /\ KernelInv(k, {}) /\ k.stat[t] = "ready"
  BY IsReady DEF Free, Core
<1>2. PICK x : x = [k EXCEPT !.err[t] = "EOK"]
  OBVIOUS
<1>3. Readies(k, x, t) /\ x.err[t] = "EOK"
  BY <1>1, <1>2, ErrorReadies DEF Error
<1>4. Sleeps(k, ListSuspend(x, w, t, flag), t, {w})
  BY <1>1, <1>3, ListSuspendBlocks
<1>. QED BY <1>2, <1>4, Suspends

\* A handler wakes somebody, or does not
LEMMA Handles ==
  ASSUME Core, NEW e, Wakes(k, e), k' = k \/ k' = Schedule(e),
         UNCHANGED <<pc, call, alive, use>>
  PROVE  CoreStep
<1>1. CallsKept(Thread)
  BY DEF CallsKept, CallKept, Core, PlacePart
<1>2. Wakes(k, k)
  BY NothingWakes DEF Core
<1>3. pc' = [pc EXCEPT ![Idle] = pc[Idle]] /\ pc[Idle] \in {"run", "sr_length", "sr_wake"}
  BY KernelAssumption DEF Core, PlacePart
<1>. QED BY <1>1, <1>2, <1>3, Interrupts

\* Nothing of a caller changes
LEMMA Idles ==
  ASSUME Core, UNCHANGED <<k, pc, call, alive, use>>
  PROVE  CoreStep
BY Handles, NothingWakes DEF Core

\* A detach begins
LEMMA Detaches ==
  ASSUME Core, NEW t \in Running, NEW op, NEW o \in Object, NEW lists \in Seq(WaitList),
         Detach(t, op, o, lists)
  PROVE  CoreStep
<1>1. Free(t) /\ t # Idle
  BY StartsFree DEF Detach
<1>2. DOMAIN call = Thread /\ t \in Thread /\ Wakes(k, k') /\ alive' \subseteq Object
      /\ k'.lock = 0 /\ KernelInv(k', {}) /\ pc[t] # "schedule"
  <2>1. k' = k
    BY DEF Detach
  <2>2. k.lock = 0
    BY <1>1 DEF Core, LockPart, InReset, Free
  <2>. QED BY <1>1, <2>1, <2>2, NothingWakes DEF Core, PlacePart, Free, Detach
<1>3. CallsKept(Thread \ {t}) /\ call'[t] = [op |-> o, arg |-> lists, time |-> "none"]
  BY <1>2 DEF CallsKept, CallKept, Detach
<1>4. CallFits("detach", call'[t])
  BY <1>3 DEF CallFits, DetachCall
<1>5. "detach" \in AllLabels \ {"schedule"} /\ MayBeAt(t, "detach") /\ o # "dq_reset"
  BY <1>1 DEF AllLabels, MayBeAt, Object
<1>6. k.stat[t] = "ready" /\ t = k.cur
  BY <1>1, IsReady DEF Free
<1>7. call'[t].op = o
  BY <1>3
<1>. QED BY <1>1, <1>2, <1>3, <1>4, <1>5, <1>6, <1>7, Moves DEF Detach, Goto

\* A call of one step without a value
LEMMA StartsGo ==
  ASSUME Core, NEW t \in Running, NEW op, NEW o, Starts(t, op, o), Wakes(k, k'),
         NEW p \in {"post", "run"}, Goto(t, p), UNCHANGED <<call, alive, use>>
  PROVE  CoreStep
<1>1. Free(t) /\ t # Idle /\ call[t] = None
  BY StartsFree
<1>2. p \in AllLabels /\ CallFits(p, None)
  BY DEF AllLabels, CallFits
<1>. QED BY <1>1, <1>2, GoesOn, AliveKept

\* rt_schedule by a thread that a call has suspended or that has woken another
LEMMA Reschedules ==
  ASSUME Core, NEW t, t = k.cur, pc[t] \in {"schedule", "post"}, k' = Schedule(k),
         NEW p, p = IF pc[t] = "schedule" THEN "again" ELSE "run", Goto(t, p),
         UNCHANGED <<call, alive, use>>
  PROVE  CoreStep
<1>1. t \in Thread /\ KernelInv(k, {}) /\ pc \in [Thread -> AllLabels] /\ DOMAIN call = Thread
  BY KernelFunctions DEF Core, PlacePart
<1>2. k.lock = 0 /\ \A u \in Thread : ~InReset(u)
  BY DEF Core, LockPart, InReset
<1>3. /\ KernelInv(k', {}) /\ k'.stat = k.stat /\ k'.wait = k.wait /\ k'.lock = 0 /\ k'.err = k.err
      /\ k'.stat[k'.cur] = "ready"
  <2>1. PICK r : r = k'
    OBVIOUS
  <2>2. KernelInv(r, {}) /\ r = [k EXCEPT !.cur = r.cur] /\ k.stat[r.cur] = "ready"
    BY <1>1, <1>2, <2>1, ScheduleKeeps
  <2>3. r.stat = k.stat /\ r.wait = k.wait /\ r.lock = k.lock /\ r.err = k.err
    BY <1>1, <2>2 DEF KernelInv, KernelType
  <2>. QED BY <1>2, <2>1, <2>2, <2>3
<1>4. pc'[t] = p /\ \A u \in Thread \ {t} : pc'[u] = pc[u]
  BY <1>1 DEF Goto
<1>5. PlacePart'
  <2>1. CallFits(p, call'[t])
    <3>1. CallFits(pc[t], call[t])
      BY <1>1 DEF Core, PlacePart
    <3>. QED BY <3>1 DEF CallFits
  <2>2. p \in AllLabels /\ MayBeAt(t, p) /\ alive' \subseteq Object
    <3>1. t # Idle
      BY DEF Core, PlacePart
    <3>. QED BY <3>1 DEF AllLabels, MayBeAt, Core, PlacePart
  <2>3. CallsKept(Thread \ {t})
    BY <1>1 DEF CallsKept, CallKept
  <2>. QED BY <1>1, <2>1, <2>2, <2>3, PlaceKept DEF Core, Goto
<1>6. RunningPart'
  <2>1. NoneClosed(k')
    BY <1>3 DEF Core, RunningPart, NoneClosed
  <2>. QED BY <1>1, <1>3, <1>4, <2>1 DEF Core, RunningPart, NoneClosed
<1>7. LockPart'
  BY <1>1, <1>2, <1>3, <1>4 DEF LockPart, InReset
<1>8. WaitingPart'
  <2>1. ASSUME NEW w \in WaitList, NEW u \in Thread, Contains(k'.wait[w], u)
        PROVE  pc'[u] \in {"schedule", "again"} /\ <<w, call'[u].op>> \in WaitPairs
    <3>1. pc[u] \in {"schedule", "again"} /\ <<w, call[u].op>> \in WaitPairs
      BY <1>3, <2>1 DEF Core, WaitingPart
    <3>2. pc'[u] \in {"schedule", "again"}
      BY <3>1, <1>4
    <3>. QED BY <3>1, <3>2
  <2>. QED BY <2>1 DEF WaitingPart, WaitPairs
<1>9. Core'
  BY <1>3, <1>5, <1>6, <1>7, <1>8 DEF Core
<1>10. FlowPlaces
  <2>1. t # Idle /\ Idle \in Thread
    BY KernelAssumption DEF Core, PlacePart
  <2>. QED BY <1>1, <1>4, <2>1 DEF FlowPlaces, CallKept
<1>. QED BY <1>1, <1>3, <1>9, <1>10, NothingWakes, WakesFlow DEF CoreStep

\* A thread that empties suspend lists for a detach or for rt_data_queue_reset
LEMMA Detaching ==
  ASSUME Core, NEW t \in Running, pc[t] \in {"detach", "wake"}
  PROVE  /\ t = k.cur /\ t \in Thread /\ t # Idle /\ k.stat[t] = "ready" /\ Wakes(k, k)
         /\ call[t] \in DetachCall /\ call[t].arg \in Seq(WaitList)
         /\ k.lock = IF call[t].op = "dq_reset" THEN 1 ELSE 0
<1>1. t = k.cur /\ t \in Thread /\ Wakes(k, k)
  BY KernelFunctions, NothingWakes DEF Core, Running
<1>2. call[t] \in DetachCall
  BY <1>1 DEF Core, PlacePart, CallFits
<1>3. call[t].arg \in Seq(WaitList)
  BY <1>2 DEF DetachCall
<1>4. k.lock = IF call[t].op = "dq_reset" THEN 1 ELSE 0
  BY <1>1 DEF Core, LockPart, InReset
<1>5. t # Idle /\ k.stat[t] = "ready"
  BY <1>1 DEF Core, PlacePart, RunningPart
<1>. QED BY <1>1, <1>2, <1>3, <1>4, <1>5

\* ... goes on with it
LEMMA DetachGoes ==
  ASSUME Core, NEW t \in Running, pc[t] \in {"detach", "wake"}, Wakes(k, k'),
         NEW p \in {"detach", "wake"}, pc' = [pc EXCEPT ![t] = p],
         CallsKept(Thread \ {t}), call'[t] \in DetachCall, call'[t].op = call[t].op,
         p = "wake" => call'[t].arg # <<>>,
         UNCHANGED <<alive, use>>
  PROVE  CoreStep
<1>1. /\ t = k.cur /\ t \in Thread /\ t # Idle /\ k.stat[t] = "ready"
      /\ k.lock = IF call[t].op = "dq_reset" THEN 1 ELSE 0
  BY Detaching
<1>2. p \in AllLabels \ {"schedule"} /\ MayBeAt(t, p) /\ CallFits(p, call'[t])
  BY <1>1 DEF AllLabels, MayBeAt, CallFits
<1>3. k'.lock = IF p \in {"detach", "wake"} /\ call'[t].op = "dq_reset" THEN 1 ELSE 0
  BY <1>1 DEF Wakes
<1>4. alive' \subseteq Object /\ KernelInv(k', {}) /\ pc[t] # "schedule"
  BY AliveKept DEF Wakes
<1>. QED BY <1>1, <1>2, <1>3, <1>4, Moves

LEMMA DetachCallTail ==
  ASSUME NEW c \in DetachCall, c.arg # <<>>
  PROVE  [c EXCEPT !.arg = Tail(@)] \in DetachCall /\ [c EXCEPT !.arg = Tail(@)].op = c.op
BY DEF DetachCall

LEMMA ListTestKeeps ==
  ASSUME Core, NEW t \in Running, ListTest(t)
  PROVE  CoreStep
<1>1. /\ t \in Thread /\ Wakes(k, k') /\ call[t] \in DetachCall /\ pc \in [Thread -> AllLabels]
      /\ DOMAIN call = Thread /\ pc[t] = "detach" /\ call[t].arg # <<>>
  BY Detaching DEF ListTest, At, Left, Core, PlacePart
<1>2. CASE Goto(t, "wake") /\ UNCHANGED call
  <2>1. CallsKept(Thread \ {t})
    BY <1>1, <1>2 DEF CallsKept, CallKept
  <2>. QED BY <1>1, <1>2, <2>1, DetachGoes DEF ListTest, Goto
<1>3. CASE call' = [call EXCEPT ![t].arg = Tail(@)] /\ UNCHANGED pc
  <2>1. pc' = [pc EXCEPT ![t] = "detach"]
    BY <1>1, <1>3
  <2>2. CallsKept(Thread \ {t}) /\ call'[t] = [call[t] EXCEPT !.arg = Tail(@)]
    BY <1>1, <1>3 DEF CallsKept, CallKept
  <2>3. call'[t] \in DetachCall /\ call'[t].op = call[t].op
    BY <1>1, <2>2, DetachCallTail
  <2>. QED BY <1>1, <2>1, <2>2, <2>3, DetachGoes DEF ListTest
<1>. QED BY <1>2, <1>3 DEF ListTest

LEMMA ListWakeKeeps ==
  ASSUME Core, NEW t \in Running, ListWake(t)
  PROVE  CoreStep
<1>1. /\ t \in Thread /\ call[t] \in DetachCall /\ call[t].arg \in Seq(WaitList) /\ pc[t] = "wake"
      /\ DOMAIN call = Thread
  BY Detaching DEF ListWake, At, Core, PlacePart
<1>2. call[t].arg # <<>>
  BY <1>1 DEF Core, PlacePart, CallFits
<1>3. Head(call[t].arg) \in WaitList
  BY <1>1, <1>2
<1>4. Wakes(k, k')
  BY <1>3, ResumeFailedWakes DEF ListWake, Left, Core, RunningPart
<1>5. CallsKept(Thread \ {t})
  BY <1>1 DEF CallsKept, CallKept, ListWake
<1>. QED BY <1>1, <1>4, <1>5, DetachGoes DEF ListWake, Goto

\* A detach or rt_data_queue_reset is over
LEMMA DetachEnds ==
  ASSUME Core, NEW t \in Running, pc[t] = "detach", KernelInv(k', {}),
         k'.cur = k.cur, k'.stat = k.stat, k'.wait = k.wait, k'.err = k.err, k'.lock = 0,
         NEW p \in {"run", "post"}, Goto(t, p), call' = [call EXCEPT ![t] = None],
         alive' \subseteq alive, use' = use
  PROVE  CoreStep
<1>1. t = k.cur /\ t \in Thread /\ t # Idle /\ k.stat[t] = "ready" /\ Wakes(k, k)
  BY Detaching
<1>2. DOMAIN call = Thread /\ alive' \subseteq Object
  BY DEF Core, PlacePart
<1>3. CallsKept(Thread \ {t}) /\ call'[t] = None
  BY <1>1, <1>2 DEF CallsKept, CallKept
<1>4. CallFits(p, None) /\ MayBeAt(t, p) /\ p \in AllLabels \ {"schedule"}
  BY <1>1 DEF CallFits, MayBeAt, AllLabels
<1>5. /\ k'.lock = IF p \in {"detach", "wake"} /\ call'[t].op = "dq_reset" THEN 1 ELSE 0
      /\ pc[t] # "schedule"
  OBVIOUS
<1>. QED BY <1>1, <1>2, <1>3, <1>4, <1>5, Moves DEF Goto

\* An assignment to the scheduler's lock
LEMMA LockSet ==
  ASSUME NEW e, KernelInv(e, {}), NEW n \in Nat
  PROVE  /\ KernelInv([e EXCEPT !.lock = n], {})
         /\ [e EXCEPT !.lock = n].cur = e.cur /\ [e EXCEPT !.lock = n].stat = e.stat
         /\ [e EXCEPT !.lock = n].wait = e.wait /\ [e EXCEPT !.lock = n].lock = n
         /\ [e EXCEPT !.lock = n].err = e.err
<1>1. PICK r : r = [e EXCEPT !.lock = n]
  OBVIOUS
<1>2. KernelType(e)
  BY DEF KernelInv
<1>3. /\ KernelType(r) /\ r.cur = e.cur /\ r.stat = e.stat /\ r.wait = e.wait /\ r.lock = n
      /\ r.ready = e.ready /\ r.prio = e.prio /\ r.table = e.table /\ r.group = e.group
      /\ r.timer = e.timer /\ r.err = e.err
  BY <1>1, <1>2 DEF KernelType
<1>4. KernelInv(r, {})
  BY <1>3 DEF KernelInv, ReadyListsExact, WaitListsExact, BitmapExact, TimersExact
<1>. QED BY <1>1, <1>3, <1>4

LEMMA DetachObjectKeeps ==
  ASSUME Core, NEW t \in Running, DetachObject(t)
  PROVE  CoreStep
<1>1. t = k.cur /\ call[t].op \in alive /\ k.lock = IF call[t].op = "dq_reset" THEN 1 ELSE 0
  BY Detaching DEF DetachObject, At
<1>2. k.lock = 0
  BY <1>1 DEF Core, PlacePart, Object
<1>3. alive' \subseteq alive
  BY DEF DetachObject
<1>. QED BY <1>2, <1>3, DetachEnds DEF DetachObject, At, Core

-----------------------------------------------------------------------------
(***************************************************************************)
(* The steps of the other objects: none moves a thread into or out of the  *)
(* message queue's copies, and none returns what is not its own.           *)
(***************************************************************************)

\* Who is about to return a value is where it returns it
GotPart == DOMAIN got = Thread /\ \A u \in Thread : got[u] # None => pc[u] \in {"post", "ret"}

InCopy == {"link", "copy"}
InReturn == {"post", "ret"}

\* Where a thread is inside a call of the OneNET client
OnPlaces == {"on_objects", "on_open", "on_asked", "on_close", "on_recv", "on_got"}

\* Thread t takes a step outside of the copies, and returns values of F only
Outside(t, F) ==
  /\ DOMAIN got' = Thread
  /\ \A u \in Thread \ {t} : pc'[u] = pc[u] /\ got'[u] = got[u]
  /\ pc[t] \notin InCopy /\ pc'[t] \notin InCopy
  /\ \/ got'[t] = None
     \/ got[t] = None /\ got'[t].from \in F /\ pc'[t] \in InReturn

Apart(F) == (pc' = pc /\ got' = got) \/ \E t \in Thread : Outside(t, F)

LEMMA PlaceTypes ==
  ASSUME Core, NEW t \in Running
  PROVE  t \in Thread /\ pc \in [Thread -> AllLabels]
BY KernelFunctions DEF Core, PlacePart, Running

LEMMA GoesApart ==
  ASSUME Core, GotPart, NEW t \in Running, pc[t] \notin InCopy \cup InReturn,
         NEW p, p \notin InCopy, Goto(t, p), got' = got, NEW F
  PROVE  Apart(F)
<1>1. t \in Thread /\ pc \in [Thread -> AllLabels]
  BY PlaceTypes
<1>2. Outside(t, F)
  BY <1>1 DEF Outside, Goto, GotPart, InCopy, InReturn
<1>. QED BY <1>1, <1>2 DEF Apart

LEMMA FinishApart ==
  ASSUME Core, GotPart, NEW t \in Running, pc[t] \notin InCopy \cup InReturn,
         NEW woke \in BOOLEAN, NEW v, NEW F, Finish(t, woke, v), v = None \/ v.from \in F
  PROVE  Apart(F)
<1>1. t \in Thread /\ pc \in [Thread -> AllLabels]
  BY PlaceTypes
<1>2. got[t] = None
  BY <1>1 DEF GotPart, InCopy, InReturn
<1>3. DOMAIN got' = Thread /\ got'[t] = v /\ \A u \in Thread \ {t} : got'[u] = got[u]
  BY <1>1 DEF Finish, GotPart
<1>4. PICK p : p = IF woke THEN "post" ELSE IF v # None THEN "ret" ELSE "run"
  OBVIOUS
<1>5. pc' = [pc EXCEPT ![t] = p] /\ p \notin InCopy /\ (v # None => p \in InReturn)
  BY <1>4 DEF Finish, Goto, InCopy, InReturn
<1>6. Outside(t, F)
  BY <1>1, <1>2, <1>3, <1>5 DEF Outside
<1>. QED BY <1>1, <1>6 DEF Apart

\* Where a call tests its object
LEMMA AtTest ==
  ASSUME NEW t, NEW c, NEW o,
         \/ Tests(t, c, o) \/ Enters(t, c, o) \/ DqTests(t, c)
         \/ \E op : Starts(t, op, o)
         \/ Failed(t)
  PROVE  pc[t] \notin InCopy \cup InReturn
BY DEF Tests, Enters, Again, DqTests, Starts, Failed, At, InCopy, InReturn

LEMMA BlockApart ==
  ASSUME Core, GotPart, NEW t \in Running, pc[t] \notin InCopy \cup InReturn,
         NEW c, NEW kk, Block(t, c, kk), NEW F
  PROVE  Apart(F)
<1>1. "schedule" \notin InCopy /\ Goto(t, "schedule") /\ got' = got
  BY DEF Block, InCopy
<1>. QED BY <1>1, GoesApart

LEMMA EndsApart ==
  ASSUME Core, GotPart, NEW t \in Running, pc[t] \notin InCopy \cup InReturn,
         Refuse(t) \/ Fail(t), NEW F
  PROVE  Apart(F)
<1>1. "run" \notin InCopy /\ Goto(t, "run") /\ got' = got
  BY DEF Refuse, Fail, InCopy
<1>. QED BY <1>1, GoesApart

LEMMA DetachApart ==
  ASSUME Core, GotPart, NEW t \in Running, NEW op, NEW o, NEW lists, Detach(t, op, o, lists), NEW F
  PROVE  Apart(F)
<1>1. "detach" \notin InCopy /\ Goto(t, "detach") /\ got' = got /\ pc[t] \notin InCopy \cup InReturn
  BY DEF Detach, Starts, At, InCopy, InReturn
<1>. QED BY <1>1, GoesApart

LEMMA CallerApart ==
  ASSUME Core, GotPart, CallerStep
  PROVE  Apart({})
<1>1. CASE Tick \/ \E t \in Thread : Expire(t)
  BY <1>1 DEF Tick, Expire, Apart
<1>2. ASSUME NEW t \in Running, CallSchedule(t) \/ ListTest(t) \/ ListWake(t) \/ DetachObject(t) \/ Sleep(t)
      PROVE  Apart({})
  <2>1. pc[t] \notin InCopy \cup InReturn /\ got' = got
    BY <1>2 DEF CallSchedule, ListTest, ListWake, DetachObject, Sleep, At, InCopy, InReturn
  <2>2. CASE UNCHANGED pc
    BY <2>1, <2>2 DEF Apart
  <2>3. ASSUME NEW p \in {"again", "wake", "detach", "run", "post"}, Goto(t, p) PROVE Apart({})
    BY <2>1, <2>3, GoesApart DEF InCopy
  <2>. QED BY <1>2, <2>2, <2>3 DEF CallSchedule, ListTest, ListWake, DetachObject, Sleep
<1>3. ASSUME NEW t \in Running, PostSchedule(t) \/ Return(t) PROVE Apart({})
  <2>1. t \in Thread /\ pc \in [Thread -> AllLabels]
    BY PlaceTypes
  <2>2. pc[t] \notin InCopy /\ pc' = [pc EXCEPT ![t] = "run"] /\ got' = [got EXCEPT ![t] = None]
    BY <1>3 DEF PostSchedule, Return, At, Goto, InCopy
  <2>3. Outside(t, {})
    BY <2>1, <2>2 DEF Outside, GotPart, InCopy
  <2>. QED BY <2>1, <2>3 DEF Apart
<1>. QED BY <1>1, <1>2, <1>3 DEF CallerStep

LEMMA MbApart ==
  ASSUME Core, GotPart, MbNext
  PROVE  Apart({"mb"})
<1>1. ASSUME NEW t \in Running, NEW c, MbSend(t, c) PROVE Apart({"mb"})
  BY <1>1, AtTest, FinishApart DEF MbSend
<1>2. ASSUME NEW t \in Running, NEW c, MbRecv(t, c) PROVE Apart({"mb"})
  BY <1>2, AtTest, FinishApart DEF MbRecv
<1>3. ASSUME NEW t \in Running, NEW c, MbSendWait(t, c) \/ MbRecvWait(t, c) PROVE Apart({"mb"})
  BY <1>3, AtTest, BlockApart DEF MbSendWait, MbRecvWait, WaitOn
<1>4. ASSUME NEW t \in Running, NEW c, MbSendRefused(t, c) \/ MbRecvRefused(t, c) \/ MbFail(t)
      PROVE  Apart({"mb"})
  BY <1>4, AtTest, EndsApart DEF MbSendRefused, MbRecvRefused, MbFail
<1>5. ASSUME NEW t \in Running, MbReset(t) PROVE Apart({"mb"})
  BY <1>5, AtTest, GoesApart DEF MbReset, InCopy
<1>6. ASSUME NEW t \in Running, MbDetach(t) PROVE Apart({"mb"})
  BY <1>6, DetachApart DEF MbDetach
<1>7. ASSUME NEW v, MbIsrSend(v) PROVE Apart({"mb"})
  BY <1>7 DEF MbIsrSend, Apart
<1>. QED BY <1>1, <1>2, <1>3, <1>4, <1>5, <1>6, <1>7 DEF MbNext

LEMMA DqApart ==
  ASSUME Core, GotPart, DqNext
  PROVE  Apart({"dq"})
<1>1. ASSUME NEW t \in Running, NEW c, DqPush(t, c) PROVE Apart({"dq"})
  BY <1>1, AtTest, FinishApart DEF DqPush
<1>2. ASSUME NEW t \in Running, NEW c, DqPop(t, c) PROVE Apart({"dq"})
  <2>1. WakesPusher \in BOOLEAN
    BY DEF WakesPusher
  <2>. QED BY <1>2, <2>1, AtTest, FinishApart DEF DqPop
<1>3. ASSUME NEW t \in Running, NEW c, DqPushWait(t, c) \/ DqPopWait(t, c) PROVE Apart({"dq"})
  BY <1>3, AtTest, BlockApart DEF DqPushWait, DqPopWait
<1>4. ASSUME NEW t \in Running, NEW c, DqPushRefused(t, c) \/ DqPopRefused(t, c) \/ DqFail(t)
      PROVE  Apart({"dq"})
  BY <1>4, AtTest, EndsApart DEF DqPushRefused, DqPopRefused, DqFail
<1>5. ASSUME NEW t \in Running, DqReset(t) PROVE Apart({"dq"})
  BY <1>5, AtTest, GoesApart DEF DqReset, InCopy
<1>6. ASSUME NEW t \in Running, DqResetEnd(t) PROVE Apart({"dq"})
  BY <1>6, GoesApart DEF DqResetEnd, At, InCopy, InReturn
<1>7. ASSUME NEW v, DqIsrPush(v) \/ DqIsrPop PROVE Apart({"dq"})
  BY <1>7 DEF DqIsrPush, DqIsrPop, Apart
<1>. QED BY <1>1, <1>2, <1>3, <1>4, <1>5, <1>6, <1>7 DEF DqNext

LEMMA EvApart ==
  ASSUME Core, GotPart, EvNext
  PROVE  Apart({"ev", "on"})
<1>1. ASSUME NEW t \in Running, NEW c, EvRecv(t, c) PROVE Apart({"ev", "on"})
  BY <1>1, AtTest, FinishApart DEF EvRecv
<1>2. ASSUME NEW t \in Running, EvReceived(t) PROVE Apart({"ev", "on"})
  BY <1>2, FinishApart DEF EvReceived, At, InCopy, InReturn
<1>3. ASSUME NEW t \in Running, NEW c, EvRecvWait(t, c) PROVE Apart({"ev", "on"})
  BY <1>3, AtTest, BlockApart DEF EvRecvWait, WaitOn
<1>4. ASSUME NEW t \in Running, NEW c, EvRecvRefused(t, c) \/ EvFail(t) PROVE Apart({"ev", "on"})
  BY <1>4, AtTest, EndsApart DEF EvRecvRefused, EvFail
<1>5. ASSUME NEW t \in Running, EvReset(t) PROVE Apart({"ev", "on"})
  BY <1>5, AtTest, GoesApart DEF EvReset, InCopy
<1>6. ASSUME NEW t \in Running, NEW set, EvSend(t, set) PROVE Apart({"ev", "on"})
  <2>1. PICK p \in {"post", "run"} : Goto(t, p)
    BY <1>6 DEF EvSend
  <2>. QED BY <1>6, <2>1, AtTest, GoesApart DEF EvSend, InCopy
<1>7. ASSUME NEW t \in Running, EvDetach(t) PROVE Apart({"ev", "on"})
  BY <1>7, DetachApart DEF EvDetach
<1>8. ASSUME NEW set, EvIsrSend(set) PROVE Apart({"ev", "on"})
  BY <1>8 DEF EvIsrSend, Apart
<1>. QED BY <1>1, <1>2, <1>3, <1>4, <1>5, <1>6, <1>7, <1>8 DEF EvNext

LEMMA MpApart ==
  ASSUME Core, GotPart, MpNext
  PROVE  Apart({})
<1>1. ASSUME NEW t \in Running, NEW c, MpAlloc(t, c) PROVE Apart({})
  BY <1>1, AtTest, FinishApart DEF MpAlloc
<1>2. ASSUME NEW t \in Running, NEW c, MpAllocWait(t, c) PROVE Apart({})
  BY <1>2, AtTest, BlockApart DEF MpAllocWait
<1>3. ASSUME NEW t \in Running, NEW c, MpAllocRefused(t, c) \/ MpFail(t) PROVE Apart({})
  BY <1>3, AtTest, EndsApart DEF MpAllocRefused, MpFail
<1>4. ASSUME NEW t \in Running, NEW b, MpFree(t, b) PROVE Apart({})
  <2>1. PICK p \in {"post", "run"} : Goto(t, p)
    BY <1>4 DEF MpFree
  <2>. QED BY <1>4, <2>1, AtTest, GoesApart DEF MpFree, InCopy
<1>5. ASSUME NEW t \in Running, MpDetach(t) PROVE Apart({})
  BY <1>5, DetachApart DEF MpDetach
<1>6. ASSUME NEW t \in Running, MpDetachWake(t) PROVE Apart({})
  BY <1>6, GoesApart DEF MpDetachWake, ListWake, At, InCopy, InReturn
<1>7. ASSUME NEW b, MpIsrFree(b) PROVE Apart({})
  BY <1>7 DEF MpIsrFree, Apart
<1>. QED BY <1>1, <1>2, <1>3, <1>4, <1>5, <1>6, <1>7 DEF MpNext

LEMMA CpApart ==
  ASSUME Core, GotPart, CpNext
  PROVE  Apart({})
<1>1. ASSUME NEW t \in Running, NEW c, CpWaitDone(t, c) PROVE Apart({})
  BY <1>1, AtTest, FinishApart DEF CpWaitDone
<1>2. ASSUME NEW t \in Running, NEW c, CpWait(t, c) PROVE Apart({})
  BY <1>2, AtTest, BlockApart DEF CpWait
<1>3. ASSUME NEW t \in Running, NEW c, CpWaitRefused(t, c) PROVE Apart({})
  BY <1>3, AtTest, EndsApart DEF CpWaitRefused
<1>4. ASSUME NEW t \in Running, CpReturn(t) \/ CpDone(t) PROVE Apart({})
  BY <1>4, FinishApart DEF CpReturn, CpDone, At, InCopy, InReturn
<1>5. ASSUME NEW t \in Running, CpDoneTest(t) PROVE Apart({})
  BY <1>5, AtTest, GoesApart DEF CpDoneTest, InCopy
<1>6. CASE CpIsrDone
  BY <1>6 DEF CpIsrDone, Apart
<1>. QED BY <1>1, <1>2, <1>3, <1>4, <1>5, <1>6 DEF CpNext

LEMMA PpApart ==
  ASSUME Core, GotPart, PpNext
  PROVE  Apart({})
<1>1. ASSUME NEW t \in Running, NEW op, NEW n, PpCall(t, op, n) PROVE Apart({})
  BY <1>1, AtTest, GoesApart DEF PpCall, InCopy
<1>2. ASSUME NEW t \in Running, PpLockWait(t) PROVE Apart({})
  BY <1>2, BlockApart DEF PpLockWait, At, InCopy, InReturn
<1>3. ASSUME NEW t \in Running, PpLock(t) \/ PpLocked(t) \/ PpOpen(t) \/ PpClose(t)
      PROVE  Apart({})
  <2>1. got' = got /\ pc[t] \notin InCopy \cup InReturn
    BY <1>3 DEF PpLock, PpLocked, PpOpen, PpClose, In, At, InCopy, InReturn
  <2>2. \E p \in {"locked", "unlock"} : Goto(t, p)
    BY <1>3 DEF PpLock, PpLocked, PpOpen, PpClose
  <2>. QED BY <2>1, <2>2, GoesApart DEF InCopy
<1>4. ASSUME NEW t \in Running, PpReadEnd(t) \/ PpReadSome(t) \/ PpWriteEnd(t) \/ PpReadNone(t) \/ PpRelease(t)
      PROVE  Apart({})
  <2>1. got' = got /\ pc[t] \notin InCopy \cup InReturn
    BY <1>4 DEF PpReadEnd, PpReadSome, PpWriteEnd, PpReadNone, PpRelease, Unlock, In, At,
                InCopy, InReturn
  <2>2. \E p \in {"unlock", "rouse", "signal"} : Goto(t, p)
    BY <1>4 DEF PpReadEnd, PpReadSome, PpWriteEnd, PpReadNone, PpRelease, Unlock
  <2>. QED BY <2>1, <2>2, GoesApart DEF InCopy
<1>5. ASSUME NEW t \in Running, PpWriteSome(t) PROVE Apart({})
  <2>1. got' = got /\ pc[t] \notin InCopy \cup InReturn
    BY <1>5 DEF PpWriteSome, In, At, InCopy, InReturn
  <2>2. \E p \in {"unlock", "release"} : Goto(t, p)
    BY <1>5 DEF PpWriteSome
  <2>. QED BY <2>1, <2>2, GoesApart DEF InCopy
<1>6. ASSUME NEW t \in Running, PpSignal(t) \/ PpRouse(t) \/ PpLast(t) PROVE Apart({})
  <2>1. got' = got /\ pc[t] \notin InCopy \cup InReturn
    BY <1>6 DEF PpSignal, PpRouse, PpLast, Wakeup, At, InCopy, InReturn
  <2>2. \E p \in {"wait", "unlock", "run"} : Goto(t, p)
    BY <1>6 DEF PpSignal, PpRouse, PpLast, Wakeup
  <2>. QED BY <2>1, <2>2, GoesApart DEF InCopy
<1>7. ASSUME NEW t \in Running, PpUnlock(t) PROVE Apart({})
  <2>1. got' = got /\ pc[t] \notin InCopy \cup InReturn
    BY <1>7 DEF PpUnlock, Unlock, At, InCopy, InReturn
  <2>2. \E p \in {"last", "run"} : Goto(t, p)
    BY <1>7 DEF PpUnlock, Unlock
  <2>. QED BY <2>1, <2>2, GoesApart DEF InCopy
<1>8. ASSUME NEW t \in Running, PpWait(t) PROVE Apart({})
  <2>1. pc[t] \notin InCopy \cup InReturn
    BY <1>8 DEF PpWait, At, InCopy, InReturn
  <2>2. CASE WqPass(t, Own(t), "lock")
    BY <2>1, <2>2, GoesApart DEF WqPass, InCopy
  <2>3. CASE WqBlock(t, Own(t))
    BY <2>1, <2>3, BlockApart DEF WqBlock
  <2>. QED BY <1>8, <2>2, <2>3 DEF PpWait
<1>9. ASSUME NEW t \in Running, PpWaited(t) PROVE Apart({})
  <2>1. got' = got /\ pc[t] \notin InCopy \cup InReturn
    BY <1>9 DEF PpWaited, WqReturn, WqUnqueue, At, InCopy, InReturn
  <2>2. \E p \in {"unqueue", "lock"} : Goto(t, p)
    BY <1>9 DEF PpWaited, WqReturn, WqUnqueue
  <2>. QED BY <2>1, <2>2, GoesApart DEF InCopy
<1>. QED BY <1>1, <1>2, <1>3, <1>4, <1>5, <1>6, <1>7, <1>8, <1>9 DEF PpNext

LEMMA WkApart ==
  ASSUME Core, GotPart, WkNext
  PROVE  Apart({})
<1>1. ASSUME NEW t \in Running, WkTest(t) PROVE Apart({})
  <2>1. \E p \in {"wk_suspend", "wk_pick"} : Goto(t, p)
    BY <1>1 DEF WkTest
  <2>. QED BY <1>1, <2>1, AtTest, GoesApart DEF WkTest, InCopy
<1>2. ASSUME NEW t \in Running, WkSuspend(t) PROVE Apart({})
  BY <1>2, BlockApart DEF WkSuspend, At, InCopy, InReturn
<1>3. ASSUME NEW t \in Running, WkPick(t) \/ WkDone(t) \/ WkResume(t) PROVE Apart({})
  <2>1. got' = got /\ pc[t] \notin InCopy \cup InReturn
    BY <1>3 DEF WkPick, WkPicks, WkDone, WkResume, At, InCopy, InReturn
  <2>2. \E p \in {"wk_do", "run", "post"} : Goto(t, p)
    BY <1>3 DEF WkPick, WkDone, WkResume
  <2>. QED BY <2>1, <2>2, GoesApart DEF InCopy
<1>4. ASSUME NEW t \in Running, NEW w, WkSubmit(t, w) \/ WkCritical(t, w) PROVE Apart({})
  <2>1. got' = got /\ pc[t] \notin InCopy \cup InReturn
    BY <1>4, AtTest DEF WkSubmit, WkCritical
  <2>2. \E p \in {"wk_resume", "run"} : Goto(t, p)
    BY <1>4 DEF WkSubmit, WkCritical
  <2>. QED BY <2>1, <2>2, GoesApart DEF InCopy
<1>5. ASSUME NEW t, NEW w, WkIsrSubmit(w) \/ WkCancel(t, w) \/ WkCancelAll(t) PROVE Apart({})
  BY <1>5 DEF WkIsrSubmit, WkCancel, WkCancelAll, caller, Apart
<1>. QED BY <1>1, <1>2, <1>3, <1>4, <1>5 DEF WkNext

LEMMA HpApart ==
  ASSUME Core, GotPart, HpNext
  PROVE  Apart({})
<1>1. ASSUME NEW t, NEW s, NEW b, HpMalloc(t, s) \/ HpFree(t, b) \/ HpShrink(t, b, s) PROVE Apart({})
  BY <1>1 DEF HpMalloc, HpFree, HpShrink, caller, Apart
<1>2. ASSUME NEW t \in Running, NEW s, NEW b, HpGrow(t, b, s) PROVE Apart({})
  BY <1>2, AtTest, GoesApart DEF HpGrow, InCopy
<1>3. ASSUME NEW t \in Running, HpGrowMalloc(t) \/ HpGrowFree(t) PROVE Apart({})
  <2>1. got' = got /\ pc[t] \notin InCopy \cup InReturn
    BY <1>3 DEF HpGrowMalloc, HpGrowFree, At, InCopy, InReturn
  <2>2. \E p \in {"hp_move", "run"} : Goto(t, p)
    BY <1>3 DEF HpGrowMalloc, HpGrowFree
  <2>. QED BY <2>1, <2>2, GoesApart DEF InCopy
<1>. QED BY <1>1, <1>2, <1>3 DEF HpNext

LEMMA RbApart ==
  ASSUME RbNext \/ RbbNext
  PROVE  Apart({})
BY DEF RbNext, RbDoGet, RbDoPut, RbDoForce, RbDoCharForce, RbReset, RbbNext, caller, Apart

LEMMA SrApart ==
  ASSUME Core, GotPart, SrNext
  PROVE  Apart({})
<1>1. ASSUME NEW t \in Running, NEW n, SrRead(t, n) \/ SrWrite(t, n) PROVE Apart({})
  <2>1. PICK op : \E p \in {"sr_get", "sr_put"} : SrStarts(t, op, n, p)
    BY <1>1 DEF SrRead, SrWrite
  <2>. QED BY <2>1, AtTest, GoesApart DEF SrStarts, InCopy
<1>2. ASSUME NEW t \in Running, SrGet(t) \/ SrFlush(t) \/ SrPut(t) PROVE Apart({})
  BY <1>2 DEF SrGet, SrFlush, SrPut, caller, Apart
<1>3. ASSUME NEW t \in Running,
             \/ SrReadEnd(t) \/ SrReadNone(t) \/ SrPutRefused(t) \/ SrPutAgain(t) \/ SrPutWaited(t)
             \/ SrWritten(t)
      PROVE  Apart({})
  <2>1. got' = got /\ pc[t] \notin InCopy \cup InReturn
    BY <1>3 DEF SrReadEnd, SrReadNone, SrPutRefused, SrPutAgain, SrPutWaited, SrWritten, SrReturns,
                At, InCopy, InReturn
  <2>2. \E p \in {"run", "sr_wait", "sr_busy", "sr_put"} : Goto(t, p)
    BY <1>3 DEF SrReadEnd, SrReadNone, SrPutRefused, SrPutAgain, SrPutWaited, SrWritten, SrReturns
  <2>. QED BY <2>1, <2>2, GoesApart DEF InCopy
<1>4. ASSUME NEW t \in Running, SrWait(t) PROVE Apart({})
  <2>1. pc[t] \notin InCopy \cup InReturn
    BY <1>4 DEF SrWait, At, InCopy, InReturn
  <2>2. CASE WqPass(t, "serial", "sr_get")
    BY <2>1, <2>2, GoesApart DEF WqPass, InCopy
  <2>3. CASE WqBlock(t, "serial")
    BY <2>1, <2>3, BlockApart DEF WqBlock
  <2>. QED BY <1>4, <2>2, <2>3 DEF SrWait
<1>5. ASSUME NEW t \in Running, SrWaited(t) PROVE Apart({})
  <2>1. got' = got /\ pc[t] \notin InCopy \cup InReturn
    BY <1>5 DEF SrWaited, WqReturn, WqUnqueue, At, InCopy, InReturn
  <2>2. \E p \in {"unqueue", "sr_get"} : Goto(t, p)
    BY <1>5 DEF SrWaited, WqReturn, WqUnqueue
  <2>. QED BY <2>1, <2>2, GoesApart DEF InCopy
<1>6. ASSUME NEW t \in Running, SrPutWait(t) PROVE Apart({})
  BY <1>6, BlockApart DEF SrPutWait, At, InCopy, InReturn
<1>7. ASSUME NEW s, SrIsrReceive(s) PROVE Apart({})
  BY <1>7 DEF SrIsrReceive, Apart
<1>8. CASE SrIsrSent
  BY <1>8 DEF SrIsrSent, Apart
<1>9. ASSUME NEW c, SrIdleStore(c) \/ SrIdleLength \/ SrIdleWake PROVE Apart({})
  <2>1. got' = got /\ Idle \in Running /\ pc[Idle] \notin InCopy \cup InReturn
    BY <1>9 DEF SrIdleStore, SrIdleLength, SrIdleWake, At, Running, InCopy, InReturn
  <2>2. \E p \in {"sr_length", "run", "sr_wake"} : Goto(Idle, p)
    BY <1>9 DEF SrIdleStore, SrIdleLength, SrIdleWake
  <2>. QED BY <2>1, <2>2, GoesApart DEF InCopy
<1>. QED BY <1>1, <1>2, <1>3, <1>4, <1>5, <1>6, <1>7, <1>8, <1>9 DEF SrNext

\* A call of the client goes on, or returns
ClientMoves(t) ==
  \/ \E c, p : OnGoes(t, c, p) /\ p \notin InCopy
  \/ \E op, result : OnReturns(t, op, result)

LEMMA ClientApart ==
  ASSUME Core, GotPart, NEW t \in Running, pc[t] \notin InCopy \cup InReturn, ClientMoves(t)
  PROVE  Apart({"ev", "on"})
<1>1. ASSUME NEW c, NEW p, OnGoes(t, c, p), p \notin InCopy PROVE Apart({"ev", "on"})
  BY <1>1, GoesApart DEF OnGoes
<1>2. ASSUME NEW op, NEW result, OnReturns(t, op, result) PROVE Apart({"ev", "on"})
  <2>1. PICK v : v = [from |-> "on",
                      value |-> [op |-> op, result |-> result, said |-> seen.said,
                                 calm |-> seen.calm /\ ~At(t, "run") /\ ~Failed(t),
                                 mistaken |-> seen.mistaken]]
    OBVIOUS
  <2>2. v.from = "on" /\ Finish(t, FALSE, v)
    BY <1>2, <2>1 DEF OnReturns
  <2>. QED BY <2>2, FinishApart
<1>. QED BY <1>1, <1>2 DEF ClientMoves

LEMMA ClientOpenMoves ==
  ASSUME NEW t, NEW op, NEW far, OnOpenFails(t, op, far)
  PROVE  ClientMoves(t)
BY DEF OnOpenFails, ClientMoves, InCopy

LEMMA OnApart ==
  ASSUME Core, GotPart, OnNext
  PROVE  Apart({"ev", "on"})
<1>0. \A p \in OnPlaces : p \notin InCopy \cup InReturn
  BY DEF OnPlaces, InCopy, InReturn
<1>1. CASE CisNext
  BY <1>1 DEF CisNext, CisSend, caller, Apart
<1>2. ASSUME NEW t \in Running, OnDelete(t) PROVE Apart({"ev", "on"})
  BY <1>2 DEF OnDelete, Apart
<1>3. ASSUME NEW t \in Running, OnRecvWait(t) PROVE Apart({"ev", "on"})
  BY <1>3, BlockApart DEF OnRecvWait, WaitOn, At, InCopy, InReturn
<1>4. ASSUME NEW t \in Running, NEW op, OnBegins(t, op) PROVE pc[t] \notin InCopy \cup InReturn
  BY <1>4, AtTest DEF OnBegins
<1>5. ASSUME NEW t \in Running, OnStart(t) PROVE Apart({"ev", "on"})
  <2>1. ClientMoves(t)
    <3>1. CASE OnGoes(t, OnCall("on_start", RegBit), "on_objects")
      BY <3>1, <1>0 DEF ClientMoves, OnPlaces
    <3>. QED BY <1>5, <3>1, ClientOpenMoves DEF OnStart
  <2>. QED BY <1>4, <1>5, <2>1, ClientApart DEF OnStart
<1>6. ASSUME NEW t \in Running, NEW op, NEW r, NEW bits,
             \/ OnOpen(t, op) \/ OnClose(t, op) \/ OnRequest(t, op, r, bits)
      PROVE  Apart({"ev", "on"})
  <2>1. pc[t] \notin InCopy \cup InReturn
    BY <1>0, <1>4, <1>6 DEF OnOpen, OnClose, OnRequest, At, OnPlaces
  <2>2. ClientMoves(t)
    <3>1. ASSUME NEW c, NEW p \in {"on_asked", "on_recv"}, OnGoes(t, c, p) PROVE ClientMoves(t)
      BY <3>1, <1>0 DEF ClientMoves, OnPlaces
    <3>2. ASSUME NEW result, OnReturns(t, op, result) PROVE ClientMoves(t)
      BY <3>2 DEF ClientMoves
    <3>. QED BY <1>6, <3>1, <3>2, ClientOpenMoves DEF OnOpen, OnClose, OnRequest
  <2>. QED BY <2>1, <2>2, ClientApart
<1>7. ASSUME NEW t \in Running, OnObjects(t) \/ OnAsked(t) \/ OnRecv(t) \/ OnReceived(t)
      PROVE  Apart({"ev", "on"})
  <2>1. pc[t] \notin InCopy \cup InReturn
    BY <1>7 DEF OnObjects, OnAsked, OnRecv, OnReceived, At, InCopy, InReturn
  <2>2. \E c, p : OnGoes(t, c, p) /\ p \in OnPlaces
    BY <1>7 DEF OnObjects, OnAsked, OnRecv, OnReceived, OnPlaces
  <2>3. ClientMoves(t)
    BY <2>2, <1>0 DEF ClientMoves
  <2>. QED BY <2>1, <2>3, ClientApart
<1>8. ASSUME NEW t \in Running, OnTimeout(t) PROVE Apart({"ev", "on"})
  <2>1. ClientMoves(t)
    <3>1. ASSUME NEW op, NEW result, OnReturns(t, op, result) PROVE ClientMoves(t)
      BY <3>1 DEF ClientMoves
    <3>. QED BY <1>8, <3>1, ClientOpenMoves DEF OnTimeout
  <2>. QED BY <1>8, <2>1, AtTest, ClientApart DEF OnTimeout
<1>9. ASSUME NEW t \in Running,
             \/ OnRegistered(t) \/ OnObserved(t) \/ OnDiscovered(t)
             \/ OnClosed(t) \/ OnUpdated(t) \/ OnNotified(t)
      PROVE  Apart({"ev", "on"})
  <2>1. pc[t] \notin InCopy \cup InReturn
    BY <1>9 DEF OnRegistered, OnObserved, OnDiscovered, OnClosed, OnUpdated, OnNotified,
                Received, At, InCopy, InReturn
  <2>2. ASSUME NEW c, OnGoes(t, c, "on_recv") PROVE ClientMoves(t)
    BY <2>2, <1>0 DEF ClientMoves, OnPlaces
  <2>3. ASSUME NEW op, NEW result, OnReturns(t, op, result) PROVE ClientMoves(t)
    BY <2>3 DEF ClientMoves
  <2>4. ASSUME OnRegistered(t) \/ OnObserved(t) \/ OnDiscovered(t) PROVE ClientMoves(t)
    BY <2>2, <2>3, <2>4, ClientOpenMoves DEF OnRegistered, OnObserved, OnDiscovered
  <2>5. ASSUME OnClosed(t) \/ OnUpdated(t) \/ OnNotified(t) PROVE ClientMoves(t)
    BY <2>3, <2>5 DEF OnClosed, OnUpdated, OnNotified
  <2>. QED BY <1>9, <2>1, <2>4, <2>5, ClientApart
<1>. QED BY <1>1, <1>2, <1>3, <1>5, <1>6, <1>7, <1>8, <1>9 DEF OnNext

LEMMA ApartMore ==
  ASSUME NEW F, NEW G, F \subseteq G, Apart(F)
  PROVE  Apart(G)
BY DEF Apart, Outside

\* A step is one of the three queues, or leaves them alone
LEMMA QueueSteps ==
  ASSUME Core, GotPart, [Next]_vars
  PROVE  \/ MbNext /\ UNCHANGED <<mq, hand, dq>>
         \/ MqNext /\ UNCHANGED <<mb, dq>>
         \/ DqNext /\ UNCHANGED <<mb, mq, hand>>
         \/ Apart({"ev", "on"}) /\ UNCHANGED <<mb, mq, hand, dq>>
<1>0. {} \subseteq {"ev", "on"}
  OBVIOUS
<1>1. CASE UNCHANGED vars
  BY <1>1 DEF vars, caller, Apart
<1>2. CASE Next
  <2>1. ASSUME \/ CallerStep \/ MpNext \/ CpNext \/ RbNext \/ PpNext \/ WkNext \/ HpNext
               \/ SrNext \/ RbbNext
        PROVE  Apart({"ev", "on"})
    <3>1. Apart({})
      BY <2>1, CallerApart, MpApart, CpApart, RbApart, PpApart, WkApart, HpApart, SrApart
    <3>. QED BY <1>0, <3>1, ApartMore
  <2>2. ASSUME EvNext \/ OnNext PROVE Apart({"ev", "on"})
    BY <2>2, EvApart, OnApart
  <2>. QED BY <1>2, <2>1, <2>2 DEF Next
<1>. QED BY <1>1, <1>2

LEMMA ApartGot ==
  ASSUME GotPart, NEW F, Apart(F)
  PROVE  GotPart'
BY DEF GotPart, Apart, Outside, InReturn

-----------------------------------------------------------------------------
(***************************************************************************)
(* The steps of each module keep the invariant.                            *)
(***************************************************************************)

LEMMA CallerStepKeeps ==
  ASSUME Core, CallerStep
  PROVE  CoreStep
<1>0. KernelInv(k, {})
  BY DEF Core
<1>1. CASE Tick
  BY <1>0, <1>1, RotateWakes, Handles DEF Tick
<1>2. ASSUME NEW t \in Thread, Expire(t) PROVE CoreStep
  BY <1>0, <1>2, TimeoutWakes, Handles DEF Expire
<1>3. ASSUME NEW t \in Running, CallSchedule(t) PROVE CoreStep
  BY <1>3, Reschedules DEF CallSchedule, At
<1>4. ASSUME NEW t \in Running, PostSchedule(t) PROVE CoreStep
  BY <1>4, Reschedules DEF PostSchedule, At
<1>5. ASSUME NEW t \in Running, Return(t) PROVE CoreStep
  <2>1. Free(t) /\ t # Idle
    BY <1>5, InsideFree DEF Return, At
  <2>2. CallFits("run", call[t]) /\ "run" \in AllLabels
    <3>1. CallFits(pc[t], call[t])
      BY <2>1 DEF Core, PlacePart, Free
    <3>. QED BY <1>5, <3>1 DEF Return, At, CallFits, AllLabels
  <2>3. Wakes(k, k') /\ alive' \subseteq Object
    BY <1>0, <1>5, NothingWakes, AliveKept DEF Return
  <2>. QED BY <1>5, <2>1, <2>2, <2>3, GoesOn DEF Return
<1>6. ASSUME NEW t \in Running, Sleep(t) PROVE CoreStep
  <2>1. t \in Thread /\ t = k.cur /\ use.calls[Idle] = {}
    BY <1>0, KernelFunctions, CallerAssumption DEF Core, PlacePart, Running
  <2>2. t # Idle /\ Free(t)
    BY <1>6, <2>1 DEF Sleep, At, Free
  <2>3. Sleeps(k, Suspend(k, t), t, {})
    BY <1>0, <2>1, <2>2, SuspendBlocks, NothingReadies, IsReady
  <2>4. Sleeps(k, k', t, {})
    BY <1>0, <1>6, <2>1, <2>3, TimedBlocks DEF Sleep
  <2>5. DOMAIN call' = Thread /\ call' = call /\ alive' = alive /\ use' = use
    BY <1>6 DEF Sleep, Core, PlacePart
  <2>6. CallFits("post", call[t])
    <3>1. CallFits(pc[t], call[t])
      BY <2>1 DEF Core, PlacePart
    <3>. QED BY <1>6, <3>1 DEF Sleep, At, CallFits
  <2>. QED BY <1>6, <2>1, <2>2, <2>4, <2>5, <2>6, Waits DEF Sleep, Goto, Free
<1>. QED BY <1>1, <1>2, <1>3, <1>4, <1>5, <1>6, ListTestKeeps, DetachObjectKeeps, ListWakeKeeps
     DEF CallerStep

LEMMA SendsMail ==
  ASSUME NEW c \in SendMail
  PROVE  c \in WaitCall /\ c.op = "mb_send"
BY DEF SendMail, Calls, WaitCall

LEMMA ReceivesMail ==
  ASSUME NEW c \in RecvMail
  PROVE  c \in WaitCall /\ c.op = "mb_recv"
BY DEF RecvMail, Calls, WaitCall

\* rt_mb_control(RT_IPC_CMD_RESET): both lists are empty after it
LEMMA MailResets ==
  ASSUME Core, NEW r, r = WakeAllFailed(WakeAllFailed(k, "mb.recv"), "mb.send")
  PROVE  Wakes(k, r) /\ r.wait["mb.recv"] = <<>> /\ r.wait["mb.send"] = <<>>
<1>1. /\ Wakes(k, k) /\ NoneClosed(k) /\ KernelInv(k, {})
      /\ "mb.recv" \in WaitList /\ "mb.send" \in WaitList
  BY NothingWakes, MailboxAssumption, SMTT(60) DEF Core, RunningPart
<1>2. PICK b : b = WakeAllFailed(k, "mb.recv")
  OBVIOUS
<1>3. Wakes(k, b) /\ b.wait["mb.recv"] = <<>> /\ NoneClosed(b)
  BY <1>1, <1>2, WakeAllWakes, WakesOpen
<1>4. Wakes(k, r) /\ Wakes(b, r) /\ r.wait["mb.send"] = <<>>
  BY <1>1, <1>2, <1>3, WakeAllWakes
<1>5. r.wait["mb.recv"] = <<>>
  <2>1. \A u : ~Contains(r.wait["mb.recv"], u)
    BY <1>1, <1>3, <1>4, EmptyList DEF Wakes
  <2>. QED BY <1>1, <1>4, <2>1, FirstWaiter DEF Wakes
<1>. QED BY <1>4, <1>5

LEMMA MbKeeps ==
  ASSUME Core, MbNext
  PROVE  CoreStep
<1>0. Wakes(k, k) /\ "mb.recv" \in WaitList /\ "mb.send" \in WaitList
  BY NothingWakes, MailboxAssumption, SMTT(60) DEF Core
<1>1. ASSUME NEW t \in Running, NEW c \in SendMail, MbSend(t, c) PROVE CoreStep
  BY <1>0, <1>1, TestsFree, WakeOneWakes, Finishes DEF MbSend
<1>2. ASSUME NEW t \in Running, NEW c \in SendMail, MbSendWait(t, c) PROVE CoreStep
  <2>1. <<"mb.send", c.op>> \in WaitPairs
    BY SendsMail DEF WaitPairs
  <2>. QED BY <1>0, <1>2, <2>1, TestsFree, SendsMail, WaitsOn DEF MbSendWait, WaitOn
<1>3. ASSUME NEW t \in Running, NEW c \in SendMail, MbSendRefused(t, c) PROVE CoreStep
  BY <1>3, TestsFree, Refuses DEF MbSendRefused
<1>4. ASSUME NEW t \in Running, NEW c \in RecvMail, MbRecv(t, c) PROVE CoreStep
  BY <1>0, <1>4, TestsFree, WakeOneWakes, Finishes DEF MbRecv
<1>5. ASSUME NEW t \in Running, NEW c \in RecvMail, MbRecvWait(t, c) PROVE CoreStep
  <2>1. <<"mb.recv", c.op>> \in WaitPairs
    BY ReceivesMail DEF WaitPairs
  <2>. QED BY <1>0, <1>5, <2>1, TestsFree, ReceivesMail, WaitsOn DEF MbRecvWait, WaitOn
<1>6. ASSUME NEW t \in Running, NEW c \in RecvMail, MbRecvRefused(t, c) PROVE CoreStep
  BY <1>6, TestsFree, Refuses DEF MbRecvRefused
<1>7. ASSUME NEW t \in Running, MbFail(t) PROVE CoreStep
  BY <1>7, Fails DEF MbFail
<1>8. ASSUME NEW t \in Running, MbReset(t) PROVE CoreStep
  <2>1. Wakes(k, k')
    BY <1>0, <1>8, MailResets DEF MbReset
  <2>. QED BY <1>8, <2>1, StartsGo DEF MbReset
<1>9. ASSUME NEW t \in Running, MbDetach(t) PROVE CoreStep
  <2>1. <<"mb.recv", "mb.send">> \in Seq(WaitList) /\ "mb" \in Object
    BY <1>0 DEF Object
  <2>2. Detach(t, "mb_detach", "mb", <<"mb.recv", "mb.send">>)
    BY <1>9 DEF MbDetach
  <2>. QED BY <2>1, <2>2, Detaches
<1>10. ASSUME NEW v \in Mail, MbIsrSend(v) PROVE CoreStep
  BY <1>0, <1>10, WakeOneWakes, Handles DEF MbIsrSend
<1>. QED BY <1>1, <1>2, <1>3, <1>4, <1>5, <1>6, <1>7, <1>8, <1>9, <1>10, SMTT(60) DEF MbNext

LEMMA AllocatesBlock ==
  ASSUME NEW c \in AllocBlock
  PROVE  c \in WaitCall /\ c.op = "mp_alloc"
BY DEF AllocBlock, Calls, WaitCall

\* rt_mp_alloc links its thread in front of the list, and suspended threads in it are others
LEMMA MpAllocWaits ==
  ASSUME Core, NEW t, Free(t), t # Idle
  PROVE  Sleeps(k, [Suspend([k EXCEPT !.err[t] = "EOK"], t) EXCEPT !.wait["mp"] = <<t>> \o @],
                t, {"mp"})
<1>1. t \in Thread /\ KernelInv(k, {}) /\ k.stat[t] = "ready" /\ "mp" \in WaitList
  BY IsReady, MemPoolAssumption DEF Free, Core
<1>2. PICK x : x = [k EXCEPT !.err[t] = "EOK"]
  OBVIOUS
<1>3. Readies(k, x, t) /\ x.err[t] = "EOK"
  BY <1>1, <1>2, ErrorReadies DEF Error
<1>4. PICK s : s = Suspend(x, t)
  OBVIOUS
<1>5. KernelInv(s, {}) /\ Suspended(x, s, t)
  BY <1>1, <1>3, <1>4, SuspendKeeps DEF Readies
<1>6. /\ s.wait = k.wait /\ s.stat = [k.stat EXCEPT ![t] = "suspend"] /\ s.stat[t] = "suspend"
      /\ s.cur = k.cur /\ s.lock = k.lock /\ s.prio = k.prio
      /\ s.err[t] = "EOK" /\ \A u \in Thread \ {t} : s.err[u] = k.err[u]
  <2>1. k.stat \in [Thread -> Stat]
    BY <1>1, KernelFunctions
  <2>. QED BY <1>1, <1>3, <1>5, <2>1 DEF Suspended, Readies
<1>7. \A w \in WaitList : ~Contains(s.wait[w], t)
  BY <1>1, <1>6, KernelFunctions
<1> DEFINE q == <<t>> \o s.wait["mp"]
<1>8. q \in Seq(Thread) /\ Distinct(q) /\ \A u : Contains(q, u) <=> Contains(s.wait["mp"], u) \/ u = t
  <2>1. s.wait["mp"] \in Seq(Thread) /\ Distinct(s.wait["mp"])
    BY <1>1, <1>5 DEF KernelInv, KernelType, WaitListsExact
  <2>. QED BY <1>1, <1>7, <2>1, ConsList
<1> HIDE DEF q
<1>9. PICK z : z = [s EXCEPT !.wait = [s.wait EXCEPT !["mp"] = q]]
  OBVIOUS
<1>10. KernelInv(z, {})
  BY <1>1, <1>5, <1>6, <1>7, <1>8, <1>9, LinkKeeps
<1>11. z = [s EXCEPT !.wait["mp"] = <<t>> \o @]
  BY <1>9 DEF q
<1>12. /\ z.cur = s.cur /\ z.lock = s.lock /\ z.prio = s.prio /\ z.stat = s.stat /\ z.err = s.err
       /\ z.wait = [s.wait EXCEPT !["mp"] = q]
  BY <1>5, <1>9 DEF KernelInv, KernelType
<1>13. ASSUME NEW w \in WaitList, NEW u, Contains(z.wait[w], u)
       PROVE  Contains(k.wait[w], u) \/ (u = t /\ w \in {"mp"})
  <2>1. s.wait \in [WaitList -> Seq(Thread)]
    BY <1>5, KernelFunctions
  <2>. QED BY <1>6, <1>8, <1>12, <1>13, <2>1
<1>14. Sleeps(k, z, t, {"mp"})
  BY <1>6, <1>10, <1>12, <1>13 DEF Sleeps
<1>. QED BY <1>2, <1>4, <1>11, <1>14

LEMMA MpKeeps ==
  ASSUME Core, MpNext
  PROVE  CoreStep
<1>0. Wakes(k, k) /\ "mp" \in WaitList
  BY NothingWakes, MemPoolAssumption DEF Core
<1>1. ASSUME NEW t \in Running, NEW c \in AllocBlock, MpAlloc(t, c) PROVE CoreStep
  BY <1>0, <1>1, TestsFree, Finishes DEF MpAlloc
<1>2. ASSUME NEW t \in Running, NEW c \in AllocBlock, MpAllocWait(t, c) PROVE CoreStep
  <2>1. \A w \in {"mp"} : <<w, c.op>> \in WaitPairs
    BY AllocatesBlock DEF WaitPairs
  <2>2. PICK kk : kk = [Suspend([k EXCEPT !.err[t] = "EOK"], t) EXCEPT !.wait["mp"] = <<t>> \o @]
    OBVIOUS
  <2>3. Free(t) /\ t # Idle /\ Block(t, c, kk)
    BY <1>2, <2>2, TestsFree DEF MpAllocWait
  <2>4. Sleeps(k, kk, t, {"mp"})
    BY <2>2, <2>3, MpAllocWaits
  <2>. QED BY <2>1, <2>3, <2>4, AllocatesBlock, Suspends
<1>3. ASSUME NEW t \in Running, NEW c \in AllocBlock, MpAllocRefused(t, c) PROVE CoreStep
  BY <1>3, TestsFree, Refuses DEF MpAllocRefused
<1>4. ASSUME NEW t \in Running, NEW b, MpFree(t, b) PROVE CoreStep
  <2>1. Wakes(k, k')
    BY <1>0, <1>4, WakeOneWakes DEF MpFree
  <2>. QED BY <1>4, <2>1, StartsGo DEF MpFree
<1>5. ASSUME NEW t \in Running, MpFail(t) PROVE CoreStep
  BY <1>5, Fails DEF MpFail
<1>6. ASSUME NEW t \in Running, MpDetach(t) PROVE CoreStep
  <2>1. <<"mp">> \in Seq(WaitList) /\ "mp" \in Object
    BY <1>0 DEF Object
  <2>2. Detach(t, "mp_detach", "mp", <<"mp">>)
    BY <1>6 DEF MpDetach
  <2>. QED BY <2>1, <2>2, Detaches
<1>7. ASSUME NEW t \in Running, MpDetachWake(t) PROVE CoreStep
  BY <1>7, ListWakeKeeps DEF MpDetachWake
<1>8. ASSUME NEW b, MpIsrFree(b) PROVE CoreStep
  BY <1>0, <1>8, WakeOneWakes, Handles DEF MpIsrFree
<1>. QED BY <1>1, <1>2, <1>3, <1>4, <1>5, <1>6, <1>7, <1>8 DEF MpNext

LEMMA ReceivesMessage ==
  ASSUME NEW c \in RecvMessage
  PROVE  c \in WaitCall /\ c.op = "mq_recv" /\ c \in [op : {"mq_recv"}, arg : {None}, time : AllTimes]
BY DEF RecvMessage, Calls, WaitCall

LEMMA MqKeeps ==
  ASSUME Core, MqNext
  PROVE  CoreStep
<1>0. Wakes(k, k) /\ "mq" \in WaitList
  BY NothingWakes, MessageQueueAssumption DEF Core
<1>1. ASSUME NEW t \in Running, NEW c \in SendMessage, MqSend(t, c) PROVE CoreStep
  <2>1. CallFits("link", c) /\ "link" \in AllLabels
    BY DEF SendMessage, CallFits, AllLabels, Labels
  <2>. QED BY <1>0, <1>1, <2>1, StartsFree, AliveKept, Goes DEF MqSend
<1>2. ASSUME NEW t \in Running, NEW c \in RecvMessage, MqRecv(t, c) PROVE CoreStep
  <2>1. CallFits("copy", c) /\ "copy" \in AllLabels
    BY ReceivesMessage DEF CallFits, AllLabels, Labels
  <2>. QED BY <1>0, <1>2, <2>1, TestsFree, AliveKept, Goes DEF MqRecv
<1>3. ASSUME NEW t \in Running, NEW c \in RecvMessage, MqRecvWait(t, c) PROVE CoreStep
  <2>1. <<"mq", c.op>> \in WaitPairs
    BY ReceivesMessage DEF WaitPairs
  <2>. QED BY <1>0, <1>3, <2>1, TestsFree, ReceivesMessage, WaitsOn DEF MqRecvWait, WaitOn
<1>4. ASSUME NEW t \in Running, NEW c \in RecvMessage, MqRecvRefused(t, c) PROVE CoreStep
  BY <1>4, TestsFree, Refuses DEF MqRecvRefused
<1>5. ASSUME NEW t \in Running, MqLink(t) PROVE CoreStep
  BY <1>0, <1>5, InsideFree, WakeOneWakes, Finishes DEF MqLink, At
<1>6. ASSUME NEW t \in Running, MqCopy(t) PROVE CoreStep
  BY <1>0, <1>6, InsideFree, Finishes DEF MqCopy, At
<1>7. ASSUME NEW t \in Running, MqFail(t) PROVE CoreStep
  BY <1>7, Fails DEF MqFail
<1>8. ASSUME NEW t \in Running, MqReset(t) PROVE CoreStep
  <2>1. Wakes(k, k')
    BY <1>0, <1>8, WakeAllWakes DEF MqReset, Core, RunningPart
  <2>. QED BY <1>8, <2>1, StartsGo DEF MqReset
<1>9. ASSUME NEW t \in Running, MqDetach(t) PROVE CoreStep
  <2>1. <<"mq">> \in Seq(WaitList) /\ "mq" \in Object
    BY <1>0 DEF Object
  <2>2. Detach(t, "mq_detach", "mq", <<"mq">>)
    BY <1>9 DEF MqDetach
  <2>. QED BY <2>1, <2>2, Detaches
<1>10. ASSUME NEW v, MqIsrSend(v) PROVE CoreStep
  BY <1>0, <1>10, WakeOneWakes, Handles DEF MqIsrSend
<1>. QED BY <1>1, <1>2, <1>3, <1>4, <1>5, <1>6, <1>7, <1>8, <1>9, <1>10 DEF MqNext

-----------------------------------------------------------------------------
(***************************************************************************)
(* rt_event_send: a loop along the suspend list of the event.              *)
(***************************************************************************)

\* The calls that wait for events
Wishes == EventCall \cup ClientCall

\* What a pass makes of the calls
Served(c) ==
  /\ DOMAIN c = Thread
  /\ \A u \in Thread :
       c[u] = call[u] \/ (Contains(k.wait["ev"], u) /\ c[u] \in Wishes /\ c[u].op = call[u].op)

\* The states of the loop
Passing(set) ==
  {s \in [k : Kernel, call : {call} \cup [Thread -> Wishes \cup {call[u] : u \in Thread}],
          set : SUBSET (ev \cup set)] :
     /\ Wakes(k, s.k) /\ Served(s.call)
     /\ \A u \in Thread : s.call[u] = call[u] \/ s.k.stat[u] = "ready"}

\* After its round a waiter is awake, or the bits left are not what it waits for
Looked(s, u) ==
  s.k.stat[u] = "ready" \/ ~Satisfied(call[u].arg.want, call[u].arg.all, s.set)

LEMMA WaitersWish ==
  ASSUME Core, NEW t \in Thread, Contains(k.wait["ev"], t)
  PROVE  call[t] \in Wishes /\ pc[t] \in {"schedule", "again"}
<1>1. pc[t] \in {"schedule", "again"} /\ <<"ev", call[t].op>> \in WaitPairs
  BY EventAssumption DEF Core, WaitingPart
<1>2. call[t] \in WaitCall
  BY <1>1 DEF Core, PlacePart, CallFits
<1>3. call[t].op \in {"ev_recv"} \cup OnOps
  BY <1>1 DEF WaitPairs
<1>4. call[t] \in Wishes
  BY <1>2, <1>3 DEF WaitCall, Wishes, EventCall, ClientCall, PipeCall, SerialCall, OnOps, PpOp
<1>. QED BY <1>1, <1>4

LEMMA WishesWait == Wishes \subseteq WaitCall
BY DEF Wishes, WaitCall

\* One round
LEMMA ServeRound ==
  ASSUME Core, NEW set, NEW s \in Passing(set), NEW t \in Thread, Contains(k.wait["ev"], t)
  PROVE  /\ EvServe(s, t) \in Passing(set) /\ Looked(EvServe(s, t), t)
         /\ \A u \in Thread : Looked(s, u) => Looked(EvServe(s, t), u)
<1> DEFINE w == s.call[t].arg
           received == IF w.all THEN w.want ELSE w.want \cap s.set
<1>1. Served(s.call) /\ Wakes(k, s.k) /\ s.set \subseteq ev \cup set
  BY DEF Passing
<1>2. s.call[t] \in Wishes /\ s.call[t].op = call[t].op
  BY <1>1, WaitersWish DEF Served
<1>0. \A u \in Thread : s.call[u] = call[u] \/ s.k.stat[u] = "ready"
  BY DEF Passing
<1>3. CASE ~Satisfied(w.want, w.all, s.set)
  <2>1. EvServe(s, t) = s
    BY <1>3 DEF EvServe
  <2>2. Looked(s, t)
    BY <1>0, <1>3 DEF Looked
  <2>. QED BY <2>1, <2>2
<1>4. CASE Satisfied(w.want, w.all, s.set)
  <2>1. w \in EvWish
    BY <1>2 DEF Wishes, EventCall, ClientCall
  <2>2. received \in (SUBSET EvBit) \ {{}}
    BY <1>4, <2>1 DEF EvWish, Satisfied
  <2> HIDE DEF received
  <2>3. PICK c : c = [s.call[t] EXCEPT !.arg.want = received]
    OBVIOUS
  <2>4. c \in Wishes /\ c.op = call[t].op
    BY <1>2, <2>2, <2>3 DEF Wishes, EventCall, ClientCall, EvWish
  <2>5. PICK d : d = [s.call EXCEPT ![t] = c]
    OBVIOUS
  <2>6. DOMAIN d = Thread /\ d[t] = c /\ \A u \in Thread \ {t} : d[u] = s.call[u]
    BY <1>1, <2>5 DEF Served
  <2>7. Served(d)
    BY <1>1, <2>4, <2>6 DEF Served
  <2>8. d \in [Thread -> Wishes \cup {call[u] : u \in Thread}]
    <3>1. \A u \in Thread : d[u] \in Wishes \cup {call[v] : v \in Thread}
      BY <2>7 DEF Served
    <3>2. d = [u \in Thread |-> d[u]]
      BY <1>1, <2>5, <2>6 DEF Served
    <3>. QED BY <3>1, <3>2
  <2>9. PICK z : z = Resume(s.k, t)
    OBVIOUS
  <2>10. /\ Wakes(k, z) /\ z \in Kernel /\ z.stat[t] = "ready"
         /\ \A u \in Thread : s.k.stat[u] = "ready" => z.stat[u] = "ready"
    <3>1. Wakes(k, z)
      BY <1>1, <2>9, ResumeWakes
    <3>2. s.k.stat[t] \in {"suspend", "ready"}
      BY <1>1, WaiterSuspended, EventAssumption DEF Core, RunningPart, Wakes
    <3>3. KernelInv(s.k, {}) /\ s.k.stat \in [Thread -> Stat]
      BY <1>1 DEF Wakes, KernelInv, KernelType
    <3>4. CASE s.k.stat[t] = "suspend"
      <4>1. Woken(s.k, z, t)
        BY <2>9, <3>3, <3>4, ResumeKeeps
      <4>. QED BY <3>1, <3>3, <4>1 DEF Woken, Wakes, KernelInv, KernelType, Kernel
    <3>5. CASE s.k.stat[t] = "ready"
      <4>1. z = s.k
        BY <2>9, <3>5 DEF Resume
      <4>. QED BY <3>1, <3>5, <4>1 DEF Wakes, KernelInv, KernelType, Kernel
    <3>. QED BY <3>2, <3>4, <3>5
  <2>11. PICK x : x = IF w.clear THEN s.set \ received ELSE s.set
    OBVIOUS
  <2>12. x \in SUBSET (ev \cup set)
    BY <1>1, <2>11
  <2>13. EvServe(s, t) = [k |-> z, call |-> d, set |-> x]
    BY <1>4, <2>3, <2>5, <2>9, <2>11 DEF EvServe, received
  <2>14. PICK y : y = [k |-> z, call |-> d, set |-> x]
    OBVIOUS
  <2>15. y.k = z /\ y.call = d /\ y.set = x
    BY <2>14
  <2>16. \A u \in Thread : d[u] = call[u] \/ z.stat[u] = "ready"
    BY <1>0, <2>6, <2>10
  <2>17. y \in Passing(set)
    BY <2>7, <2>8, <2>10, <2>12, <2>14, <2>15, <2>16 DEF Passing
  <2>18. x \subseteq s.set
    BY <2>11
  <2>19. \A u \in Thread : Looked(s, u) => Looked(y, u)
    BY <2>10, <2>15, <2>18 DEF Looked, Satisfied
  <2>20. Looked(y, t)
    BY <2>10, <2>15 DEF Looked
  <2>. QED BY <2>13, <2>14, <2>17, <2>19, <2>20
<1>. QED BY <1>3, <1>4

LEMMA PassStays ==
  ASSUME Core, NEW set
  PROVE  /\ EvPass(set) \in Passing(set)
         /\ \A t \in Thread : Contains(k.wait["ev"], t) => Looked(EvPass(set), t)
<1> DEFINE q == k.wait["ev"]
           n == Len(q)
           Y == Passing(set)
           b == Raised(set)
           F == [i \in 1..n |-> [s \in Y |-> EvServe(s, q[i])]]
           Run(h) == h = [s \in SUBSET (DOMAIN q) |->
                            IF s = {} THEN b
                            ELSE EvServe(h[s \ {Max(s)}], q[Max(s)])]
           h == CHOOSE h : Run(h)
           G == [s \in SUBSET (1..n) |-> <<s, h[s]>>]
           Z == {p \in (SUBSET (1..n)) \X Y : \A i \in p[1] : Looked(p[2], q[i])}
<1>1. q \in Seq(Thread)
  BY EventAssumption DEF Core, KernelInv, KernelType
<1>2. n \in Nat /\ DOMAIN q = 1..n /\ \A i \in 1..n : q[i] \in Thread /\ Contains(k.wait["ev"], q[i])
  BY <1>1, LenProperties, ElementOfSeq DEF Contains
<1>3. EvPass(set) = h[DOMAIN q]
  BY DEF EvPass, FoldLeft, MapThenFoldSet
<1>0. \A t : Contains(k.wait["ev"], t) => \E i \in 1..n : q[i] = t
  BY <1>2 DEF Contains
<1> HIDE DEF q, n
<1>4. b \in Y
  <2>1. k \in Kernel /\ Wakes(k, k)
    BY NothingWakes DEF Core, KernelInv, KernelType, Kernel
  <2>2. Served(call)
    BY DEF Served, Core, PlacePart
  <2>. QED BY <2>1, <2>2 DEF Passing, Raised
<1>5. ASSUME NEW s \in Y, NEW i \in 1..n
      PROVE  /\ EvServe(s, q[i]) \in Y /\ Looked(EvServe(s, q[i]), q[i])
             /\ \A u \in Thread : Looked(s, u) => Looked(EvServe(s, q[i]), u)
  BY <1>2, ServeRound
<1> HIDE DEF Y, b
<1>6. F \in [1..n -> [Y -> Y]]
  BY <1>2, <1>5
<1>7. PICK g \in [SUBSET (1..n) -> Y] : Follows(g, F, b, n)
  <2> HIDE DEF F, h, Run, G, Z
  <2>1. n \in Nat
    BY <1>2
  <2>. QED BY <2>1, <1>4, <1>6, FoldExists
<1>8. ASSUME NEW s \in SUBSET (1..n), s # {}
      PROVE  Max(s) \in s /\ Max(s) \in 1..n /\ s \ {Max(s)} \in SUBSET (1..n)
  BY <1>2, <1>8, MaxIndex
<1>9. ASSUME NEW s \in SUBSET (1..n)
      PROVE  g[s] = IF s = {} THEN b ELSE EvServe(g[s \ {Max(s)}], q[Max(s)])
  <2>1. CASE s = {}
    BY <1>7, <2>1 DEF Follows
  <2>2. CASE s # {}
    <3>1. g[s] = F[Max(s)][g[s \ {Max(s)}]]
      <4> HIDE DEF F
      <4>. QED BY <2>2, <1>7 DEF Follows
    <3>2. Max(s) \in 1..n /\ g[s \ {Max(s)}] \in Y
      BY <2>2, <1>7, <1>8
    <3>. QED BY <2>2, <3>1, <3>2
  <2>. QED BY <2>1, <2>2
<1>10. Run(g)
  BY <1>2, <1>7, <1>9
<1>11. Run(h)
  <2> HIDE DEF Run
  <2>. QED BY <1>10
<1> HIDE DEF h, F
<1>12. \A s \in SUBSET (1..n) :
         h[s] = IF s = {} THEN b ELSE EvServe(h[s \ {Max(s)}], q[Max(s)])
  BY <1>2, <1>11
<1> HIDE DEF Run
<1>13. G[{}] \in Z
  <2>1. h[{}] = b /\ b \in Y /\ {} \in SUBSET (1..n)
    BY <1>4, <1>12
  <2>. QED BY <2>1
<1>14. ASSUME NEW s \in SUBSET (1..n), s # {}, G[s \ {Max(s)}] \in Z PROVE G[s] \in Z
  <2>1. Max(s) \in s /\ Max(s) \in 1..n /\ s \ {Max(s)} \in SUBSET (1..n)
    BY <1>8, <1>14
  <2>2. PICK r : r = h[s \ {Max(s)}]
    OBVIOUS
  <2>3. r \in Y /\ \A i \in s \ {Max(s)} : Looked(r, q[i])
    BY <1>14, <2>1, <2>2
  <2>4. PICK z : z = EvServe(r, q[Max(s)])
    OBVIOUS
  <2>5. h[s] = z
    BY <1>12, <1>14, <2>2, <2>4
  <2>6. z \in Y /\ Looked(z, q[Max(s)]) /\ \A u \in Thread : Looked(r, u) => Looked(z, u)
    BY <1>5, <2>1, <2>3, <2>4
  <2>7. \A i \in s : Looked(z, q[i])
    BY <1>2, <2>3, <2>6
  <2>. QED BY <2>5, <2>6, <2>7
<1>15. G[1..n] \in Z
  <2> HIDE DEF G, Z
  <2>. QED BY <1>2, <1>13, <1>14, FoldStays
<1>16. h[1..n] \in Y /\ \A i \in 1..n : Looked(h[1..n], q[i])
  <2>1. G[1..n] = <<1..n, h[1..n]>>
    OBVIOUS
  <2>. QED BY <1>15, <2>1
<1>17. \A t \in Thread : Contains(k.wait["ev"], t) => Looked(EvPass(set), t)
  <2> HIDE DEF G, Z
  <2>. QED BY <1>0, <1>2, <1>3, <1>16
<1>. QED BY <1>2, <1>3, <1>16, <1>17 DEF Y

\* rt_event_send as a whole
LEMMA EvPassKeeps ==
  ASSUME Core, NEW set, NEW s, s = EvPass(set), call' = s.call, k' = s.k \/ k' = Schedule(s.k)
  PROVE  Wakes(k, s.k) /\ CallsKept(Thread) /\ s.set \subseteq ev \cup set
         /\ k'.stat = s.k.stat /\ k'.wait = s.k.wait
<1>1. s \in Passing(set)
  BY PassStays
<1>2. /\ Wakes(k, s.k) /\ Served(s.call) /\ s.set \subseteq ev \cup set
      /\ \A u \in Thread : s.call[u] = call[u] \/ s.k.stat[u] = "ready"
  BY <1>1 DEF Passing
<1>3. k'.stat = s.k.stat /\ k'.wait = s.k.wait
  <2>1. PICK y : y = Schedule(s.k)
    OBVIOUS
  <2>2. KernelInv(s.k, {})
    BY <1>2 DEF Wakes
  <2>3. y = [s.k EXCEPT !.cur = y.cur]
    BY <2>1, <2>2, ScheduleKeeps
  <2>. QED BY <2>1, <2>2, <2>3 DEF KernelInv, KernelType
<1>4. CallsKept(Thread)
  BY <1>2, <1>3, WaitersWish, WishesWait DEF Served, CallsKept, CallKept
<1>. QED BY <1>2, <1>3, <1>4

\* ... from a handler, with rt_schedule if it woke a thread
LEMMA SentByHandler ==
  ASSUME Core, NEW set, call' = EvPass(set).call,
         k' = IF EvPass(set).k # k THEN Schedule(EvPass(set).k) ELSE k,
         UNCHANGED <<pc, alive, use>>
  PROVE  CoreStep
<1>1. PICK s : s = EvPass(set)
  OBVIOUS
<1>2. k' = s.k \/ k' = Schedule(s.k)
  BY <1>1
<1>3. Wakes(k, s.k) /\ CallsKept(Thread)
  BY <1>1, <1>2, EvPassKeeps
<1>4. pc' = [pc EXCEPT ![Idle] = pc[Idle]] /\ pc[Idle] \in {"run", "sr_length", "sr_wake"}
  BY KernelAssumption DEF Core, PlacePart
<1>. QED BY <1>2, <1>3, <1>4, Interrupts

LEMMA WishesEvent ==
  ASSUME NEW c \in RecvEvent
  PROVE  c \in WaitCall /\ c.op = "ev_recv"
BY EventAssumption DEF RecvEvent, Calls, WaitCall, EventCall

LEMMA EvKeeps ==
  ASSUME Core, EvNext
  PROVE  CoreStep
<1>0. Wakes(k, k) /\ "ev" \in WaitList
  BY NothingWakes, EventAssumption DEF Core
<1>1. ASSUME NEW t \in Running, NEW c \in RecvEvent, EvRecv(t, c) PROVE CoreStep
  BY <1>0, <1>1, StartsFree, Finishes DEF EvRecv, Enters
<1>2. ASSUME NEW t \in Running, NEW c \in RecvEvent, EvRecvWait(t, c) PROVE CoreStep
  <2>1. <<"ev", c.op>> \in WaitPairs
    BY WishesEvent DEF WaitPairs
  <2>. QED BY <1>0, <1>2, <2>1, StartsFree, WishesEvent, WaitsOn DEF EvRecvWait, WaitOn, Enters
<1>3. ASSUME NEW t \in Running, NEW c \in RecvEvent, EvRecvRefused(t, c) PROVE CoreStep
  BY <1>3, StartsFree, Refuses DEF EvRecvRefused, Enters
<1>4. ASSUME NEW t \in Running, NEW set, EvSend(t, set) PROVE CoreStep
  <2>1. PICK s : s = EvPass(set)
    OBVIOUS
  <2>2. k' = s.k /\ call' = s.call /\ Goto(t, IF s.k # k THEN "post" ELSE "run")
    BY <1>4, <2>1 DEF EvSend
  <2>3. Wakes(k, s.k) /\ CallsKept(Thread)
    BY <2>1, <2>2, EvPassKeeps
  <2>4. Free(t) /\ t # Idle /\ pc[t] = "run" /\ call[t] = None
    BY <1>4, StartsFree DEF EvSend
  <2>5. call'[t] = None /\ CallsKept(Thread \ {t})
    BY <2>3, <2>4 DEF CallsKept, CallKept, Free
  <2>6. PICK p \in {"post", "run"} : Goto(t, p)
    BY <2>2
  <2>7. p \in AllLabels \ {"schedule", "detach", "wake"} /\ CallFits(p, None) /\ MayBeAt(t, p)
    BY <2>4 DEF AllLabels, CallFits, MayBeAt
  <2>8. use' = use /\ alive' \subseteq Object
    BY <1>4, AliveKept DEF EvSend
  <2>. QED BY <2>2, <2>3, <2>4, <2>5, <2>6, <2>7, <2>8, Acts DEF Free, Goto
<1>5. ASSUME NEW t \in Running, EvReceived(t) PROVE CoreStep
  BY <1>0, <1>5, InsideFree, Finishes DEF EvReceived, At
<1>6. ASSUME NEW t \in Running, EvFail(t) PROVE CoreStep
  BY <1>6, Fails DEF EvFail
<1>7. ASSUME NEW t \in Running, EvReset(t) PROVE CoreStep
  <2>1. Wakes(k, k')
    BY <1>0, <1>7, WakeAllWakes DEF EvReset, Core, RunningPart
  <2>. QED BY <1>7, <2>1, StartsGo DEF EvReset
<1>8. ASSUME NEW t \in Running, EvDetach(t) PROVE CoreStep
  <2>1. <<"ev">> \in Seq(WaitList) /\ "ev" \in Object
    BY <1>0 DEF Object
  <2>2. Detach(t, "ev_detach", "ev", <<"ev">>)
    BY <1>8 DEF EvDetach
  <2>. QED BY <2>1, <2>2, Detaches
<1>9. ASSUME NEW set, EvIsrSend(set) PROVE CoreStep
  BY <1>9, SentByHandler DEF EvIsrSend
<1>. QED BY <1>1, <1>2, <1>3, <1>4, <1>5, <1>6, <1>7, <1>8, <1>9 DEF EvNext

-----------------------------------------------------------------------------
LEMMA PushesDatum ==
  ASSUME NEW c \in PushDatum
  PROVE  c \in WaitCall /\ c.op = "dq_push"
BY DEF PushDatum, Calls, WaitCall

LEMMA PopsDatum ==
  ASSUME NEW c \in PopDatum
  PROVE  c \in WaitCall /\ c.op = "dq_pop"
BY DEF PopDatum, Calls, WaitCall

LEMMA DqTestsFree ==
  ASSUME Core, NEW t \in Running, NEW c, DqTests(t, c)
  PROVE  Free(t) /\ t # Idle
<1>1. CASE Enters(t, c, "dq")
  BY <1>1, StartsFree DEF Enters
<1>2. CASE At(t, "again")
  BY <1>2, InsideFree DEF At
<1>. QED BY <1>1, <1>2 DEF DqTests

LEMMA DqResetKeeps ==
  ASSUME Core, NEW t \in Running, DqReset(t)
  PROVE  CoreStep
<1>1. Free(t) /\ t # Idle /\ KernelInv(k, {}) /\ k.lock = 0 /\ k.stat[t] = "ready" /\ Wakes(k, k)
  <2>1. Free(t) /\ t # Idle
    BY StartsFree DEF DqReset
  <2>. QED BY <2>1, IsReady, NothingWakes DEF Core, LockPart, InReset, Free
<1>2. k' = [k EXCEPT !.lock = 1]
  BY <1>1 DEF DqReset
<1>3. /\ KernelInv(k', {}) /\ k'.cur = k.cur /\ k'.stat = k.stat /\ k'.wait = k.wait /\ k'.lock = 1
      /\ k'.err = k.err /\ pc[t] # "schedule"
  BY <1>1, <1>2, LockSet DEF Free
<1>4. PICK c : c = [op |-> "dq_reset", arg |-> <<"dq.pop", "dq.push">>, time |-> "none"]
  OBVIOUS
<1>5. DOMAIN call = Thread /\ alive' \subseteq Object
  BY DEF DqReset, Core, PlacePart
<1>6. CallsKept(Thread \ {t}) /\ call'[t] = c
  BY <1>1, <1>4, <1>5 DEF DqReset, CallsKept, CallKept, Free
<1>7. CallFits("detach", c) /\ MayBeAt(t, "detach") /\ "detach" \in AllLabels \ {"schedule"}
      /\ c.op = "dq_reset"
  BY <1>1, <1>4, DataQueueAssumption DEF CallFits, DetachCall, MayBeAt, AllLabels
<1>. QED BY <1>1, <1>3, <1>5, <1>6, <1>7, Moves DEF DqReset, Goto, Free

LEMMA DqResetEndKeeps ==
  ASSUME Core, NEW t \in Running, DqResetEnd(t)
  PROVE  CoreStep
<1>1. k.lock = 1 /\ KernelInv(k, {})
  BY Detaching DEF DqResetEnd, At, Core
<1>2. k' = [k EXCEPT !.lock = 0]
  BY <1>1 DEF DqResetEnd
<1>3. /\ KernelInv(k', {}) /\ k'.cur = k.cur /\ k'.stat = k.stat /\ k'.wait = k.wait /\ k'.lock = 0
      /\ k'.err = k.err
  BY <1>1, <1>2, LockSet
<1>. QED BY <1>3, DetachEnds DEF DqResetEnd, At

LEMMA DqKeeps ==
  ASSUME Core, DqNext
  PROVE  CoreStep
<1>0. Wakes(k, k) /\ "dq.push" \in WaitList /\ "dq.pop" \in WaitList
  BY NothingWakes, DataQueueAssumption DEF Core
<1>1. ASSUME NEW t \in Running, NEW c \in PushDatum, DqPush(t, c) PROVE CoreStep
  BY <1>0, <1>1, DqTestsFree, WakeOneWakes, Finishes DEF DqPush
<1>2. ASSUME NEW t \in Running, NEW c \in PushDatum, DqPushWait(t, c) PROVE CoreStep
  <2>1. <<"dq.push", c.op>> \in WaitPairs
    BY PushesDatum DEF WaitPairs
  <2>. QED BY <1>0, <1>2, <2>1, DqTestsFree, PushesDatum, WaitsOn DEF DqPushWait
<1>3. ASSUME NEW t \in Running, NEW c \in PushDatum, DqPushRefused(t, c) PROVE CoreStep
  BY <1>3, DqTestsFree, Refuses DEF DqPushRefused
<1>4. ASSUME NEW t \in Running, NEW c \in PopDatum, DqPop(t, c) PROVE CoreStep
  <2>1. WakesPusher \in BOOLEAN /\ Wakes(k, k')
    BY <1>0, <1>4, WakeOneWakes DEF DqPop, WakesPusher
  <2>. QED BY <1>4, <2>1, DqTestsFree, Finishes DEF DqPop
<1>5. ASSUME NEW t \in Running, NEW c \in PopDatum, DqPopWait(t, c) PROVE CoreStep
  <2>1. <<"dq.pop", c.op>> \in WaitPairs
    BY PopsDatum DEF WaitPairs
  <2>. QED BY <1>0, <1>5, <2>1, DqTestsFree, PopsDatum, WaitsOn DEF DqPopWait
<1>6. ASSUME NEW t \in Running, NEW c \in PopDatum, DqPopRefused(t, c) PROVE CoreStep
  BY <1>6, DqTestsFree, Refuses DEF DqPopRefused
<1>7. ASSUME NEW t \in Running, DqFail(t) PROVE CoreStep
  BY <1>7, Fails DEF DqFail
<1>8. ASSUME NEW v, DqIsrPush(v) PROVE CoreStep
  BY <1>0, <1>8, WakeOneWakes, Handles DEF DqIsrPush
<1>9. CASE DqIsrPop
  BY <1>0, <1>9, WakeOneWakes, Handles DEF DqIsrPop
<1>. QED BY <1>1, <1>2, <1>3, <1>4, <1>5, <1>6, <1>7, <1>8, <1>9, DqResetKeeps, DqResetEndKeeps
     DEF DqNext

-----------------------------------------------------------------------------
LEMMA WaitsDone ==
  ASSUME NEW c \in WaitDone
  PROVE  c \in WaitCall /\ c.op = "cp_wait"
BY DEF WaitDone, Calls, WaitCall

LEMMA CpKeeps ==
  ASSUME Core, CpNext
  PROVE  CoreStep
<1>0. Wakes(k, k) /\ "cp" \in WaitList
  BY NothingWakes, CompletionAssumption DEF Core
<1>1. ASSUME NEW t \in Running, NEW c \in WaitDone, CpWaitDone(t, c) PROVE CoreStep
  BY <1>0, <1>1, StartsFree, Finishes DEF CpWaitDone, Enters
<1>2. ASSUME NEW t \in Running, NEW c \in WaitDone, CpWait(t, c) PROVE CoreStep
  <2>1. <<"cp", c.op>> \in WaitPairs
    BY WaitsDone DEF WaitPairs
  <2>. QED BY <1>0, <1>2, <2>1, StartsFree, WaitsDone, WaitsOn DEF CpWait, Enters
<1>3. ASSUME NEW t \in Running, NEW c \in WaitDone, CpWaitRefused(t, c) PROVE CoreStep
  BY <1>3, StartsFree, Refuses DEF CpWaitRefused, Enters
<1>4. ASSUME NEW t \in Running, CpReturn(t) PROVE CoreStep
  BY <1>0, <1>4, InsideFree, Finishes DEF CpReturn, At
<1>5. ASSUME NEW t \in Running, CpDoneTest(t) PROVE CoreStep
  <2>1. Free(t) /\ t # Idle /\ call[t] = None
    BY <1>5, StartsFree DEF CpDoneTest
  <2>2. "done" \in AllLabels /\ CallFits("done", None) /\ Wakes(k, k') /\ alive' \subseteq Object
    BY <1>0, <1>5, AliveKept DEF AllLabels, Labels, CallFits, CpDoneTest
  <2>. QED BY <1>5, <2>1, <2>2, GoesOn DEF CpDoneTest
<1>6. ASSUME NEW t \in Running, CpDone(t) PROVE CoreStep
  BY <1>0, <1>6, InsideFree, WakeOneWakes, Finishes DEF CpDone, At
<1>7. CASE CpIsrDone
  BY <1>0, <1>7, WakeOneWakes, Handles DEF CpIsrDone
<1>. QED BY <1>1, <1>2, <1>3, <1>4, <1>5, <1>6, <1>7 DEF CpNext

-----------------------------------------------------------------------------
(***************************************************************************)
(* The wait queues, and the pipe and the serial device that wait in them.  *)
(***************************************************************************)

\* The nodes of a wait queue are threads
WqPart == wq \in [WaitQueueName -> [flag : BOOLEAN, nodes : Seq(Thread)]]

LEMMA WqResumedWakes ==
  ASSUME WqPart, NEW e, NEW kk, Wakes(e, kk), NEW q \in WaitQueueName
  PROVE  Wakes(e, WqResumed(kk, q))
<1>1. wq[q].nodes \in Seq(Thread)
  BY DEF WqPart
<1>2. wq[q].nodes # <<>> => Head(wq[q].nodes) \in Thread
  BY <1>1
<1>. QED BY <1>2, ResumeWakes DEF WqResumed

\* A thread in a call that the places it goes through have in common
LEMMA CallsAt ==
  ASSUME Core, NEW t, Free(t)
  PROVE  /\ CallFits(pc[t], call[t]) /\ Wakes(k, k) /\ DOMAIN call = Thread
         /\ pc \in [Thread -> AllLabels] /\ alive \subseteq Object /\ use \in Uses
BY NothingWakes DEF Core, PlacePart, Free

LEMMA WaitCalls ==
  ASSUME NEW c \in WaitCall
  PROVE  /\ c.op \in PpOp => c \in PipeCall
         /\ c.op = "sr_read" => c \in SerialCall({"sr_read"})
         /\ c.op = "sr_write" => c \in SerialCall({"sr_write"})
         /\ c.op \in OnOps => c \in ClientCall
BY DEF WaitCall, EventCall, ClientCall, PipeCall, SerialCall, OnOps, PpOp

PipePlaces == {"lock", "locked", "release", "signal", "wait", "rouse", "unlock", "last"}

LEMMA PipeFits ==
  ASSUME NEW p \in PipePlaces, NEW c
  PROVE  p \in AllLabels \ {"schedule", "post", "detach", "wake", "run", "sr_length", "sr_wake"}
         /\ (CallFits(p, c) <=> c \in PipeCall)
BY DEF PipePlaces, AllLabels, Labels, CallFits

\* A thread inside a pipe's call
LEMMA InPipe ==
  ASSUME Core, NEW t \in Running, pc[t] \in PipePlaces
  PROVE  Free(t) /\ t # Idle /\ call[t] \in PipeCall
<1>1. Free(t) /\ t # Idle
  BY PipeFits, InsideFree
<1>. QED BY <1>1, CallsAt, PipeFits

\* ... goes to the next place
LEMMA PipeGoes ==
  ASSUME Core, NEW t, Free(t), t # Idle, call[t] \in PipeCall, Wakes(k, k'),
         NEW p \in PipePlaces, Goto(t, p), UNCHANGED <<call, alive, use>>
  PROVE  CoreStep
<1>1. /\ p \in AllLabels \ {"schedule", "detach", "wake", "sr_length", "sr_wake"}
      /\ CallFits(p, call[t]) /\ p # "wk_resume"
  BY PipeFits DEF PipePlaces
<1>2. alive' \subseteq Object
  BY AliveKept
<1>. QED BY <1>1, <1>2, GoesOn

\* ... or is over
LEMMA PipeEnds ==
  ASSUME Core, NEW t, Free(t), t # Idle, Wakes(k, k'), Goto(t, "run"),
         call' = [call EXCEPT ![t] = None], UNCHANGED <<alive, use>>
  PROVE  CoreStep
<1>1. "run" \in AllLabels /\ CallFits("run", None)
  BY DEF AllLabels, CallFits
<1>. QED BY <1>1, Goes, AliveKept

LEMMA WqBlocks ==
  ASSUME Core, NEW t, Free(t), t # Idle, call[t] \in WaitCall, NEW q, WqBlock(t, q)
  PROVE  CoreStep
<1>1. Sleeps(k, Suspend(k, t), t, {})
  BY IsReady, NothingReadies, SuspendBlocks DEF Free, Core
<1>. QED BY <1>1, Suspends DEF WqBlock

LEMMA PipeWaits ==
  ASSUME Core, NEW t, Free(t), t # Idle, NEW c \in PipeCall, Block(t, c, ListSuspend(k, "pp", t, "FIFO"))
  PROVE  CoreStep
<1>1. Sleeps(k, ListSuspend(k, "pp", t, "FIFO"), t, {"pp"})
  BY IsReady, NothingReadies, ListSuspendBlocks, PipeAssumption DEF Free, Core
<1>2. c \in WaitCall
  BY DEF WaitCall
<1>3. c.op \in PpOp
  BY DEF PipeCall
<1>4. \A w \in {"pp"} : <<w, c.op>> \in WaitPairs
  BY <1>3 DEF WaitPairs
<1>. QED BY <1>1, <1>2, <1>4, Suspends

\* pipe_fops_write: fewer bytes are left to write
LEMMA PpWriteSomeKeeps ==
  ASSUME Core, RbType, NEW t \in Running, PpWriteSome(t)
  PROVE  CoreStep
<1>1. Free(t) /\ t # Idle /\ call[t] \in PipeCall /\ call[t].arg \in Nat
  BY InPipe DEF PpWriteSome, In, At, PipePlaces, PipeCall
<1> DEFINE s == [i \in 1..call[t].arg |-> PipeByte]
           n == Min({Len(s), SpaceLen(ring)})
<1>2. n \in 0..call[t].arg
  <2>1. Len(s) = call[t].arg
    BY <1>1
  <2>2. SpaceLen(ring) \in Nat
    <3>1. ring \in RingState
      BY DEF RbType, RingState
    <3>. QED BY <3>1, RingSpace, RingSizes
  <2> HIDE DEF s
  <2>3. {Len(s), SpaceLen(ring)} \in SUBSET Nat /\ {Len(s), SpaceLen(ring)} # {}
    BY <1>1, <2>1, <2>2
  <2>4. n \in {Len(s), SpaceLen(ring)} /\ n <= Len(s)
    BY <2>3, MinNat
  <2>. QED BY <1>1, <2>1, <2>2, <2>4
<1> HIDE DEF n
<1>3. PICK c : c = [call[t] EXCEPT !.arg = @ - n, !.wakeup = TRUE]
  OBVIOUS
<1>4. c \in PipeCall
  <2>1. call[t].arg - n \in Nat
    BY <1>1, <1>2
  <2>. QED BY <1>1, <1>3, <2>1 DEF PipeCall
<1>5. call' = [call EXCEPT ![t] = c]
  BY <1>3 DEF PpWriteSome, n
<1>6. PICK p \in {"unlock", "release"} : Goto(t, p)
  BY DEF PpWriteSome, n
<1>7. Wakes(k, k') /\ use' = use /\ alive' \subseteq Object
  BY NothingWakes, AliveKept DEF PpWriteSome, Core
<1>8. p \in AllLabels \ {"schedule", "detach", "wake", "sr_length", "sr_wake"} /\ CallFits(p, c)
      /\ p # "wk_resume"
  BY <1>4, PipeFits DEF PipePlaces
<1>. QED BY <1>1, <1>5, <1>6, <1>7, <1>8, Goes

LEMMA PpKeeps ==
  ASSUME Core, WqPart, RbType, PpNext
  PROVE  CoreStep
<1>0. Wakes(k, k) /\ "pp" \in WaitList /\ {"reader", "writer"} \subseteq WaitQueueName
  BY NothingWakes, PipeAssumption DEF Core
<1>1. ASSUME NEW t \in Running, NEW op \in PpOp, NEW n \in Burst, PpCall(t, op, n) PROVE CoreStep
  <2>1. PICK c : c = [op |-> op, arg |-> n, time |-> "forever", wakeup |-> FALSE]
    OBVIOUS
  <2>4. n \in Nat
    BY RingSizes
  <2>2. c \in PipeCall
    BY <2>1, <2>4 DEF PipeCall
  <2>3. CallFits("lock", c) /\ "lock" \in AllLabels
    BY <2>2, PipeFits DEF PipePlaces
  <2>5. Starts(t, op, "pp") /\ call' = [call EXCEPT ![t] = c] /\ Goto(t, "lock")
        /\ k' = k /\ alive' = alive /\ use' = use
    BY <1>1, <2>1 DEF PpCall
  <2>6. Free(t) /\ t # Idle /\ Wakes(k, k') /\ alive' \subseteq Object
    BY <1>0, <2>5, StartsFree, AliveKept
  <2>. QED BY <2>3, <2>5, <2>6, Goes
<1>2. ASSUME NEW t \in Running, PpLock(t) PROVE CoreStep
  BY <1>0, <1>2, InPipe, PipeGoes DEF PpLock, At, PipePlaces
<1>3. ASSUME NEW t \in Running, PpLockWait(t) PROVE CoreStep
  BY <1>3, InPipe, PipeWaits DEF PpLockWait, At, PipePlaces
<1>4. ASSUME NEW t \in Running, PpLocked(t) PROVE CoreStep
  <2>1. Free(t) /\ t # Idle
    BY <1>4, InsideFree DEF PpLocked, At
  <2>2. call[t] \in PipeCall
    BY <1>4, <2>1, CallsAt, WaitCalls DEF PpLocked, At, CallFits
  <2>. QED BY <1>0, <1>4, <2>1, <2>2, PipeGoes DEF PpLocked, PipePlaces
<1>5. ASSUME NEW t \in Running, PpOpen(t) PROVE CoreStep
  BY <1>0, <1>5, InPipe, PipeGoes DEF PpOpen, In, At, PipePlaces
<1>6. ASSUME NEW t \in Running, PpClose(t) PROVE CoreStep
  <2>1. PICK kk : kk = HungUpWoken(k, "reader")
    OBVIOUS
  <2>2. Wakes(k, kk)
    BY <1>0, <2>1, WqResumedWakes DEF HungUpWoken
  <2>3. Wakes(k, HungUpWoken(kk, "writer"))
    BY <1>0, <2>2, WqResumedWakes DEF HungUpWoken
  <2>4. Wakes(k, k')
    BY <1>6, <2>1, <2>3 DEF PpClose
  <2>. QED BY <1>6, <2>4, InPipe, PipeGoes DEF PpClose, In, At, PipePlaces
<1>7. ASSUME NEW t \in Running, PpReadEnd(t) PROVE CoreStep
  BY <1>0, <1>7, InPipe, PipeGoes DEF PpReadEnd, In, At, PipePlaces
<1>8. ASSUME NEW t \in Running, PpReadSome(t) PROVE CoreStep
  BY <1>0, <1>8, InPipe, PipeGoes DEF PpReadSome, In, At, PipePlaces
<1>9. ASSUME NEW t \in Running, PpReadNone(t) PROVE CoreStep
  BY <1>0, <1>9, WakeOneWakes, InPipe, PipeGoes DEF PpReadNone, Unlock, In, At, PipePlaces
<1>10. ASSUME NEW t \in Running, PpWriteEnd(t) PROVE CoreStep
  BY <1>0, <1>10, InPipe, PipeGoes DEF PpWriteEnd, In, At, PipePlaces
<1>11. ASSUME NEW t \in Running, PpWriteSome(t) PROVE CoreStep
  BY <1>11, PpWriteSomeKeeps
<1>12. ASSUME NEW t \in Running, PpRelease(t) PROVE CoreStep
  BY <1>0, <1>12, WakeOneWakes, InPipe, PipeGoes DEF PpRelease, Unlock, At, PipePlaces
<1>13. ASSUME NEW t \in Running, PpSignal(t) PROVE CoreStep
  <2>1. Wakes(k, k')
    BY <1>0, <1>13, WqResumedWakes DEF PpSignal, Wakeup, Other
  <2>. QED BY <1>13, <2>1, InPipe, PipeGoes DEF PpSignal, Wakeup, At, PipePlaces
<1>14. ASSUME NEW t \in Running, PpWait(t) PROVE CoreStep
  <2>1. Free(t) /\ t # Idle /\ call[t] \in PipeCall /\ call[t] \in WaitCall
    BY <1>14, InPipe DEF PpWait, At, PipePlaces, WaitCall
  <2>2. CASE WqPass(t, Own(t), "lock")
    BY <1>0, <2>1, <2>2, PipeGoes DEF WqPass, PipePlaces
  <2>3. CASE WqBlock(t, Own(t))
    BY <2>1, <2>3, WqBlocks
  <2>. QED BY <1>14, <2>2, <2>3 DEF PpWait
<1>15. ASSUME NEW t \in Running, PpWaited(t) PROVE CoreStep
  <2>1. CASE WqReturn(t, Own(t))
    <3>1. Free(t) /\ t # Idle
      BY <2>1, InsideFree DEF WqReturn, At
    <3>2. call[t] \in PipeCall
      BY <1>15, <2>1, <3>1, CallsAt, WaitCalls DEF PpWaited, WqReturn, At, CallFits
    <3>3. CallFits("unqueue", call[t]) /\ "unqueue" \in AllLabels
      BY <3>2 DEF CallFits, AllLabels, Labels
    <3>. QED BY <1>0, <2>1, <3>1, <3>3, GoesOn, AliveKept DEF WqReturn
  <2>2. CASE WqUnqueue(t, Own(t), "lock")
    <3>1. Free(t) /\ t # Idle
      BY <2>2, InsideFree DEF WqUnqueue, At
    <3>2. call[t] \in PipeCall
      <4>1. call[t] \in PipeCall \cup SerialCall({"sr_read"})
        BY <2>2, <3>1, CallsAt DEF WqUnqueue, At, CallFits
      <4>. QED BY <1>15, <4>1 DEF PpWaited, SerialCall, PpOp
    <3>. QED BY <1>0, <2>2, <3>1, <3>2, PipeGoes DEF WqUnqueue, PipePlaces
  <2>. QED BY <1>15, <2>1, <2>2 DEF PpWaited
<1>16. ASSUME NEW t \in Running, PpRouse(t) PROVE CoreStep
  <2>1. Wakes(k, k')
    BY <1>0, <1>16, WqResumedWakes DEF PpRouse, Wakeup, Other
  <2>. QED BY <1>16, <2>1, InPipe, PipeGoes DEF PpRouse, Wakeup, At, PipePlaces
<1>17. ASSUME NEW t \in Running, PpUnlock(t) PROVE CoreStep
  <2>1. Free(t) /\ t # Idle /\ call[t] \in PipeCall
    BY <1>17, InPipe DEF PpUnlock, At, PipePlaces
  <2>2. CASE Unlock(t, "last") /\ UNCHANGED call
    BY <1>0, <2>1, <2>2, WakeOneWakes, PipeGoes DEF Unlock, PipePlaces
  <2>3. CASE Unlock(t, "run") /\ call' = [call EXCEPT ![t] = None]
    BY <1>0, <2>1, <2>3, WakeOneWakes, PipeEnds DEF Unlock
  <2>. QED BY <1>17, <2>2, <2>3 DEF PpUnlock
<1>18. ASSUME NEW t \in Running, PpLast(t) PROVE CoreStep
  <2>1. Wakes(k, k')
    BY <1>0, <1>18, WqResumedWakes DEF PpLast, Wakeup, Other
  <2>. QED BY <1>18, <2>1, InPipe, PipeEnds DEF PpLast, Wakeup, At, PipePlaces
<1>. QED BY <1>1, <1>2, <1>3, <1>4, <1>5, <1>6, <1>7, <1>8, <1>9, <1>10, <1>11, <1>12, <1>13,
            <1>14, <1>15, <1>16, <1>17, <1>18 DEF PpNext

-----------------------------------------------------------------------------
\* The work thread that works are submitted to
LEMMA WorkerThere ==
  ASSUME Core, \/ \E t \in Thread : use.calls[t] \cap {"wk_submit", "wk_critical"} # {}
               \/ "wk_submit" \in use.handler
  PROVE  Worker \in Thread
<1>1. use \in Uses
  BY DEF Core, PlacePart
<1>2. (use.handler \cup UNION {use.calls[t] : t \in Thread}) \cap {"wk_submit", "wk_critical"} # {}
  OBVIOUS
<1>3. \E t \in Thread : "wk_work" \in use.calls[t]
  BY <1>1, <1>2, WorkQueueAssumption
<1>. QED BY <1>3 DEF Worker

LEMMA WkKeeps ==
  ASSUME Core, WkNext
  PROVE  CoreStep
<1>0. Wakes(k, k)
  BY NothingWakes DEF Core
<1>1. ASSUME NEW t \in Running, WkTest(t) PROVE CoreStep
  <2>1. Free(t) /\ t # Idle /\ call[t] = None
    BY <1>1, StartsFree DEF WkTest
  <2>2. PICK p \in {"wk_suspend", "wk_pick"} : Goto(t, p)
    BY <1>1 DEF WkTest
  <2>3. p \in AllLabels /\ CallFits(p, None)
    BY DEF AllLabels, Labels, CallFits
  <2>. QED BY <1>0, <1>1, <2>1, <2>2, <2>3, GoesOn, AliveKept DEF WkTest
<1>2. ASSUME NEW t \in Running, WkSuspend(t) PROVE CoreStep
  <2>1. Free(t) /\ t # Idle
    BY <1>2, InsideFree DEF WkSuspend, At
  <2>2. Sleeps(k, Suspend(k, t), t, {})
    BY <2>1, IsReady, NothingReadies, SuspendBlocks DEF Free, Core
  <2>3. [op |-> "wk_work", arg |-> None, time |-> "forever"] \in WaitCall
    BY DEF WaitCall, AllTimes
  <2>. QED BY <1>2, <2>1, <2>2, <2>3, Suspends DEF WkSuspend
<1>3. ASSUME NEW t \in Running, WkPick(t) PROVE CoreStep
  <2>1. Free(t) /\ t # Idle
    BY <1>3, InsideFree DEF WkPick, WkPicks, At
  <2>2. "wk_do" \in AllLabels /\ CallFits("wk_do", None)
    BY DEF AllLabels, Labels, CallFits
  <2>. QED BY <1>0, <1>3, <2>1, <2>2, Goes, AliveKept DEF WkPick
<1>4. ASSUME NEW t \in Running, WkDone(t) PROVE CoreStep
  <2>1. Free(t) /\ t # Idle
    BY <1>4, InsideFree DEF WkDone, At
  <2>2. "run" \in AllLabels /\ CallFits("run", call[t])
    BY <1>4, <2>1, CallsAt DEF AllLabels, CallFits, WkDone, At
  <2>. QED BY <1>0, <1>4, <2>1, <2>2, GoesOn, AliveKept DEF WkDone
<1>5. ASSUME NEW t \in Running, WkResume(t) PROVE CoreStep
  <2>1. Free(t) /\ t # Idle
    BY <1>5, InsideFree DEF WkResume, At
  <2>2. Worker \in Thread
    BY <1>5, <2>1 DEF WkResume, At, Core, PlacePart, Free
  <2>3. Wakes(k, k')
    BY <1>0, <1>5, <2>2, ResumeWakes DEF WkResume
  <2>4. "post" \in AllLabels /\ CallFits("post", call[t])
    BY <1>5, <2>1, CallsAt DEF AllLabels, CallFits, WkResume, At
  <2>. QED BY <1>5, <2>1, <2>3, <2>4, GoesOn, AliveKept DEF WkResume
<1>6. ASSUME NEW t \in Running, NEW w, WkSubmit(t, w) \/ WkCritical(t, w) PROVE CoreStep
  <2>1. PICK op \in {"wk_submit", "wk_critical"} : Starts(t, op, "wk")
    BY <1>6 DEF WkSubmit, WkCritical
  <2>2. Free(t) /\ t # Idle /\ call[t] = None
    BY <2>1, StartsFree
  <2>3. Worker \in Thread
    BY <2>1, <2>2, WorkerThere DEF Starts, Free
  <2>4. PICK p \in {"wk_resume", "run"} : Goto(t, p)
    BY <1>6 DEF WkSubmit, WkCritical
  <2>5. p \in AllLabels /\ CallFits(p, None)
    BY DEF AllLabels, Labels, CallFits
  <2>6. k' = k /\ UNCHANGED <<call, alive, use>>
    BY <1>6 DEF WkSubmit, WkCritical
  <2>. QED BY <1>0, <2>2, <2>3, <2>4, <2>5, <2>6, GoesOn, AliveKept
<1>7. ASSUME NEW w, WkIsrSubmit(w) PROVE CoreStep
  <2>1. Worker \in Thread
    BY <1>7, WorkerThere DEF WkIsrSubmit
  <2>2. Wakes(k, Resume(k, Worker))
    BY <1>0, <2>1, ResumeWakes
  <2>. QED BY <1>7, <2>2, Handles DEF WkIsrSubmit
<1>8. ASSUME NEW t, NEW w, WkCancel(t, w) \/ WkCancelAll(t) PROVE CoreStep
  BY <1>8, Idles DEF WkCancel, WkCancelAll, caller
<1>. QED BY <1>1, <1>2, <1>3, <1>4, <1>5, <1>6, <1>7, <1>8 DEF WkNext

-----------------------------------------------------------------------------
LEMMA HpKeeps ==
  ASSUME Core, HpNext
  PROVE  CoreStep
<1>0. Wakes(k, k) /\ "run" \in AllLabels /\ CallFits("run", None)
      /\ \A p \in {"hp_grow", "hp_move"} : p \in AllLabels /\ \A c : CallFits(p, c)
  BY NothingWakes DEF Core, AllLabels, Labels, CallFits
<1>1. ASSUME NEW t, NEW s, NEW b, HpMalloc(t, s) \/ HpFree(t, b) \/ HpShrink(t, b, s) PROVE CoreStep
  BY <1>1, Idles DEF HpMalloc, HpFree, HpShrink, caller
<1>2. ASSUME NEW t \in Running, NEW s, NEW b, HpGrow(t, b, s) PROVE CoreStep
  <2>1. Free(t) /\ t # Idle
    BY <1>2, StartsFree DEF HpGrow
  <2>2. PICK c : c = [op |-> "hp_realloc", arg |-> <<b, s>>, time |-> "none"]
    OBVIOUS
  <2>3. call' = [call EXCEPT ![t] = c] /\ Goto(t, "hp_grow") /\ k' = k /\ use' = use
        /\ alive' = alive
    BY <1>2, <2>2 DEF HpGrow
  <2>. QED BY <1>0, <2>1, <2>3, Goes, AliveKept
<1>3. ASSUME NEW t \in Running, HpGrowMalloc(t) PROVE CoreStep
  <2>1. Free(t) /\ t # Idle
    BY <1>3, InsideFree DEF HpGrowMalloc, At
  <2>2. k' = k /\ use' = use /\ alive' = alive
    BY <1>3 DEF HpGrowMalloc
  <2>3. CASE call' = [call EXCEPT ![t] = None] /\ Goto(t, "run")
    BY <1>0, <2>1, <2>2, <2>3, Goes, AliveKept
  <2>4. ASSUME NEW a, call' = [call EXCEPT ![t].arg = a], Goto(t, "hp_move") PROVE CoreStep
    <3>1. PICK c : c = [call[t] EXCEPT !.arg = a]
      OBVIOUS
    <3>2. call' = [call EXCEPT ![t] = c]
      BY <2>4, <3>1
    <3>. QED BY <1>0, <2>1, <2>2, <2>4, <3>2, Goes, AliveKept
  <2>. QED BY <1>3, <2>3, <2>4 DEF HpGrowMalloc
<1>4. ASSUME NEW t \in Running, HpGrowFree(t) PROVE CoreStep
  <2>1. Free(t) /\ t # Idle
    BY <1>4, InsideFree DEF HpGrowFree, At
  <2>. QED BY <1>0, <1>4, <2>1, Goes, AliveKept DEF HpGrowFree
<1>. QED BY <1>1, <1>2, <1>3, <1>4 DEF HpNext

LEMMA RbKeeps ==
  ASSUME Core, RbNext \/ RbbNext
  PROVE  CoreStep
<1>1. UNCHANGED caller
  BY DEF RbNext, RbDoGet, RbDoPut, RbDoForce, RbDoCharForce, RbReset, RbbNext
<1>. QED BY <1>1, Idles DEF caller

-----------------------------------------------------------------------------
LEMMA ClientFits ==
  ASSUME NEW p \in OnPlaces, NEW c
  PROVE  p \in AllLabels \ {"schedule", "post", "detach", "wake", "run", "sr_length", "sr_wake"}
         /\ p # "wk_resume" /\ (CallFits(p, c) <=> c \in ClientCall)
BY DEF OnPlaces, AllLabels, Labels, CallFits

\* What the client waits for are bits of the event
LEMMA ClientWish ==
  ASSUME NEW op \in OnOps, NEW bits, bits \subseteq OnBit, bits # {}
  PROVE  OnCall(op, bits) \in ClientCall /\ OnCall(op, bits).op = op
<1>1. bits \in (SUBSET EvBit) \ {{}} /\ (Cardinality(bits) = 1) \in BOOLEAN
  BY OneNetAssumption
<1>2. Wish(bits) \in EvWish
  BY <1>1 DEF Wish, EvWish
<1>. QED BY <1>2 DEF OnCall, ClientCall

LEMMA ClientBits ==
  /\ RegBit \subseteq OnBit /\ UpdateBit \subseteq OnBit /\ NotifyBit \subseteq OnBit
  /\ {"unreg_done"} \subseteq OnBit /\ {"observer_success"} \subseteq OnBit
  /\ {"discover_success"} \subseteq OnBit
  /\ RegBit # {} /\ UpdateBit # {} /\ NotifyBit # {}
BY DEF OnBit, RegBit, UpdateBit, NotifyBit

\* A thread inside a call of the client
LEMMA InClient ==
  ASSUME Core, NEW t \in Running, pc[t] \in OnPlaces
  PROVE  Free(t) /\ t # Idle /\ call[t] \in ClientCall /\ call[t].op \in OnOps
<1>1. Free(t) /\ t # Idle
  BY ClientFits, InsideFree
<1>2. call[t] \in ClientCall
  BY <1>1, CallsAt, ClientFits
<1>. QED BY <1>1, <1>2 DEF ClientCall

\* ... or back from its wait
LEMMA ClientWaited ==
  ASSUME Core, NEW t \in Running, pc[t] = "again", call[t].op \in OnOps
  PROVE  Free(t) /\ t # Idle /\ call[t] \in ClientCall
<1>1. Free(t) /\ t # Idle
  BY InsideFree
<1>2. call[t] \in WaitCall
  BY <1>1, CallsAt DEF CallFits
<1>. QED BY <1>1, <1>2, WaitCalls

LEMMA ClientGoes ==
  ASSUME Core, NEW t, Free(t), t # Idle, NEW c \in ClientCall, NEW p \in OnPlaces, OnGoes(t, c, p)
  PROVE  CoreStep
<1>1. Wakes(k, k') /\ alive' \subseteq Object
  BY NothingWakes, AliveKept DEF OnGoes, Core
<1>. QED BY <1>1, ClientFits, Goes DEF OnGoes

LEMMA ClientReturns ==
  ASSUME Core, NEW t, Free(t), t # Idle, NEW op, NEW result, OnReturns(t, op, result)
  PROVE  CoreStep
<1>1. PICK v : Finish(t, FALSE, v)
  BY DEF OnReturns
<1>2. Wakes(k, k')
  BY NothingWakes DEF OnReturns, Core
<1>. QED BY <1>1, <1>2, Finishes

LEMMA ClientOpenFails ==
  ASSUME Core, NEW t, Free(t), t # Idle, NEW op, NEW far, OnOpenFails(t, op, far)
  PROVE  CoreStep
<1>1. CASE op = "on_start" /\ OnGoes(t, OnCall(op, {"unreg_done"}), "on_close")
  BY <1>1, ClientWish, ClientBits, ClientGoes DEF OnOps, OnPlaces
<1>2. CASE OnReturns(t, op, "ERROR")
  BY <1>2, ClientReturns
<1>. QED BY <1>1, <1>2 DEF OnOpenFails

\* The steps with which a call begins or goes on
LEMMA OnBeginKeeps ==
  ASSUME Core, NEW t \in Running,
         \/ OnStart(t) \/ OnObjects(t) \/ OnAsked(t)
         \/ OnOpen(t, "on_open") \/ OnOpen(t, "on_start")
         \/ OnClose(t, "on_close") \/ OnClose(t, "on_start")
         \/ OnRequest(t, "on_update", "update", UpdateBit)
         \/ OnRequest(t, "on_notify", "notify", NotifyBit)
  PROVE  CoreStep
<1>1. CASE OnStart(t)
  <2>1. Free(t) /\ t # Idle
    BY <1>1, StartsFree DEF OnStart, OnBegins
  <2>2. OnCall("on_start", RegBit) \in ClientCall
    BY ClientWish, ClientBits DEF OnOps
  <2>. QED BY <1>1, <2>1, <2>2, ClientGoes, ClientOpenFails DEF OnStart, OnPlaces
<1>2. CASE OnObjects(t) \/ OnAsked(t)
  BY <1>2, InClient, ClientGoes DEF OnObjects, OnAsked, At, OnPlaces
<1>3. ASSUME NEW op \in OnOps, OnOpen(t, op) PROVE CoreStep
  <2>1. Free(t) /\ t # Idle
    BY <1>3, StartsFree, InClient DEF OnOpen, OnBegins, At, OnPlaces
  <2>2. OnCall(op, RegBit) \in ClientCall
    BY ClientWish, ClientBits
  <2>. QED BY <1>3, <2>1, <2>2, ClientGoes, ClientOpenFails DEF OnOpen, OnPlaces
<1>4. ASSUME NEW op \in OnOps, OnClose(t, op) PROVE CoreStep
  <2>1. Free(t) /\ t # Idle
    BY <1>4, StartsFree, InClient DEF OnClose, OnBegins, At, OnPlaces
  <2>2. OnCall(op, {"unreg_done"}) \in ClientCall
    BY ClientWish, ClientBits
  <2>. QED BY <1>4, <2>1, <2>2, ClientGoes, ClientReturns DEF OnClose, OnPlaces
<1>5. ASSUME NEW op \in OnOps, NEW r, NEW bits \in {UpdateBit, NotifyBit}, OnRequest(t, op, r, bits)
      PROVE  CoreStep
  <2>1. Free(t) /\ t # Idle
    BY <1>5, StartsFree DEF OnRequest, OnBegins
  <2>2. OnCall(op, bits) \in ClientCall
    BY ClientWish, ClientBits
  <2>. QED BY <1>5, <2>1, <2>2, ClientGoes, ClientReturns DEF OnRequest, OnPlaces
<1>6. {"on_open", "on_start", "on_close", "on_update", "on_notify"} \subseteq OnOps
  BY DEF OnOps
<1>. QED BY <1>1, <1>2, <1>3, <1>4, <1>5, <1>6

\* The waits
LEMMA OnWaitKeeps ==
  ASSUME Core, NEW t \in Running, OnRecv(t) \/ OnRecvWait(t) \/ OnReceived(t) \/ OnTimeout(t)
  PROVE  CoreStep
<1>1. CASE OnRecv(t)
  <2>1. Free(t) /\ t # Idle /\ call[t] \in ClientCall
    BY <1>1, InClient DEF OnRecv, At, OnPlaces
  <2>2. PICK c : c = [call[t] EXCEPT !.arg.want = ev \cap call[t].arg.want]
    OBVIOUS
  <2>3. call[t].arg \in EvWish
    BY <2>1 DEF ClientCall
  <2>4. ev \cap call[t].arg.want \in (SUBSET EvBit) \ {{}}
    BY <1>1, <2>3 DEF EvWish, OnRecv, Satisfied
  <2>5. PICK a : a = [call[t].arg EXCEPT !.want = ev \cap call[t].arg.want]
    OBVIOUS
  <2>6. a \in EvWish
    BY <2>3, <2>4, <2>5 DEF EvWish
  <2>7. c = [call[t] EXCEPT !.arg = a]
    BY <2>2, <2>5
  <2>8. c \in ClientCall
    BY <2>1, <2>6, <2>7 DEF ClientCall
  <2>9. OnGoes(t, c, "on_got")
    BY <1>1, <2>2 DEF OnRecv
  <2>. QED BY <2>1, <2>8, <2>9, ClientGoes DEF OnPlaces
<1>2. CASE OnRecvWait(t)
  <2>1. Free(t) /\ t # Idle /\ call[t] \in ClientCall /\ call[t].op \in OnOps
    BY <1>2, InClient DEF OnRecvWait, At, OnPlaces
  <2>2. call[t] \in WaitCall /\ <<"ev", call[t].op>> \in WaitPairs
    BY <2>1 DEF WaitCall, WaitPairs
  <2>. QED BY <1>2, <2>1, <2>2, EventAssumption, WaitsOn DEF OnRecvWait, WaitOn
<1>3. CASE OnReceived(t)
  BY <1>3, ClientWaited, ClientGoes DEF OnReceived, At, OnPlaces
<1>4. CASE OnTimeout(t)
  BY <1>4, ClientWaited, ClientOpenFails, ClientReturns DEF OnTimeout, Failed, At
<1>. QED BY <1>1, <1>2, <1>3, <1>4

\* What a call does with what it received
LEMMA OnGotKeeps ==
  ASSUME Core, NEW t \in Running,
         \/ OnRegistered(t) \/ OnObserved(t) \/ OnDiscovered(t)
         \/ OnClosed(t) \/ OnUpdated(t) \/ OnNotified(t)
  PROVE  CoreStep
<1>1. Free(t) /\ t # Idle /\ call[t] \in ClientCall /\ call[t].op \in OnOps
  BY InClient DEF OnRegistered, OnObserved, OnDiscovered, OnClosed, OnUpdated, OnNotified,
                  Received, At, OnPlaces
<1>2. /\ OnCall(call[t].op, {"observer_success"}) \in ClientCall
      /\ OnCall(call[t].op, {"discover_success"}) \in ClientCall
  BY <1>1, ClientWish, ClientBits
<1>3. CASE OnRegistered(t)
  BY <1>1, <1>2, <1>3, ClientGoes, ClientOpenFails DEF OnRegistered, OnPlaces
<1>4. CASE OnObserved(t)
  BY <1>1, <1>2, <1>4, ClientGoes DEF OnObserved, OnPlaces
<1>5. CASE OnDiscovered(t)
  BY <1>1, <1>5, ClientReturns, ClientOpenFails DEF OnDiscovered
<1>6. CASE OnClosed(t) \/ OnUpdated(t) \/ OnNotified(t)
  <2>1. \E op, result : OnReturns(t, op, result)
    BY <1>6 DEF OnClosed, OnUpdated, OnNotified
  <2>. QED BY <1>1, <2>1, ClientReturns
<1>. QED BY <1>3, <1>4, <1>5, <1>6

LEMMA OnKeeps ==
  ASSUME Core, OnNext
  PROVE  CoreStep
<1>1. CASE CisNext
  <2>1. CASE CisSend
    BY <2>1, SentByHandler DEF CisSend
  <2>2. CASE UNCHANGED caller
    BY <2>2, Idles DEF caller
  <2>. QED BY <1>1, <2>1, <2>2 DEF CisNext
<1>2. ASSUME NEW t, OnDelete(t) PROVE CoreStep
  BY <1>2, Idles DEF OnDelete
<1>. QED BY <1>1, <1>2, OnBeginKeeps, OnWaitKeeps, OnGotKeeps DEF OnNext

-----------------------------------------------------------------------------
\* A thread inside a call of the serial device
LEMMA InSerial ==
  ASSUME Core, NEW t \in Running,
         \/ pc[t] \in {"sr_get", "sr_wait", "sr_put", "sr_busy"}
         \/ pc[t] \in {"again", "unqueue"} /\ call[t].op \in {"sr_read", "sr_write"}
  PROVE  /\ Free(t) /\ t # Idle /\ call[t] \in WaitCall
         /\ pc[t] \in {"sr_get", "sr_wait"} \/ call[t].op = "sr_read"
              => call[t] \in SerialCall({"sr_read"})
         /\ pc[t] \in {"sr_put", "sr_busy"} \/ call[t].op = "sr_write"
              => call[t] \in SerialCall({"sr_write"})
<1>1. Free(t) /\ t # Idle
  BY InsideFree
<1>2. CallFits(pc[t], call[t])
  BY <1>1, CallsAt
<1>3. CASE pc[t] \in {"sr_get", "sr_wait"}
  <2>1. call[t] \in SerialCall({"sr_read"})
    BY <1>2, <1>3 DEF CallFits
  <2>. QED BY <1>1, <1>3, <2>1 DEF SerialCall, WaitCall
<1>4. CASE pc[t] \in {"sr_put", "sr_busy"}
  <2>1. call[t] \in SerialCall({"sr_write"})
    BY <1>2, <1>4 DEF CallFits
  <2>. QED BY <1>1, <1>4, <2>1 DEF SerialCall, WaitCall
<1>5. CASE pc[t] = "again" /\ call[t].op \in {"sr_read", "sr_write"}
  <2>1. call[t] \in WaitCall
    BY <1>2, <1>5 DEF CallFits
  <2>. QED BY <1>1, <1>5, <2>1, WaitCalls
<1>6. CASE pc[t] = "unqueue" /\ call[t].op \in {"sr_read", "sr_write"}
  <2>1. call[t] \in PipeCall \cup SerialCall({"sr_read"})
    BY <1>2, <1>6 DEF CallFits
  <2>2. call[t] \in SerialCall({"sr_read"})
    BY <1>6, <2>1 DEF PipeCall, PpOp
  <2>. QED BY <1>1, <1>6, <2>2 DEF SerialCall, WaitCall
<1>. QED BY <1>3, <1>4, <1>5, <1>6

SerialPlaces == {"sr_get", "sr_wait", "sr_put", "sr_busy", "unqueue"}

LEMMA SerialFits ==
  ASSUME NEW p \in SerialPlaces
  PROVE  /\ p \in AllLabels \ {"schedule", "detach", "wake", "sr_length", "sr_wake"} /\ p # "wk_resume"
         /\ p \in {"sr_get", "sr_wait", "unqueue"} =>
              \A c \in SerialCall({"sr_read"}) : CallFits(p, c)
         /\ p \in {"sr_put", "sr_busy"} => \A c \in SerialCall({"sr_write"}) : CallFits(p, c)
BY DEF SerialPlaces, AllLabels, Labels, CallFits

\* ... goes to the next place
LEMMA SerialGoes ==
  ASSUME Core, NEW t, Free(t), t # Idle, Wakes(k, k'), NEW p \in SerialPlaces, Goto(t, p),
         \/ p \in {"sr_get", "sr_wait", "unqueue"} /\ call[t] \in SerialCall({"sr_read"})
         \/ p \in {"sr_put", "sr_busy"} /\ call[t] \in SerialCall({"sr_write"}),
         UNCHANGED <<call, alive, use>>
  PROVE  CoreStep
<1>1. CallFits(p, call[t])
  BY SerialFits
<1>. QED BY <1>1, SerialFits, GoesOn, AliveKept

LEMMA SrStartsKeeps ==
  ASSUME Core, NEW t \in Running, NEW n \in Nat,
         NEW op \in {"sr_read", "sr_write"},
         NEW p, p = IF op = "sr_read" THEN "sr_get" ELSE "sr_put", SrStarts(t, op, n, p)
  PROVE  CoreStep
<1>1. Free(t) /\ t # Idle /\ Wakes(k, k')
  BY StartsFree, NothingWakes DEF SrStarts, Core
<1>2. SrCall(op, n) \in SerialCall({op})
  BY DEF SrCall, SerialCall
<1>3. CallFits(p, SrCall(op, n)) /\ p \in SerialPlaces
  BY <1>2, SerialFits DEF SerialPlaces
<1>. QED BY <1>1, <1>3, SerialFits, Goes, AliveKept DEF SrStarts

\* A byte is read or sent
LEMMA SrByteKeeps ==
  ASSUME Core, NEW t \in Running, SrGet(t) \/ SrPut(t)
  PROVE  CoreStep
<1>1. PICK p \in {"sr_get", "sr_put"} : pc[t] = p
  BY DEF SrGet, SrPut, At
<1>2. PICK op \in {"sr_read", "sr_write"} :
        call[t] \in SerialCall({op}) /\ (op = "sr_read" <=> p = "sr_get")
  BY <1>1, InSerial
<1>3. Free(t) /\ t # Idle /\ pc \in [Thread -> AllLabels]
  BY <1>1, InSerial DEF Core, PlacePart
<1>4. PICK c : call' = [call EXCEPT ![t] = c]
               /\ \/ c = [call[t] EXCEPT !.arg = @ - 1, !.some = TRUE]
                  \/ c = [call[t] EXCEPT !.arg = @ - 1]
  BY DEF SrGet, SrPut
<1>5. call[t].arg > 0
  BY DEF SrGet, SrPut
<1>6. c \in SerialCall({op})
  <2>1. call[t].arg - 1 \in Nat
    BY <1>2, <1>5 DEF SerialCall
  <2>2. CASE c = [call[t] EXCEPT !.arg = @ - 1]
    BY <1>2, <2>1, <2>2 DEF SerialCall
  <2>3. CASE c = [call[t] EXCEPT !.arg = @ - 1, !.some = TRUE]
    BY <1>2, <2>1, <2>3 DEF SerialCall
  <2>. QED BY <1>4, <2>2, <2>3
<1>7. CallFits(p, c) /\ p \in SerialPlaces
  BY <1>2, <1>6, SerialFits DEF SerialPlaces
<1>8. Goto(t, p)
  BY <1>1, <1>3 DEF Goto, SrGet, SrPut
<1>9. Wakes(k, k') /\ alive' = alive /\ use' = use
  BY NothingWakes DEF SrGet, SrPut, Core
<1>. QED BY <1>3, <1>4, <1>7, <1>8, <1>9, SerialFits, Goes, AliveKept

LEMMA SrReturnsKeeps ==
  ASSUME Core, NEW t \in Running, pc[t] \in {"sr_get", "sr_put"}, SrReturns(t)
  PROVE  CoreStep
BY InSerial, Refuses DEF SrReturns, Refuse

\* The interrupts, and the hook of the idle thread
LEMMA SrHandlerKeeps ==
  ASSUME Core, WqPart,
         \/ \E s : SrIsrReceive(s)
         \/ SrIsrSent
         \/ (\E c : SrIdleStore(c)) \/ SrIdleLength \/ SrIdleWake
  PROVE  CoreStep
<1>0. Wakes(k, k) /\ Wakes(k, WqResumed(k, "serial")) /\ Wakes(k, WakeOne(k, "cp"))
  BY NothingWakes, WqResumedWakes, WakeOneWakes, SerialAssumption, CompletionAssumption DEF Core
<1>1. ASSUME NEW s, SrIsrReceive(s) PROVE CoreStep
  BY <1>0, <1>1, Handles DEF SrIsrReceive
<1>2. CASE SrIsrSent
  BY <1>0, <1>2, Handles DEF SrIsrSent
<1>3. ASSUME (\E c : SrIdleStore(c)) \/ SrIdleLength \/ SrIdleWake PROVE CoreStep
  <2>1. PICK p \in {"run", "sr_length", "sr_wake"} : pc' = [pc EXCEPT ![Idle] = p]
    BY <1>3 DEF SrIdleStore, SrIdleLength, SrIdleWake, Goto
  <2>2. CallsKept(Thread)
    BY <1>3 DEF SrIdleStore, SrIdleLength, SrIdleWake, CallsKept, CallKept, Core, PlacePart
  <2>3. use' = use /\ alive' = alive
    BY <1>3 DEF SrIdleStore, SrIdleLength, SrIdleWake
  <2>4. k' = k \/ k' = Schedule(WqResumed(k, "serial"))
    BY <1>3 DEF SrIdleStore, SrIdleLength, SrIdleWake
  <2>5. IdleRuns
    BY <1>3 DEF IdleRuns
  <2>. QED BY <1>0, <2>1, <2>2, <2>3, <2>4, <2>5, Interrupts
<1>. QED BY <1>1, <1>2, <1>3

LEMMA SrKeeps ==
  ASSUME Core, WqPart, SrNext
  PROVE  CoreStep
<1>0. Wakes(k, k)
  BY NothingWakes DEF Core
<1>1. ASSUME NEW t \in Running, NEW n \in SrCount, SrRead(t, n) \/ SrWrite(t, n) PROVE CoreStep
  <2>1. n \in Nat
    BY SerialAssumption
  <2>2. PICK op \in {"sr_read", "sr_write"}, p \in {"sr_get", "sr_put"} :
          SrStarts(t, op, n, p) /\ p = IF op = "sr_read" THEN "sr_get" ELSE "sr_put"
    BY <1>1 DEF SrRead, SrWrite
  <2>. QED BY <2>1, <2>2, SrStartsKeeps
<1>2. ASSUME NEW t \in Running, SrGet(t) \/ SrPut(t) PROVE CoreStep
  BY <1>2, SrByteKeeps
<1>3. ASSUME NEW t \in Running, SrReadEnd(t) \/ SrWritten(t) PROVE CoreStep
  BY <1>3, SrReturnsKeeps DEF SrReadEnd, SrWritten, At
<1>4. ASSUME NEW t \in Running, SrReadNone(t) PROVE CoreStep
  BY <1>0, <1>4, InSerial, SerialGoes DEF SrReadNone, At, SerialPlaces
<1>5. ASSUME NEW t \in Running, SrWait(t) PROVE CoreStep
  <2>1. Free(t) /\ t # Idle /\ call[t] \in WaitCall /\ call[t] \in SerialCall({"sr_read"})
    BY <1>5, InSerial DEF SrWait, At
  <2>2. CASE WqPass(t, "serial", "sr_get")
    BY <1>0, <2>1, <2>2, SerialGoes DEF WqPass, SerialPlaces
  <2>. QED BY <1>5, <2>1, <2>2, WqBlocks DEF SrWait
<1>6. ASSUME NEW t \in Running, SrWaited(t) PROVE CoreStep
  <2>1. Free(t) /\ t # Idle /\ call[t] \in SerialCall({"sr_read"})
    BY <1>6, InSerial DEF SrWaited, WqReturn, WqUnqueue, At
  <2>. QED BY <1>0, <1>6, <2>1, SerialGoes DEF SrWaited, WqReturn, WqUnqueue, SerialPlaces
<1>7. ASSUME NEW t \in Running, SrFlush(t) PROVE CoreStep
  BY <1>7, Idles DEF SrFlush, caller
<1>8. ASSUME NEW t \in Running, SrPutRefused(t) \/ SrPutAgain(t) PROVE CoreStep
  BY <1>0, <1>8, InSerial, SerialGoes DEF SrPutRefused, SrPutAgain, At, SerialPlaces
<1>9. ASSUME NEW t \in Running, SrPutWait(t) PROVE CoreStep
  <2>1. /\ Free(t) /\ t # Idle /\ call[t] \in WaitCall /\ call[t] \in SerialCall({"sr_write"})
        /\ "cp" \in WaitList
    BY <1>9, InSerial, CompletionAssumption DEF SrPutWait, At
  <2>2. call[t].op = "sr_write"
    BY <2>1 DEF SerialCall
  <2>3. <<"cp", call[t].op>> \in WaitPairs
    BY <2>2 DEF WaitPairs
  <2>. QED BY <1>9, <2>1, <2>3, WaitsOn DEF SrPutWait
<1>10. ASSUME NEW t \in Running, SrPutWaited(t) PROVE CoreStep
  BY <1>0, <1>10, InSerial, SerialGoes DEF SrPutWaited, At, SerialPlaces
<1>11. CASE \/ \E n \in SrFound : \E s \in [1..n -> SrByte] : SrIsrReceive(s)
            \/ SrIsrSent
            \/ (\E c \in SrByte : SrIdleStore(c)) \/ SrIdleLength \/ SrIdleWake
  <2>1. \/ \E s : SrIsrReceive(s)
        \/ SrIsrSent
        \/ (\E c : SrIdleStore(c)) \/ SrIdleLength \/ SrIdleWake
    BY <1>11
  <2>. QED BY <2>1, SrHandlerKeeps
<1>. QED BY <1>1, <1>2, <1>3, <1>4, <1>5, <1>6, <1>7, <1>8, <1>9, <1>10, <1>11 DEF SrNext

-----------------------------------------------------------------------------
(***************************************************************************)
(* The wait queues and the buffers of the drivers.                         *)
(***************************************************************************)

WqEntry == [flag : BOOLEAN, nodes : Seq(Thread)]

LEMMA WqWokenFits ==
  ASSUME WqPart, NEW q \in WaitQueueName
  PROVE  WqWoken(q) \in WqEntry
<1>1. wq[q].nodes \in Seq(Thread)
  BY DEF WqPart
<1>2. (IF wq[q].nodes = <<>> THEN <<>> ELSE Tail(wq[q].nodes)) \in Seq(Thread)
  BY <1>1
<1>. QED BY <1>2 DEF WqWoken, WqEntry

\* rt_wqueue_wakeup
LEMMA WqWakeFits ==
  ASSUME WqPart, NEW q \in WaitQueueName, wq' = [wq EXCEPT ![q] = WqWoken(q)]
  PROVE  WqPart'
BY WqWokenFits DEF WqPart, WqEntry

\* rt_wqueue_wait
LEMMA WqWaitFits ==
  ASSUME WqPart, NEW q \in WaitQueueName, NEW t \in Thread, NEW next,
         WqPass(t, q, next) \/ WqBlock(t, q) \/ WqReturn(t, q) \/ WqUnqueue(t, q, next)
  PROVE  WqPart'
<1>1. wq[q] \in WqEntry /\ wq[q].nodes \in Seq(Thread)
  BY DEF WqPart, WqEntry
<1>2. PICK e : wq' = [wq EXCEPT ![q] = e] /\ e \in WqEntry
  <2>1. CASE wq' = [wq EXCEPT ![q].flag = FALSE]
    <3>1. PICK e : e = [wq[q] EXCEPT !.flag = FALSE]
      OBVIOUS
    <3>2. e \in WqEntry
      BY <1>1, <3>1 DEF WqEntry
    <3>. QED BY <2>1, <3>1, <3>2
  <2>2. CASE wq' = [wq EXCEPT ![q].nodes = Append(@, t)]
    <3>1. PICK z \in Seq(Thread) : z = Append(wq[q].nodes, t)
      BY <1>1, AppendList
    <3>2. PICK e : e = [wq[q] EXCEPT !.nodes = z]
      OBVIOUS
    <3>3. e \in WqEntry
      BY <1>1, <3>2 DEF WqEntry
    <3>. QED BY <2>2, <3>1, <3>2, <3>3
  <2>3. CASE wq' = [wq EXCEPT ![q].nodes = RemoveFirst(@, t)]
    <3>1. PICK z \in Seq(Thread) : z = RemoveFirst(wq[q].nodes, t)
      BY <1>1, RemoveFirstList
    <3>2. PICK e : e = [wq[q] EXCEPT !.nodes = z]
      OBVIOUS
    <3>3. e \in WqEntry
      BY <1>1, <3>2 DEF WqEntry
    <3>. QED BY <2>3, <3>1, <3>2, <3>3
  <2>. QED BY <2>1, <2>2, <2>3 DEF WqPass, WqBlock, WqReturn, WqUnqueue
<1>. QED BY <1>2 DEF WqPart, WqEntry

LEMMA PipeQueues == \A t : Own(t) \in WaitQueueName /\ Other(t) \in WaitQueueName
BY PipeAssumption DEF Own, Other

LEMMA PpQueues ==
  ASSUME Core, WqPart, PpNext
  PROVE  WqPart'
<1>1. ASSUME NEW t \in Running, PpClose(t) PROVE WqPart'
  <2>1. DOMAIN wq = WaitQueueName
    BY DEF WqPart
  <2>2. PICK h : h = HungUp(pp')
    OBVIOUS
  <2>3. wq' = [q \in WaitQueueName |-> IF q \in h THEN WqWoken(q) ELSE wq[q]]
    BY <1>1, <2>1, <2>2 DEF PpClose
  <2>4. \A q \in WaitQueueName : wq[q] \in WqEntry /\ WqWoken(q) \in WqEntry
    BY WqWokenFits DEF WqPart, WqEntry
  <2>. QED BY <2>3, <2>4 DEF WqPart, WqEntry
<1>2. ASSUME NEW t \in Running, PpWait(t) \/ PpWaited(t) PROVE WqPart'
  <2>1. Own(t) \in WaitQueueName /\ t \in Thread
    BY PipeQueues, KernelFunctions DEF Running, Core
  <2>. QED BY <1>2, <2>1, WqWaitFits DEF PpWait, PpWaited
<1>3. ASSUME NEW t \in Running, PpSignal(t) \/ PpRouse(t) \/ PpLast(t) PROVE WqPart'
  BY <1>3, PipeQueues, WqWakeFits DEF PpSignal, PpRouse, PpLast, Wakeup
<1>4. ASSUME NEW t \in Running,
             \/ \E op \in PpOp, n \in Burst : PpCall(t, op, n)
             \/ PpLock(t) \/ PpLockWait(t) \/ PpLocked(t) \/ PpOpen(t)
             \/ PpReadEnd(t) \/ PpReadSome(t) \/ PpReadNone(t)
             \/ PpWriteEnd(t) \/ PpWriteSome(t) \/ PpRelease(t) \/ PpUnlock(t)
      PROVE  wq' = wq
  BY <1>4 DEF PpCall, PpLock, PpLockWait, PpLocked, PpOpen, PpReadEnd, PpReadSome, PpReadNone,
              PpWriteEnd, PpWriteSome, PpRelease, PpUnlock, Unlock, pipe
<1>5. wq' = wq => WqPart'
  BY DEF WqPart
<1>. QED BY <1>1, <1>2, <1>3, <1>4, <1>5 DEF PpNext

LEMMA SrQueues ==
  ASSUME Core, WqPart, SrNext
  PROVE  WqPart'
<1>1. "serial" \in WaitQueueName
  BY SerialAssumption
<1>2. ASSUME NEW t \in Running, SrWait(t) \/ SrWaited(t) PROVE WqPart'
  <2>1. t \in Thread
    BY KernelFunctions DEF Running, Core
  <2>. QED BY <1>1, <1>2, <2>1, WqWaitFits DEF SrWait, SrWaited
<1>3. ASSUME NEW s, SrIsrReceive(s) PROVE WqPart'
  BY <1>1, <1>3, WqWakeFits DEF SrIsrReceive
<1>4. ASSUME SrIdleWake PROVE WqPart'
  BY <1>1, <1>4, WqWakeFits DEF SrIdleWake
<1>5. ASSUME NEW t \in Running,
             \/ \E n \in SrCount : SrRead(t, n) \/ SrWrite(t, n)
             \/ SrGet(t) \/ SrReadEnd(t) \/ SrReadNone(t) \/ SrFlush(t)
             \/ SrPut(t) \/ SrPutRefused(t) \/ SrPutAgain(t) \/ SrPutWait(t) \/ SrPutWaited(t)
             \/ SrWritten(t)
      PROVE  wq' = wq
  BY <1>5 DEF SrRead, SrWrite, SrStarts, SrGet, SrReadEnd, SrReturns, SrReadNone, SrFlush, SrPut,
              SrPutRefused, SrPutAgain, SrPutWait, SrPutWaited, SrWritten
<1>6. ASSUME SrIsrSent \/ (\E c \in SrByte : SrIdleStore(c)) \/ SrIdleLength PROVE wq' = wq
  BY <1>6 DEF SrIsrSent, SrIdleStore, SrIdleLength
<1>7. wq' = wq => WqPart'
  BY DEF WqPart
<1>. QED BY <1>2, <1>3, <1>4, <1>5, <1>6, <1>7 DEF SrNext

\* The ring buffer of a pipe
LEMMA PpRings ==
  ASSUME Core, RingSound(ring, kept), PpNext
  PROVE  RingSound(ring', kept')
<1> PICK h : RingHolds(ring, h) /\ (~kept.emptied => h = kept.bytes)
  BY DEF RingSound
<1> kept \in KeptState
  BY DEF RingSound
<1>1. ASSUME NEW t \in Running, PpOpen(t) \/ PpClose(t) PROVE RingSound(ring', kept')
  BY <1>1, EmptyHolds, NothingSound DEF PpOpen, PpClose
<1>2. ASSUME NEW t \in Running, PpReadSome(t) PROVE RingSound(ring', kept')
  <2>1. call[t] \in PipeCall
    BY <1>2, InPipe DEF PpReadSome, In, At, PipePlaces
  <2>2. call[t].arg \in Nat
    BY <2>1 DEF PipeCall
  <2>3. PICK n : n = Min({call[t].arg, DataLen(ring)})
    OBVIOUS
  <2>4. DataLen(ring) = Len(h) /\ Len(h) \in Nat
    BY RingLength
  <2>5. n \in 0..Len(h) /\ n \in Nat
    BY <2>2, <2>3, <2>4, MinPair
  <2>6. ring' = RbGet(ring, n) /\ kept' = KeptGot(kept, n) /\ kept' \in KeptState
    BY <1>2, <2>3, <2>5, KeptGets DEF PpReadSome
  <2>7. RingHolds(ring', SubSeq(h, n + 1, Len(h)))
    BY <2>5, <2>6, GetHolds
  <2>8. kept'.bytes = SubSeq(kept.bytes, n + 1, Len(kept.bytes)) /\ kept'.emptied = kept.emptied
    BY <2>5, <2>6, KeptGets
  <2>. QED BY <2>6, <2>7, <2>8 DEF RingSound
<1>3. ASSUME NEW t \in Running, PpWriteSome(t) PROVE RingSound(ring', kept')
  <2>1. call[t] \in PipeCall
    BY <1>3, InPipe DEF PpWriteSome, In, At, PipePlaces
  <2>2. PICK m : m = call[t].arg
    OBVIOUS
  <2>3. m \in Nat
    BY <2>1, <2>2 DEF PipeCall
  <2>4. PICK s : s = [i \in 1..m |-> PipeByte]
    OBVIOUS
  <2>5. s \in Seq(Byte)
    BY <2>3, <2>4, PipeAssumption
  <2>6. ring' = RbPut(ring, s) /\ kept' = KeptPut(kept, s)
    BY <1>3, <2>2, <2>4 DEF PpWriteSome
  <2>7. /\ kept' \in KeptState /\ kept'.emptied = kept.emptied
        /\ kept'.bytes = kept.bytes \o SubSeq(s, 1, Min({Len(s), RbSize - Len(kept.bytes)}))
    BY <2>5, <2>6, KeptPuts
  <2>8. RingHolds(ring', h \o SubSeq(s, 1, Min({Len(s), RbSize - Len(h)})))
    BY <2>5, <2>6, PutHolds
  <2>. QED BY <2>7, <2>8 DEF RingSound
<1>4. ASSUME NEW t \in Running,
             \/ \E op \in PpOp, n \in Burst : PpCall(t, op, n)
             \/ PpLock(t) \/ PpLockWait(t) \/ PpLocked(t)
             \/ PpReadEnd(t) \/ PpReadNone(t) \/ PpWriteEnd(t)
             \/ PpRelease(t) \/ PpSignal(t) \/ PpWait(t) \/ PpWaited(t)
             \/ PpRouse(t) \/ PpUnlock(t) \/ PpLast(t)
      PROVE  ring' = ring /\ kept' = kept
  BY <1>4 DEF PpCall, PpLock, PpLockWait, PpLocked, PpReadEnd, PpReadNone, PpWriteEnd, PpRelease,
              PpSignal, PpWait, PpWaited, PpRouse, PpUnlock, PpLast, Unlock, Wakeup, pipe
<1>. QED BY <1>1, <1>2, <1>3, <1>4 DEF PpNext

-----------------------------------------------------------------------------
(***************************************************************************)
(* The theorems.                                                           *)
(***************************************************************************)

BuffersHold == RingSound(ring, kept) /\ FifoHolds(sr, unread) /\ BlocksHold(rbb)

IInv == Core /\ WqPart /\ BuffersHold

\* Threads start outside every call, on the ready lists and on no other
LEMMA CoreStarts ==
  ASSUME CallerInit(Object)
  PROVE  Core
<1>1. /\ k = BootKernel /\ KernelInv(k, {}) /\ k.lock = 0 /\ k.stat[k.cur] = "ready"
      /\ \A t \in Thread : k.stat[t] \in {"ready", "init"}
  BY BootKeeps DEF CallerInit
<1>2. pc = [t \in Thread |-> "run"] /\ call = [t \in Thread |-> None]
      /\ alive = Object /\ use \in Uses
  BY DEF CallerInit
<1>3. "run" \in AllLabels /\ CallFits("run", None)
  BY DEF AllLabels, CallFits
<1>4. PlacePart
  BY <1>2, <1>3, KernelAssumption DEF PlacePart
<1>5. RunningPart
  BY <1>1 DEF RunningPart, NoneClosed
<1>6. LockPart
  BY <1>1, <1>2 DEF LockPart, InReset
<1>7. WaitingPart
  <2>1. \A w \in WaitList : k.wait[w] = <<>>
    BY <1>1, BootKeeps
  <2>. QED BY <2>1, EmptyList DEF WaitingPart
<1>. QED BY <1>1, <1>4, <1>5, <1>6, <1>7 DEF Core

LEMMA InitInv == Init => IInv
<1> SUFFICES ASSUME Init PROVE IInv
  OBVIOUS
<1>1. Core
  BY CoreStarts DEF Init
<1>2. WqPart
  <2>1. <<>> \in Seq(Thread)
    OBVIOUS
  <2>. QED BY <2>1 DEF Init, WqInit, WqPart
<1>3. RingSound(ring, kept)
  BY EmptyHolds, NothingSound DEF Init, RbInit
<1>4. FifoHolds(sr, unread)
  BY SrInitHolds DEF Init
<1>5. BlocksHold(rbb)
  BY RbbInitHolds DEF Init
<1>. QED BY <1>1, <1>2, <1>3, <1>4, <1>5 DEF IInv, BuffersHold

\* Whichever object the step is of
LEMMA CoreSteps == IInv /\ [Next]_vars => CoreStep
<1> SUFFICES ASSUME IInv, [Next]_vars PROVE CoreStep
  OBVIOUS
<1>1. Core /\ WqPart /\ RbType
  BY RingMeans DEF IInv, BuffersHold
<1>2. CASE Next
  BY <1>1, <1>2, CallerStepKeeps, MbKeeps, MqKeeps, EvKeeps, MpKeeps, DqKeeps, CpKeeps, RbKeeps,
     PpKeeps, WkKeeps, HpKeeps, OnKeeps, SrKeeps DEF Next
<1>3. CASE UNCHANGED vars
  BY <1>1, <1>3, Idles DEF vars, caller
<1>. QED BY <1>2, <1>3

LEMMA QueuesStay == IInv /\ [Next]_vars => WqPart'
<1> SUFFICES ASSUME IInv, [Next]_vars PROVE WqPart'
  OBVIOUS
<1>1. Core /\ WqPart
  BY DEF IInv
<1>2. ASSUME wq' = wq PROVE WqPart'
  BY <1>1, <1>2 DEF WqPart
<1>3. (PpNext \/ SrNext) \/ wq' = wq
  BY DEF Next, vars, pipe, RbNext, caller
<1>. QED BY <1>1, <1>2, <1>3, PpQueues, SrQueues

LEMMA RingsStay == IInv /\ [Next]_vars => RingSound(ring, kept)'
<1> SUFFICES ASSUME IInv, [Next]_vars PROVE RingSound(ring', kept')
  OBVIOUS
<1>1. Core /\ RingSound(ring, kept)
  BY DEF IInv, BuffersHold
<1>2. (RbNext \/ PpNext) \/ (ring' = ring /\ kept' = kept)
  BY DEF Next, vars, pipe
<1>. QED BY <1>1, <1>2, RbNextHolds, PpRings

LEMMA FifosStay == IInv /\ [Next]_vars => FifoHolds(sr, unread)'
<1> SUFFICES ASSUME IInv, [Next]_vars PROVE FifoHolds(sr', unread')
  OBVIOUS
<1>1. FifoHolds(sr, unread)
  BY DEF IInv, BuffersHold
<1>2. SrNext \/ (sr' = sr /\ unread' = unread)
  BY DEF Next, vars, serial
<1>. QED BY <1>1, <1>2, SrNextHolds

LEMMA BlocksStay == IInv /\ [Next]_vars => BlocksHold(rbb)'
<1> SUFFICES ASSUME IInv, [Next]_vars PROVE BlocksHold(rbb')
  OBVIOUS
<1>1. BlocksHold(rbb)
  BY DEF IInv, BuffersHold
<1>2. RbbNext \/ rbb' = rbb
  BY DEF Next, vars
<1>. QED BY <1>1, <1>2, RbbNextHolds

LEMMA StepInv == IInv /\ [Next]_vars => IInv'
BY CoreSteps, QueuesStay, RingsStay, FifosStay, BlocksStay DEF IInv, BuffersHold, CoreStep

THEOREM Consistent == Spec => []IInv
BY InitInv, StepInv, PTL DEF Spec

(***************************************************************************)
(* Whatever mix of blocking calls is made, and whenever handlers come, the *)
(* kernel's lists, bitmap and timers agree with the threads' states, and   *)
(* each thread is in the call its place in the code belongs to.            *)
(***************************************************************************)
CallsFit == CallerType(Labels) /\ \A t \in Thread : CallFits(pc[t], call[t])

THEOREM CallersSound == Spec => []CallsFit
<1>1. IInv => CallsFit
  BY CoreTypes DEF IInv, CallsFit
<1>. QED BY <1>1, Consistent, PTL

\* A thread is on the suspend list of an object only in a call that waits on that list
THEOREM WaitersWait == Spec => []WaitingPart
<1>1. IInv => WaitingPart
  BY DEF IInv, Core
<1>. QED BY <1>1, Consistent, PTL

\* The ring buffer, the FIFO of the serial device and the ring of blocks lose, double and
\* reorder nothing but what they say they drop, and no two blocks in use overlap; a ring
\* buffer only until rt_ringbuffer_put_force empties it by flipping both mirrors
\* (ForceEmpties), and again from its next reset on
THEOREM BuffersKeepBytes == Spec => []BuffersSound
<1>1. IInv => BuffersSound
  BY RingMeans, FifoMeans, BlocksMean DEF IInv, BuffersHold, BuffersSound
<1>. QED BY <1>1, Consistent, PTL
=============================================================================
