---------------------------- MODULE Queues_proofs ----------------------------
(***************************************************************************)
(* Proofs about the objects of Services.  The blocks of the message queue  *)
(* are conserved; the mailbox, the message queue and the data queue        *)
(* implement AbstractQueue; and no thread is left asleep on an object that *)
(* has what it waits for.                                                  *)
(***************************************************************************)
EXTENDS Services_proofs


-----------------------------------------------------------------------------
(***************************************************************************)
(* The message queue.                                                      *)
(***************************************************************************)

\* A block is in the hands of one thread, the one that copies into or out of it
HandsFit ==
  /\ hand \in [Thread -> MqBlocks \cup {None}] /\ pc \in [Thread -> AllLabels]
  /\ \A t \in Thread : hand[t] # None <=> pc[t] \in InCopy
  /\ \A t, u \in Thread : t # u /\ hand[t] # None => hand[t] # hand[u]

\* ... and holds a message where it is copied out
HandsFull == \A t \in Thread : pc[t] = "copy" => mq.data[hand[t]] \in Message

MqHolds(w, f) == BlocksIn(mq, InHand, w, f) /\ QueueOf(mq, w)

MqPart == HandsFit /\ HandsFull /\ \E w, f : MqHolds(w, f)

LEMMA HandTakes ==
  ASSUME HandsFit, NEW t \in Thread, hand[t] = None, NEW b \in MqBlocks \ InHand,
         hand' = [hand EXCEPT ![t] = b], NEW p \in InCopy, Goto(t, p)
  PROVE  HandsFit' /\ InHand' = InHand \cup {b}
<1>1. b # None /\ p \in AllLabels
  BY BlockCount DEF InCopy, AllLabels, Labels
<1>2. /\ hand' \in [Thread -> MqBlocks \cup {None}] /\ hand'[t] = b
      /\ \A u \in Thread \ {t} : hand'[u] = hand[u]
      /\ pc' \in [Thread -> AllLabels] /\ pc'[t] = p /\ \A u \in Thread \ {t} : pc'[u] = pc[u]
  BY <1>1 DEF HandsFit, Goto
<1>3. \A u \in Thread : hand[u] # None => hand[u] \in InHand
  BY DEF InHand
<1>4. HandsFit'
  BY <1>1, <1>2, <1>3 DEF HandsFit
<1>5. ASSUME NEW x PROVE x \in InHand' <=> x \in InHand \cup {b}
  BY <1>1, <1>2 DEF InHand
<1>. QED BY <1>4, <1>5

LEMMA HandGives ==
  ASSUME HandsFit, NEW t \in Thread, hand[t] # None,
         hand' = [hand EXCEPT ![t] = None], NEW p \in AllLabels \ InCopy, Goto(t, p)
  PROVE  HandsFit' /\ InHand' = InHand \ {hand[t]} /\ hand[t] \in InHand
<1>2. /\ hand' \in [Thread -> MqBlocks \cup {None}] /\ hand'[t] = None
      /\ \A u \in Thread \ {t} : hand'[u] = hand[u]
      /\ pc' \in [Thread -> AllLabels] /\ pc'[t] = p /\ \A u \in Thread \ {t} : pc'[u] = pc[u]
  BY DEF HandsFit, Goto
<1>4. HandsFit'
  BY <1>2 DEF HandsFit
<1>5. ASSUME NEW x PROVE x \in InHand' <=> x \in InHand \ {hand[t]}
  BY <1>2 DEF InHand, HandsFit
<1>6. hand[t] \in InHand
  BY DEF InHand
<1>. QED BY <1>4, <1>5, <1>6

\* Steps of t that are no part of a copy
LEMMA HandsStay ==
  ASSUME HandsFit, hand' = hand, pc' \in [Thread -> AllLabels],
         \A u \in Thread : pc'[u] = pc[u] \/ (pc[u] \notin InCopy /\ pc'[u] \notin InCopy)
  PROVE  HandsFit' /\ InHand' = InHand
<1>1. InHand' = InHand
  BY DEF InHand
<1>2. \A u \in Thread : pc'[u] \in InCopy <=> pc[u] \in InCopy
  OBVIOUS
<1>. QED BY <1>1, <1>2 DEF HandsFit

\* What the queue holds, and what its receivers have taken
LEMMA MqMeaning ==
  ASSUME NEW w, NEW f, MqHolds(w, f)
  PROVE  /\ MqContents = Values(mq.data, w) /\ Chain(mq, mq.head) = w /\ Chain(mq, mq.free) = f
         /\ mq.entry = Len(w) /\ Len(w) \in 0..Len(MqBlock)
<1>1. /\ w \in Seq(MqBlocks) /\ Distinct(w) /\ Follow(mq.next, w) /\ mq.head = First(w)
      /\ f \in Seq(MqBlocks) /\ Distinct(f) /\ Follow(mq.next, f) /\ mq.free = First(f)
      /\ mq.entry = Len(w)
  BY DEF MqHolds, BlocksIn, QueueOf
<1>2. Chain(mq, mq.head) = w /\ Chain(mq, mq.free) = f
  BY <1>1, ChainList
<1>3. MqContents = Values(mq.data, w)
  BY <1>1, <1>2 DEF MqContents, Values
<1>. QED BY <1>1, <1>2, <1>3, ListFits

LEMMA MqMeans ==
  ASSUME MqPart
  PROVE  MqBlocksConserved
<1>1. PICK w, f : MqHolds(w, f)
  BY DEF MqPart
<1>2. Chain(mq, mq.head) = w /\ Chain(mq, mq.free) = f /\ mq.entry = Len(w)
  BY <1>1, MqMeaning
<1>3. /\ w \in Seq(MqBlocks) /\ Distinct(w) /\ f \in Seq(MqBlocks) /\ Distinct(f)
      /\ InOnePlace(w, f, InHand) /\ InHand \subseteq MqBlocks /\ mq.tail = Final(w)
  BY <1>1 DEF MqHolds, BlocksIn, QueueOf
<1>4. PICK z : z = w \o f
  OBVIOUS
<1>5. /\ z \in Seq(MqBlocks) /\ Len(z) = Len(w) + Len(f) /\ Len(w) \in Nat /\ Len(f) \in Nat
      /\ \A i \in 1..Len(w) : z[i] = w[i]
      /\ \A i \in 1..Len(f) : z[Len(w) + i] = f[i]
  BY <1>3, <1>4
<1>6. \A i \in 1..Len(z) : i \in 1..Len(w) \/ \E j \in 1..Len(f) : i = Len(w) + j
  <2>1. ASSUME NEW i \in 1..Len(z), i \notin 1..Len(w) PROVE \E j \in 1..Len(f) : i = Len(w) + j
    <3>1. i - Len(w) \in 1..Len(f) /\ i = Len(w) + (i - Len(w))
      BY <1>5, <2>1
    <3>. QED BY <3>1
  <2>. QED BY <2>1
<1>7. \A i \in 1..Len(w), j \in 1..Len(f) : w[i] # f[j] /\ w[i] \in MqBlocks
  BY <1>3 DEF InOnePlace, Contains
<1>8. Distinct(z)
  <2>1. ASSUME NEW i \in 1..Len(z), NEW j \in 1..Len(z), z[i] = z[j] PROVE i = j
    <3>1. CASE i \in 1..Len(w) /\ j \in 1..Len(w)
      BY <1>3, <1>5, <2>1, <3>1 DEF Distinct
    <3>2. ASSUME NEW m \in 1..Len(f), NEW n \in 1..Len(f), i = Len(w) + m, j = Len(w) + n PROVE i = j
      <4>1. f[m] = f[n]
        BY <1>5, <2>1, <3>2
      <4>. QED BY <1>3, <3>2, <4>1 DEF Distinct
    <3>3. ASSUME i \in 1..Len(w), NEW n \in 1..Len(f), j = Len(w) + n PROVE FALSE
      BY <1>5, <1>7, <2>1, <3>3
    <3>4. ASSUME j \in 1..Len(w), NEW n \in 1..Len(f), i = Len(w) + n PROVE FALSE
      BY <1>5, <1>7, <2>1, <3>4
    <3>. QED BY <1>6, <3>1, <3>2, <3>3, <3>4
  <2>. QED BY <2>1 DEF Distinct
<1>9. ASSUME NEW b PROVE b \in ToSet(z) <=> Contains(w, b) \/ Contains(f, b)
  <2>0. DOMAIN z = 1..Len(z)
    BY <1>5
  <2>1. \A i \in 1..Len(w) : i \in 1..Len(z)
    BY <1>5
  <2>2. \A i \in 1..Len(f) : Len(w) + i \in 1..Len(z)
    BY <1>5
  <2>3. b \in ToSet(z) <=> \E i \in 1..Len(z) : z[i] = b
    BY <2>0 DEF ToSet
  <2>4. ASSUME NEW i \in 1..Len(z), z[i] = b PROVE Contains(w, b) \/ Contains(f, b)
    BY <1>5, <1>6, <2>4 DEF Contains
  <2>5. ASSUME Contains(w, b) \/ Contains(f, b) PROVE \E i \in 1..Len(z) : z[i] = b
    BY <1>5, <2>1, <2>2, <2>5 DEF Contains
  <2>. QED BY <2>3, <2>4, <2>5
<1>10. ToSet(z) \cap InHand = {} /\ ToSet(z) \cup InHand = MqBlocks
  <2>1. ASSUME NEW b PROVE Contains(w, b) \/ Contains(f, b) => b \in MqBlocks
    BY <1>3 DEF Contains
  <2>. QED BY <1>3, <1>9, <2>1 DEF InOnePlace
<1>11. Final(w) = IF w = <<>> THEN None ELSE Last(w)
  BY DEF Final, Last
<1>12. \A t, u \in Thread : t # u /\ hand[t] # None => hand[t] # hand[u]
  BY DEF MqPart, HandsFit
<1>. QED BY <1>2, <1>3, <1>4, <1>8, <1>10, <1>11, <1>12 DEF MqBlocksConserved

\* What a thread has taken changes with its own steps only
LEMMA MqTakenOthers ==
  ASSUME NEW t, NEW u \in Thread \ {t}, pc'[u] = pc[u], got'[u] = got[u], hand'[u] = hand[u],
         pc[u] = "copy" => mq'.data[hand[u]] = mq.data[hand[u]]
  PROVE  MqTaken'[u] = MqTaken[u]
BY DEF MqTaken, Taken

LEMMA MqTakenBy ==
  ASSUME NEW t \in Thread, \A u \in Thread \ {t} : MqTaken'[u] = MqTaken[u]
  PROVE  MqTaken' = [MqTaken EXCEPT ![t] = MqTaken'[t]]
<1>1. /\ MqTaken = [u \in Thread |-> MqTaken[u]]
      /\ MqTaken' = [u \in Thread |-> MqTaken'[u]]
  BY DEF MqTaken
<1>. QED BY <1>1

\* The abstract queue's step, or none
MqStep == [MqQueue!Next]_<<MqContents, MqTaken>>

LEMMA MqStays ==
  ASSUME MqPart, GotPart, mq' = mq, hand' = hand, pc' \in [Thread -> AllLabels],
         NEW F, "mq" \notin F, Apart(F)
  PROVE  MqPart' /\ MqStep
<1>1. \A u \in Thread : pc'[u] = pc[u] \/ (pc[u] \notin InCopy /\ pc'[u] \notin InCopy)
  BY DEF Apart, Outside
<1>2. HandsFit' /\ InHand' = InHand
  BY <1>1, HandsStay DEF MqPart
<1>3. HandsFull'
  BY <1>1 DEF MqPart, HandsFull, InCopy
<1>4. \A w, f : MqHolds(w, f) => MqHolds(w, f)'
  BY <1>2 DEF MqHolds, BlocksIn, QueueOf, Follow, First, Final, InOnePlace, MqState
<1>5. MqContents' = MqContents
  BY DEF MqContents, Chain
<1>6. CASE pc' = pc /\ got' = got
  <2>1. MqTaken' = MqTaken
    BY <1>6 DEF MqTaken, Taken
  <2>. QED BY <1>2, <1>3, <1>4, <1>5, <2>1 DEF MqPart, MqStep
<1>7. ASSUME NEW t \in Thread, Outside(t, F) PROVE MqStep
  <2>1. \A u \in Thread \ {t} : MqTaken'[u] = MqTaken[u]
    BY <1>7, MqTakenOthers DEF Outside
  <2>2. MqTaken' = [MqTaken EXCEPT ![t] = MqTaken'[t]]
    BY <2>1, MqTakenBy
  <2>3. MqTaken'[t] = None
    BY <1>7 DEF Outside, MqTaken, Taken, InCopy
  <2>4. CASE MqTaken[t] = None
    <3>1. MqTaken' = MqTaken
      BY <2>2, <2>3, <2>4 DEF MqTaken
    <3>. QED BY <1>5, <3>1 DEF MqStep
  <2>5. CASE MqTaken[t] # None
    <3>1. MqTaken' = [MqTaken EXCEPT ![t] = None]
      BY <2>2, <2>3
    <3>2. MqQueue!Deliver(t)
      BY <1>5, <2>5, <3>1 DEF MqQueue!Deliver
    <3>. QED BY <3>2 DEF MqStep, MqQueue!Next
  <2>. QED BY <2>4, <2>5
<1>. QED BY <1>2, <1>3, <1>4, <1>6, <1>7 DEF MqPart, Apart

\* The part of a step that the other threads have no share in
OnlyBy(t) ==
  /\ pc' \in [Thread -> AllLabels] /\ DOMAIN got' = Thread
  /\ \A u \in Thread \ {t} : pc'[u] = pc[u] /\ got'[u] = got[u]

LEMMA GotOnly ==
  ASSUME GotPart, NEW t, OnlyBy(t), got'[t] # None => pc'[t] \in InReturn
  PROVE  GotPart'
BY DEF GotPart, OnlyBy, InReturn

\* A queue's contents stay if their blocks and data do
LEMMA MqContentsAre ==
  ASSUME NEW w, NEW f, BlocksIn(mq', InHand', w, f), QueueOf(mq', w)
  PROVE  MqHolds(w, f)' /\ MqContents' = Values(mq'.data, w)
<1>1. MqHolds(w, f)'
  BY DEF MqHolds, BlocksIn, QueueOf, Follow, First, Final, InOnePlace, MqState
<1>2. /\ w \in Seq(MqBlocks) /\ Distinct(w) /\ Follow(mq'.next, w) /\ mq'.head = First(w)
      /\ mq'.entry = Len(w)
  BY DEF BlocksIn, QueueOf
<1>3. Chain(mq', mq'.head) = w
  BY <1>2, ChainList
<1>4. MqContents' = Values(mq'.data, w)
  <2>1. Chain(mq, mq.head)' = w
    BY <1>3 DEF Chain
  <2>2. MqContents' = [i \in 1..mq'.entry |-> mq'.data[Chain(mq, mq.head)'[i]]]
    BY DEF MqContents
  <2>. QED BY <1>2, <2>1, <2>2 DEF Values
<1>. QED BY <1>1, <1>4

\* A thread that begins to copy has nothing taken and takes a block in its hands
LEMMA MqSendStays ==
  ASSUME Core, MqPart, GotPart, NEW t \in Running, NEW c, MqSend(t, c)
  PROVE  MqPart' /\ GotPart' /\ MqStep
<1>1. t \in Thread /\ pc \in [Thread -> AllLabels]
  BY PlaceTypes
<1>2. PICK w, f : BlocksIn(mq, InHand, w, f) /\ QueueOf(mq, w)
  BY DEF MqPart, MqHolds
<1>3. pc[t] \notin InCopy /\ got[t] = None /\ hand[t] = None
  BY <1>1 DEF MqSend, Starts, At, GotPart, InCopy, MqPart, HandsFit
<1>4. mq.free # None /\ mq' = [mq EXCEPT !.free = mq.next[@]] /\ hand' = [hand EXCEPT ![t] = mq.free]
      /\ Goto(t, "link") /\ got' = got
  BY DEF MqSend, Grabbed
<1>5. /\ BlocksIn(mq', InHand \cup {mq.free}, w, Tail(f)) /\ mq.free \in MqBlocks \ InHand
      /\ mq'.data = mq.data /\ QueueOf(mq', w)
  BY <1>2, <1>4, TakeFree
<1>6. HandsFit' /\ InHand' = InHand \cup {mq.free}
  <2>1. "link" \in InCopy /\ HandsFit
    BY DEF InCopy, MqPart
  <2>2. PICK b \in MqBlocks \ InHand : b = mq.free
    BY <1>5
  <2>3. HandsFit' /\ InHand' = InHand \cup {b}
    BY <1>1, <1>3, <1>4, <2>1, <2>2, HandTakes
  <2>. QED BY <2>2, <2>3
<1>7. OnlyBy(t) /\ pc'[t] = "link" /\ \A u \in Thread \ {t} : hand'[u] = hand[u]
  <2>1. "link" \in AllLabels
    BY DEF AllLabels, Labels
  <2>. QED BY <1>1, <1>4, <2>1 DEF OnlyBy, Goto, GotPart, MqPart, HandsFit
<1>8. GotPart'
  BY <1>3, <1>4, <1>7, GotOnly
<1>9. MqContents' = MqContents /\ MqHolds(w, Tail(f))'
  <2>1. MqHolds(w, Tail(f))' /\ MqContents' = Values(mq'.data, w)
    BY <1>5, <1>6, MqContentsAre
  <2>2. MqContents = Values(mq.data, w)
    BY <1>2, MqMeaning DEF MqHolds
  <2>. QED BY <1>5, <2>1, <2>2
<1>10. HandsFull'
  BY <1>5, <1>7 DEF MqPart, HandsFull, OnlyBy
<1>11. MqTaken' = MqTaken
  <2>1. \A u \in Thread \ {t} : MqTaken'[u] = MqTaken[u]
    BY <1>5, <1>7, MqTakenOthers DEF OnlyBy
  <2>2. MqTaken[t] = None /\ MqTaken'[t] = None
    BY <1>1, <1>3, <1>4, <1>7 DEF MqTaken, Taken, InCopy
  <2>3. MqTaken' = [MqTaken EXCEPT ![t] = MqTaken'[t]]
    BY <1>1, <2>1, MqTakenBy
  <2>. QED BY <1>1, <2>2, <2>3 DEF MqTaken
<1>. QED BY <1>6, <1>8, <1>9, <1>10, <1>11 DEF MqPart, MqStep

LEMMA MqRecvGets ==
  ASSUME Core, MqPart, GotPart, NEW t \in Running, NEW c, MqRecv(t, c)
  PROVE  MqPart' /\ GotPart' /\ MqStep
<1>1. t \in Thread /\ pc \in [Thread -> AllLabels]
  BY PlaceTypes
<1>2. PICK w, f : BlocksIn(mq, InHand, w, f) /\ QueueOf(mq, w)
  BY DEF MqPart, MqHolds
<1>3. pc[t] \notin InCopy /\ got[t] = None /\ hand[t] = None
  <2>1. pc[t] \notin InCopy \cup InReturn
    BY AtTest DEF MqRecv
  <2>. QED BY <1>1, <2>1 DEF GotPart, InReturn, MqPart, HandsFit
<1>4. mq.entry # 0 /\ mq' = Unlinked(mq) /\ hand' = [hand EXCEPT ![t] = mq.head]
      /\ Goto(t, "copy") /\ got' = got
  BY DEF MqRecv
<1>5. w # <<>> /\ w \in Seq(MqBlocks) /\ mq.data \in [MqBlocks -> Message \cup {None}]
      /\ \A i \in 1..Len(w) : mq.data[w[i]] \in Message
  BY <1>2, <1>4 DEF QueueOf, BlocksIn, MqState
<1>6. /\ BlocksIn(mq', InHand \cup {mq.head}, Tail(w), f) /\ QueueOf(mq', Tail(w))
      /\ mq.head = w[1] /\ mq.head \in MqBlocks \ InHand /\ mq'.data = mq.data
  BY <1>2, <1>4, <1>5, TakenOff
<1>7. HandsFit' /\ InHand' = InHand \cup {mq.head}
  <2>1. "copy" \in InCopy /\ HandsFit
    BY DEF InCopy, MqPart
  <2>2. PICK b \in MqBlocks \ InHand : b = mq.head
    BY <1>6
  <2>3. HandsFit' /\ InHand' = InHand \cup {b}
    BY <1>1, <1>3, <1>4, <2>1, <2>2, HandTakes
  <2>. QED BY <2>2, <2>3
<1>8. OnlyBy(t) /\ pc'[t] = "copy" /\ hand'[t] = w[1] /\ \A u \in Thread \ {t} : hand'[u] = hand[u]
  <2>1. "copy" \in AllLabels
    BY DEF AllLabels, Labels
  <2>. QED BY <1>1, <1>4, <1>6, <2>1 DEF OnlyBy, Goto, GotPart, MqPart, HandsFit
<1>9. GotPart'
  BY <1>3, <1>4, <1>8, GotOnly
<1>10. PICK s : s = MqContents
  OBVIOUS
<1>11. s = Values(mq.data, w) /\ s # <<>> /\ Head(s) = mq.data[w[1]] /\ Tail(s) = Values(mq.data, Tail(w))
  <2>1. s = Values(mq.data, w)
    BY <1>2, <1>10, MqMeaning DEF MqHolds
  <2>. QED BY <1>5, <2>1, ValuesTail
<1>12. MqHolds(Tail(w), f)' /\ MqContents' = Tail(s)
  <2>1. MqHolds(Tail(w), f)' /\ MqContents' = Values(mq'.data, Tail(w))
    BY <1>6, <1>7, MqContentsAre
  <2>. QED BY <1>6, <1>11, <2>1
<1>13. HandsFull'
  <2>1. mq.data[w[1]] \in Message
    <3>1. 1 \in 1..Len(w)
      BY <1>5, EmptySeq
    <3>. QED BY <1>5, <3>1
  <2>. QED BY <1>6, <1>8, <2>1 DEF MqPart, HandsFull, OnlyBy
<1>14. MqQueue!Get(t)
  <2>1. \A u \in Thread \ {t} : MqTaken'[u] = MqTaken[u]
    BY <1>6, <1>8, MqTakenOthers DEF OnlyBy
  <2>2. MqTaken[t] = None /\ MqTaken'[t] = Head(s)
    BY <1>1, <1>3, <1>6, <1>8, <1>11 DEF MqTaken, Taken, InCopy
  <2>3. MqTaken' = [MqTaken EXCEPT ![t] = Head(s)]
    BY <1>1, <2>1, <2>2, MqTakenBy
  <2>. QED BY <1>10, <1>11, <1>12, <2>2, <2>3 DEF MqQueue!Get
<1>. QED BY <1>1, <1>7, <1>9, <1>12, <1>13, <1>14 DEF MqPart, MqStep, MqQueue!Next

\* A value v put behind the others, or before them, in block b
Putting(q, r, H, w, f, op, b, v) ==
  /\ r.data = [q.data EXCEPT ![b] = v] /\ Len(w) < Len(MqBlock)
  /\ \E y : /\ BlocksIn(r, H \ {b}, y, f) /\ QueueOf(r, y)
            /\ Values(r.data, y) = IF op = "mq_urgent" THEN <<v>> \o Values(q.data, w)
                                                      ELSE Append(Values(q.data, w), v)

LEMMA PutIn ==
  ASSUME NEW q, NEW H, NEW w, NEW f, BlocksIn(q, H, w, f), QueueOf(q, w),
         NEW b \in H, NEW v \in Message, NEW op, NEW r, r = Insert(q, op, b, v)
  PROVE  Putting(q, r, H, w, f, op, b, v)
<1>1. /\ q.data \in [MqBlocks -> Message \cup {None}] /\ w \in Seq(MqBlocks) /\ Distinct(w)
      /\ \A i \in 1..Len(w) : q.data[w[i]] \in Message
      /\ b \in MqBlocks /\ ~Contains(w, b)
  BY DEF BlocksIn, MqState, InOnePlace
<1>2. CASE op = "mq_urgent"
  <2>1. PICK y : y = <<b>> \o w
    OBVIOUS
  <2>2. /\ BlocksIn(r, H \ {b}, y, f) /\ QueueOf(r, y) /\ r.data = [q.data EXCEPT ![b] = v]
    <3>1. r = LinkedFirst(q, b, v)
      BY <1>2 DEF Insert
    <3>2. /\ BlocksIn(LinkedFirst(q, b, v), H \ {b}, <<b>> \o w, f)
          /\ QueueOf(LinkedFirst(q, b, v), <<b>> \o w)
          /\ LinkedFirst(q, b, v).data = [q.data EXCEPT ![b] = v]
      BY PutFirst
    <3>. QED BY <2>1, <3>1, <3>2
  <2>3. Values(r.data, y) = <<v>> \o Values(q.data, w)
    <3>1. PICK d \in [MqBlocks -> Message \cup {None}] : d = q.data
      BY <1>1
    <3>2. \A i \in 1..Len(w) : d[w[i]] \in Message
      BY <1>1, <3>1
    <3>3. Values([d EXCEPT ![b] = v], <<b>> \o w) = <<v>> \o Values(d, w)
      BY <1>1, <3>2, ValuesCons
    <3>. QED BY <2>1, <2>2, <3>1, <3>3
  <2>4. Len(w) < Len(MqBlock)
    <3>1. y \in Seq(MqBlocks) /\ Distinct(y)
      BY <2>2 DEF BlocksIn
    <3>2. Len(y) = Len(w) + 1
      BY <1>1, <2>1
    <3>. QED BY <1>1, <3>1, <3>2, ListFits
  <2>. QED BY <1>2, <2>2, <2>3, <2>4 DEF Putting
<1>3. CASE op # "mq_urgent"
  <2>1. PICK y : y = Append(w, b)
    OBVIOUS
  <2>2. /\ BlocksIn(r, H \ {b}, y, f) /\ QueueOf(r, y) /\ r.data = [q.data EXCEPT ![b] = v]
    <3>1. r = Linked(q, b, v)
      BY <1>3 DEF Insert
    <3>2. /\ BlocksIn(Linked(q, b, v), H \ {b}, Append(w, b), f)
          /\ QueueOf(Linked(q, b, v), Append(w, b))
          /\ Linked(q, b, v).data = [q.data EXCEPT ![b] = v]
      BY PutLast
    <3>. QED BY <2>1, <3>1, <3>2
  <2>3. Values(r.data, y) = Append(Values(q.data, w), v)
    <3>1. PICK d \in [MqBlocks -> Message \cup {None}] : d = q.data
      BY <1>1
    <3>2. \A i \in 1..Len(w) : d[w[i]] \in Message
      BY <1>1, <3>1
    <3>3. Values([d EXCEPT ![b] = v], Append(w, b)) = Append(Values(d, w), v)
      BY <1>1, <3>2, ValuesAppend
    <3>. QED BY <2>1, <2>2, <3>1, <3>3
  <2>4. Len(w) < Len(MqBlock)
    <3>1. y \in Seq(MqBlocks) /\ Distinct(y)
      BY <2>2 DEF BlocksIn
    <3>2. Len(y) = Len(w) + 1
      BY <1>1, <2>1
    <3>. QED BY <1>1, <3>1, <3>2, ListFits
  <2>. QED BY <1>3, <2>2, <2>3, <2>4 DEF Putting
<1>. QED BY <1>2, <1>3

\* The same as a step of the abstract queue
PutStep(v, op) ==
  /\ Len(MqContents) < Len(MqBlock)
  /\ MqContents' = IF op = "mq_urgent" THEN <<v>> \o MqContents ELSE Append(MqContents, v)
  /\ MqTaken' = MqTaken

LEMMA PutIsStep ==
  ASSUME NEW v \in Message, NEW op, PutStep(v, op)
  PROVE  MqStep
<1>1. MqQueue!Put(v) \/ MqQueue!PutFirst(v)
  BY DEF PutStep, MqQueue!Put, MqQueue!PutFirst
<1>. QED BY <1>1 DEF MqStep, MqQueue!Next

LEMMA MqLinkPuts ==
  ASSUME Core, MqPart, GotPart, NEW t \in Running, MqLink(t)
  PROVE  MqPart' /\ GotPart' /\ MqStep
<1>1. t \in Thread /\ pc \in [Thread -> AllLabels] /\ pc[t] = "link"
  BY PlaceTypes DEF MqLink, At
<1>2. PICK w, f : BlocksIn(mq, InHand, w, f) /\ QueueOf(mq, w)
  BY DEF MqPart, MqHolds
<1>3. call[t].arg \in Message
  BY <1>1 DEF Core, PlacePart, CallFits
<1>4. got[t] = None /\ hand[t] # None /\ hand[t] \in MqBlocks
  BY <1>1 DEF GotPart, MqPart, HandsFit, InCopy
<1>5. PICK b : b = hand[t]
  OBVIOUS
<1>6. PICK v \in Message : v = call[t].arg
  BY <1>3
<1>7. PICK op : op = call[t].op
  OBVIOUS
<1>8. mq' = Insert(mq, op, b, v) /\ hand' = [hand EXCEPT ![t] = None]
      /\ got' = [got EXCEPT ![t] = None]
  BY <1>5, <1>6, <1>7 DEF MqLink, Finish
<1>9. PICK p \in {"post", "run"} : Goto(t, p)
  BY DEF MqLink, Finish
<1>10. HandsFit' /\ InHand' = InHand \ {b} /\ b \in InHand
  <2>1. p \in AllLabels \ InCopy /\ HandsFit
    BY DEF InCopy, AllLabels, MqPart
  <2>. QED BY <1>1, <1>4, <1>5, <1>8, <1>9, <2>1, HandGives
<1>11. OnlyBy(t) /\ pc'[t] = p /\ got'[t] = None /\ \A u \in Thread \ {t} : hand'[u] = hand[u]
  <2>1. p \in AllLabels
    BY DEF AllLabels
  <2>. QED BY <1>1, <1>8, <1>9, <2>1 DEF OnlyBy, Goto, GotPart, MqPart, HandsFit
<1>12. GotPart'
  BY <1>11, GotOnly
<1>13. PICK n : n = mq'
  OBVIOUS
<1>14. Putting(mq, n, InHand, w, f, op, b, v)
  BY <1>2, <1>8, <1>10, <1>13, PutIn
<1>15. mq'.data = [mq.data EXCEPT ![b] = v] /\ Len(w) < Len(MqBlock)
  BY <1>13, <1>14 DEF Putting
<1>16. PICK y : /\ BlocksIn(mq', InHand \ {b}, y, f) /\ QueueOf(mq', y)
                /\ Values(mq'.data, y) = IF op = "mq_urgent" THEN <<v>> \o Values(mq.data, w)
                                                            ELSE Append(Values(mq.data, w), v)
  BY <1>13, <1>14 DEF Putting
<1>17. MqHolds(y, f)' /\ MqContents' = Values(mq'.data, y)
  BY <1>10, <1>16, MqContentsAre
<1>18. MqContents = Values(mq.data, w) /\ Len(MqContents) = Len(w)
  <2>1. MqContents = Values(mq.data, w)
    BY <1>2, MqMeaning DEF MqHolds
  <2>2. w \in Seq(MqBlocks) /\ mq.data \in [MqBlocks -> Message \cup {None}]
        /\ \A i \in 1..Len(w) : mq.data[w[i]] \in Message
    BY <1>2 DEF BlocksIn, MqState
  <2>. QED BY <2>1, <2>2, ValuesAre
<1>19. \A u \in Thread \ {t} : pc[u] = "copy" => mq'.data[hand[u]] = mq.data[hand[u]]
  BY <1>1, <1>4, <1>5, <1>15 DEF MqPart, HandsFit
<1>20. HandsFull'
  BY <1>9, <1>11, <1>19 DEF MqPart, HandsFull, OnlyBy
<1>21. MqTaken' = MqTaken
  <2>1. \A u \in Thread \ {t} : MqTaken'[u] = MqTaken[u]
    BY <1>11, <1>19, MqTakenOthers DEF OnlyBy
  <2>2. MqTaken[t] = None /\ MqTaken'[t] = None
    BY <1>1, <1>4, <1>9, <1>11 DEF MqTaken, Taken
  <2>3. MqTaken' = [MqTaken EXCEPT ![t] = MqTaken'[t]]
    BY <1>1, <2>1, MqTakenBy
  <2>. QED BY <1>1, <2>2, <2>3 DEF MqTaken
<1>22. PutStep(v, op)
  BY <1>15, <1>16, <1>17, <1>18, <1>21 DEF PutStep
<1>. QED BY <1>10, <1>12, <1>17, <1>20, <1>22, PutIsStep DEF MqPart

LEMMA MqIsrSendPuts ==
  ASSUME Core, MqPart, GotPart, NEW v \in Message, MqIsrSend(v)
  PROVE  MqPart' /\ GotPart' /\ MqStep
<1>1. PICK w, f : BlocksIn(mq, InHand, w, f) /\ QueueOf(mq, w)
  BY DEF MqPart, MqHolds
<1>2. PICK b : b = mq.free
  OBVIOUS
<1>3. PICK r : r = [mq EXCEPT !.free = mq.next[@]]
  OBVIOUS
<1>4. /\ b # None /\ mq' = Insert(r, "mq_send", b, v)
      /\ UNCHANGED <<pc, got, hand>>
  BY <1>2, <1>3 DEF MqIsrSend, Grabbed, Insert
<1>5. /\ BlocksIn(r, InHand \cup {b}, w, Tail(f)) /\ b \in MqBlocks \ InHand
      /\ r.data = mq.data /\ QueueOf(r, w)
  BY <1>1, <1>2, <1>3, <1>4, TakeFree
<1>6. (InHand \cup {b}) \ {b} = InHand
  BY <1>5
<1>7. PICK n : n = mq'
  OBVIOUS
<1>8. Putting(r, n, InHand \cup {b}, w, Tail(f), "mq_send", b, v)
  <2>1. b \in InHand \cup {b}
    OBVIOUS
  <2>. QED BY <1>4, <1>5, <1>7, <2>1, PutIn
<1>9. mq'.data = [r.data EXCEPT ![b] = v] /\ Len(w) < Len(MqBlock)
  BY <1>7, <1>8 DEF Putting
<1>10. PICK y : /\ BlocksIn(mq', InHand, y, Tail(f)) /\ QueueOf(mq', y)
                /\ Values(mq'.data, y) = Append(Values(r.data, w), v)
  BY <1>6, <1>7, <1>8 DEF Putting
<1>11. HandsFit' /\ InHand' = InHand
  BY <1>4, HandsStay DEF MqPart, HandsFit
<1>12. MqHolds(y, Tail(f))' /\ MqContents' = Values(mq'.data, y)
  BY <1>10, <1>11, MqContentsAre
<1>13. MqContents = Values(mq.data, w) /\ Len(MqContents) = Len(w)
  <2>1. MqContents = Values(mq.data, w)
    BY <1>1, MqMeaning DEF MqHolds
  <2>2. w \in Seq(MqBlocks) /\ mq.data \in [MqBlocks -> Message \cup {None}]
        /\ \A i \in 1..Len(w) : mq.data[w[i]] \in Message
    BY <1>1 DEF BlocksIn, MqState
  <2>. QED BY <2>1, <2>2, ValuesAre
<1>14. \A u \in Thread : pc[u] = "copy" => mq'.data[hand[u]] = mq.data[hand[u]]
  <2>1. ASSUME NEW u \in Thread, pc[u] = "copy" PROVE mq'.data[hand[u]] = mq.data[hand[u]]
    <3>1. hand[u] \in InHand
      BY <2>1 DEF InHand, MqPart, HandsFit, InCopy
    <3>. QED BY <1>5, <1>9, <3>1
  <2>. QED BY <2>1
<1>15. HandsFull'
  BY <1>4, <1>14 DEF MqPart, HandsFull
<1>16. MqTaken' = MqTaken
  BY <1>4, <1>14 DEF MqTaken, Taken
<1>17. PutStep(v, "mq_send")
  BY <1>5, <1>9, <1>10, <1>12, <1>13, <1>16 DEF PutStep
<1>18. GotPart'
  BY <1>4 DEF GotPart
<1>. QED BY <1>11, <1>12, <1>15, <1>17, <1>18, PutIsStep DEF MqPart

LEMMA MqCopyStays ==
  ASSUME Core, MqPart, GotPart, NEW t \in Running, MqCopy(t)
  PROVE  MqPart' /\ GotPart' /\ MqStep
<1>1. t \in Thread /\ pc \in [Thread -> AllLabels] /\ pc[t] = "copy"
  BY PlaceTypes DEF MqCopy, At
<1>2. PICK w, f : BlocksIn(mq, InHand, w, f) /\ QueueOf(mq, w)
  BY DEF MqPart, MqHolds
<1>3. hand[t] # None /\ mq.data[hand[t]] \in Message
  BY <1>1 DEF MqPart, HandsFit, HandsFull, InCopy
<1>4. PICK b : b = hand[t]
  OBVIOUS
<1>5. PICK g : g = [from |-> "mq", value |-> mq.data[b]]
  OBVIOUS
<1>6. g # None
  <2>1. g \in [from : {"mq"}, value : Message]
    BY <1>3, <1>4, <1>5
  <2>. QED BY <2>1, MessageQueueAssumption
<1>7. mq' = Released(mq, b) /\ hand' = [hand EXCEPT ![t] = None] /\ got' = [got EXCEPT ![t] = g]
      /\ Goto(t, "ret")
  BY <1>4, <1>5, <1>6 DEF MqCopy, Finish
<1>8. HandsFit' /\ InHand' = InHand \ {b} /\ b \in InHand
  <2>1. "ret" \in AllLabels \ InCopy /\ HandsFit
    BY DEF InCopy, AllLabels, MqPart
  <2>. QED BY <1>1, <1>3, <1>4, <1>7, <2>1, HandGives
<1>9. /\ BlocksIn(mq', InHand \ {b}, w, <<b>> \o f)
      /\ mq'.data = mq.data /\ QueueOf(mq', w)
  BY <1>2, <1>7, <1>8, GiveBack
<1>10. OnlyBy(t) /\ pc'[t] = "ret" /\ got'[t] = g /\ \A u \in Thread \ {t} : hand'[u] = hand[u]
  <2>1. "ret" \in AllLabels
    BY DEF AllLabels
  <2>. QED BY <1>1, <1>7, <2>1 DEF OnlyBy, Goto, GotPart, MqPart, HandsFit
<1>11. GotPart'
  BY <1>10, GotOnly DEF InReturn
<1>12. MqHolds(w, <<b>> \o f)' /\ MqContents' = MqContents
  <2>1. MqHolds(w, <<b>> \o f)' /\ MqContents' = Values(mq'.data, w)
    BY <1>8, <1>9, MqContentsAre
  <2>2. MqContents = Values(mq.data, w)
    BY <1>2, MqMeaning DEF MqHolds
  <2>. QED BY <1>9, <2>1, <2>2
<1>13. HandsFull'
  BY <1>9, <1>10 DEF MqPart, HandsFull, OnlyBy
<1>14. MqTaken' = MqTaken
  <2>1. \A u \in Thread \ {t} : MqTaken'[u] = MqTaken[u]
    BY <1>9, <1>10, MqTakenOthers DEF OnlyBy
  <2>2. MqTaken[t] = mq.data[b] /\ MqTaken'[t] = mq.data[b]
    BY <1>1, <1>4, <1>5, <1>6, <1>10 DEF MqTaken, Taken
  <2>3. MqTaken' = [MqTaken EXCEPT ![t] = MqTaken'[t]]
    BY <1>1, <2>1, MqTakenBy
  <2>. QED BY <1>1, <2>2, <2>3 DEF MqTaken
<1>. QED BY <1>8, <1>11, <1>12, <1>13, <1>14 DEF MqPart, MqStep

LEMMA MqResetClears ==
  ASSUME Core, MqPart, GotPart, NEW t \in Running, MqReset(t)
  PROVE  MqPart' /\ GotPart' /\ MqStep
<1>1. t \in Thread /\ pc \in [Thread -> AllLabels] /\ pc[t] = "run" /\ got[t] = None
  BY PlaceTypes DEF MqReset, Starts, At, GotPart
<1>2. PICK w, f : BlocksIn(mq, InHand, w, f) /\ QueueOf(mq, w)
  BY DEF MqPart, MqHolds
<1>3. PICK q : q = FoldLeft(Released, mq, w)
  OBVIOUS
<1>4. mq' = [q EXCEPT !.head = None, !.tail = None, !.entry = 0]
      /\ UNCHANGED <<got, hand>> /\ Goto(t, "post")
  <2>1. Chain(mq, mq.head) = w
    BY <1>2, MqMeaning DEF MqHolds
  <2>. QED BY <1>3, <2>1 DEF MqReset
<1>5. PICK g : BlocksIn(q, InHand, <<>>, g) /\ q.data = mq.data
  BY <1>2, <1>3, AllReleased
<1>6. /\ mq' \in MqState /\ mq'.next = q.next /\ mq'.free = q.free /\ mq'.data = q.data
      /\ mq'.head = None /\ mq'.tail = None /\ mq'.entry = 0
  <2>1. q \in MqState
    BY <1>5 DEF BlocksIn
  <2>. QED BY <1>4, <2>1 DEF MqState
<1>7. BlocksIn(mq', InHand, <<>>, g) /\ QueueOf(mq', <<>>)
  <2>1. BlocksIn(mq', InHand, <<>>, g)
    BY <1>5, <1>6, SameBlocks
  <2>. QED BY <1>6, <2>1 DEF QueueOf, First, Final
<1>8. OnlyBy(t) /\ pc'[t] = "post"
  <2>1. "post" \in AllLabels
    BY DEF AllLabels
  <2>. QED BY <1>1, <1>4, <2>1 DEF OnlyBy, Goto, GotPart
<1>9. HandsFit' /\ InHand' = InHand
  BY <1>1, <1>4, <1>8, HandsStay DEF MqPart, OnlyBy, InCopy
<1>10. GotPart'
  BY <1>4, <1>8, GotOnly DEF InReturn
<1>11. MqHolds(<<>>, g)' /\ MqContents' = <<>>
  <2>1. MqHolds(<<>>, g)' /\ MqContents' = Values(mq'.data, <<>>)
    BY <1>7, <1>9, MqContentsAre
  <2>. QED BY <2>1 DEF Values
<1>12. HandsFull'
  BY <1>4, <1>5, <1>6, <1>8 DEF MqPart, HandsFull, OnlyBy
<1>13. MqTaken' = MqTaken
  <2>0. mq'.data = mq.data /\ hand' = hand
    BY <1>4, <1>5, <1>6
  <2>1. \A u \in Thread \ {t} : MqTaken'[u] = MqTaken[u]
    BY <1>8, <2>0, MqTakenOthers DEF OnlyBy
  <2>2. MqTaken[t] = None /\ MqTaken'[t] = None
    BY <1>1, <1>4, <1>8 DEF MqTaken, Taken
  <2>3. MqTaken' = [MqTaken EXCEPT ![t] = MqTaken'[t]]
    BY <1>1, <2>1, MqTakenBy
  <2>. QED BY <1>1, <2>2, <2>3 DEF MqTaken
<1>14. CASE MqContents = <<>>
  BY <1>9, <1>10, <1>11, <1>12, <1>13, <1>14 DEF MqPart, MqStep
<1>15. CASE MqContents # <<>>
  <2>1. MqQueue!Clear
    BY <1>11, <1>13, <1>15 DEF MqQueue!Clear
  <2>. QED BY <1>9, <1>10, <1>11, <1>12, <2>1 DEF MqPart, MqStep, MqQueue!Next
<1>. QED BY <1>14, <1>15

LEMMA MqKeepsQueue ==
  ASSUME Core, Core', MqPart, GotPart, MqNext
  PROVE  MqPart' /\ GotPart' /\ MqStep
<1>1. pc' \in [Thread -> AllLabels] /\ "mq" \notin {}
  BY DEF Core, PlacePart
<1>2. ASSUME mq' = mq, hand' = hand, Apart({}) PROVE MqPart' /\ GotPart' /\ MqStep
  BY <1>1, <1>2, MqStays, ApartGot
<1>3. ASSUME NEW t \in Running, NEW c, MqRecvWait(t, c) PROVE MqPart' /\ GotPart' /\ MqStep
  <2>1. Apart({})
    BY <1>3, AtTest, BlockApart DEF MqRecvWait, WaitOn
  <2>. QED BY <1>2, <1>3, <2>1 DEF MqRecvWait
<1>4. ASSUME NEW t \in Running, NEW c, MqRecvRefused(t, c) \/ MqFail(t)
      PROVE  MqPart' /\ GotPart' /\ MqStep
  <2>1. Apart({})
    BY <1>4, AtTest, EndsApart DEF MqRecvRefused, MqFail
  <2>. QED BY <1>2, <1>4, <2>1 DEF MqRecvRefused, MqFail
<1>5. ASSUME NEW t \in Running, MqDetach(t) PROVE MqPart' /\ GotPart' /\ MqStep
  <2>1. Apart({})
    BY <1>5, DetachApart DEF MqDetach
  <2>. QED BY <1>2, <1>5, <2>1 DEF MqDetach
<1>. QED BY <1>3, <1>4, <1>5, MqSendStays, MqRecvGets, MqLinkPuts, MqIsrSendPuts, MqCopyStays,
            MqResetClears DEF MqNext

-----------------------------------------------------------------------------
(***************************************************************************)
(* What the calls on a mailbox or a data queue have taken.                 *)
(***************************************************************************)

\* The end of a call that tests its object
LEMMA FinishTaken ==
  ASSUME Core, GotPart, NEW t \in Running, pc[t] \notin InCopy \cup InReturn,
         NEW woke, NEW v, Finish(t, woke, v), NEW o
  PROVE  /\ t \in Thread /\ Taken(o)[t] = None
         /\ Taken(o)' = [Taken(o) EXCEPT ![t] = IF v # None /\ v.from = o THEN v.value ELSE None]
<1>1. t \in Thread /\ DOMAIN got = Thread /\ got[t] = None /\ got' = [got EXCEPT ![t] = v]
  BY PlaceTypes DEF GotPart, InReturn, Finish
<1>2. got'[t] = v /\ \A u \in Thread \ {t} : got'[u] = got[u]
  BY <1>1
<1>. QED BY <1>1, <1>2 DEF Taken

LEMMA NothingTaken ==
  ASSUME NEW t, NEW o, Taken(o)[t] = None, Taken(o)' = [Taken(o) EXCEPT ![t] = None]
  PROVE  Taken(o)' = Taken(o)
BY DEF Taken

\* At most one call has a value to return, one of the objects F, or returns
Gives(F) ==
  \/ got' = got
  \/ \E t \in Thread : /\ \A u \in Thread \ {t} : got'[u] = got[u]
                       /\ got'[t] = None \/ got'[t].from \in F

LEMMA ApartGives ==
  ASSUME NEW F, Apart(F)
  PROVE  Gives(F)
BY DEF Apart, Outside, Gives

LEMMA FinishGives ==
  ASSUME NEW F, GotPart, NEW t \in Thread, NEW woke, NEW v, Finish(t, woke, v), v = None \/ v.from \in F
  PROVE  Gives(F)
<1>1. got'[t] = v /\ \A u \in Thread \ {t} : got'[u] = got[u]
  BY DEF Finish, GotPart
<1>. QED BY <1>1 DEF Gives

LEMMA MqGives ==
  ASSUME Core, GotPart, MqNext
  PROVE  Gives({"mq"})
<1>1. ASSUME NEW t \in Running, NEW c, MqSend(t, c) \/ MqRecv(t, c) \/ MqRecvWait(t, c) \/ MqRecvRefused(t, c)
      PROVE  got' = got
  BY <1>1 DEF MqSend, MqRecv, MqRecvWait, MqRecvRefused, WaitOn, Block, Refuse
<1>2. ASSUME NEW t \in Running, MqLink(t) \/ MqCopy(t) PROVE Gives({"mq"})
  <2>1. t \in Thread
    BY PlaceTypes
  <2>2. PICK woke, v : Finish(t, woke, v) /\ (v = None \/ v = [from |-> "mq", value |-> mq.data[hand[t]]])
    BY <1>2 DEF MqLink, MqCopy
  <2>. QED BY <2>1, <2>2, FinishGives
<1>3. ASSUME NEW t \in Running, MqFail(t) \/ MqReset(t) \/ MqDetach(t) PROVE got' = got
  BY <1>3 DEF MqFail, Fail, MqReset, MqDetach, Detach
<1>4. ASSUME NEW v, MqIsrSend(v) PROVE got' = got
  BY <1>4 DEF MqIsrSend
<1>. QED BY <1>1, <1>2, <1>3, <1>4 DEF MqNext, Gives

\* A step of another object lets a call return at most
LEMMA TakenStays ==
  ASSUME NEW F, NEW o, o \notin F, Gives(F)
  PROVE  \/ Taken(o)' = Taken(o)
         \/ \E t \in Thread : Taken(o)[t] # None /\ Taken(o)' = [Taken(o) EXCEPT ![t] = None]
<1>1. CASE got' = got
  BY <1>1 DEF Taken
<1>2. ASSUME NEW t \in Thread, \A u \in Thread \ {t} : got'[u] = got[u], got'[t] = None \/ got'[t].from \in F
      PROVE  \/ Taken(o)' = Taken(o)
             \/ Taken(o)[t] # None /\ Taken(o)' = [Taken(o) EXCEPT ![t] = None]
  <2>1. Taken(o)' = [Taken(o) EXCEPT ![t] = None]
    BY <1>2 DEF Taken
  <2>. QED BY <2>1, NothingTaken
<1>. QED BY <1>1, <1>2 DEF Gives

-----------------------------------------------------------------------------
(***************************************************************************)
(* The mailbox.                                                            *)
(***************************************************************************)
MbState ==
  [pool : [0..(MbSize - 1) -> Mail \cup {None}], in : 0..(MbSize - 1), out : 0..(MbSize - 1),
   entry : 0..MbSize]

\* Mailbox r holds the words w
MbIs(r, w) ==
  /\ r \in MbState /\ InRing(Mail, MbSize, r.pool, r.out, w)
  /\ r.entry = Len(w) /\ r.in = Nth(MbSize, r.out, Len(w) + 1)

MbPart == \E w : MbIs(mb, w)

MbWords(r) == [i \in 1..r.entry |-> r.pool[(r.out + i - 1) % MbSize]]

MbStep == [MbQueue!Next]_<<MbContents, Taken("mb")>>

LEMMA MbReads ==
  ASSUME NEW r, NEW w, MbIs(r, w)
  PROVE  MbWords(r) = w
BY RingReads DEF MbIs, MbWords

LEMMA MbSizes == MbSize \in Nat \ {0} /\ 0 \in 0..(MbSize - 1) /\ 0 \in 0..MbSize
<1>1. MbSize \in Nat \ {0}
  BY MailboxAssumption
<1>. QED BY <1>1

LEMMA MbOffsets ==
  ASSUME NEW i \in 0..(MbSize - 1)
  PROVE  Advance(i) = IF i + 1 = MbSize THEN 0 ELSE i + 1
BY MbSizes DEF Advance

LEMMA MbPuts ==
  ASSUME NEW r, NEW w, MbIs(r, w), r.entry # MbSize, NEW v \in Mail,
         NEW x, x = [r EXCEPT !.pool[r.in] = v, !.in = Advance(@), !.entry = @ + 1]
  PROVE  MbIs(x, Append(w, v)) /\ Len(w) < MbSize
<1>1. /\ r \in MbState /\ InRing(Mail, MbSize, r.pool, r.out, w)
      /\ r.entry = Len(w) /\ r.in = Nth(MbSize, r.out, Len(w) + 1)
  BY DEF MbIs
<1>2. /\ MbSize \in Nat \ {0} /\ w \in Seq(Mail) /\ Len(w) \in Nat /\ Len(w) < MbSize
      /\ r.out \in 0..(MbSize - 1) /\ r.in \in 0..(MbSize - 1)
  BY <1>1, MbSizes DEF InRing, MbState
<1>3. PICK g : g = [r.pool EXCEPT ![r.in] = v]
  OBVIOUS
<1>4. PICK y : y = Append(w, v)
  OBVIOUS
<1>5. InRing(Mail, MbSize, g, r.out, y)
  <2>1. PICK p, o, i : p = r.pool /\ o = r.out /\ i = r.in
    OBVIOUS
  <2>2. InRing(Mail, MbSize, [p EXCEPT ![i] = v], o, Append(w, v))
    BY <1>1, <1>2, <2>1, RingPut
  <2>. QED BY <1>3, <1>4, <2>1, <2>2
<1>6. y \in Seq(Mail) /\ Len(y) = Len(w) + 1 /\ g \in [0..(MbSize - 1) -> Mail \cup {None}]
  BY <1>2, <1>4, <1>5 DEF InRing
<1>7. Advance(r.in) = Nth(MbSize, r.out, Len(y) + 1) /\ Advance(r.in) \in 0..(MbSize - 1)
  <2>1. PICK i : i = Len(w) + 1
    OBVIOUS
  <2>2. i \in 1..MbSize
    BY <1>2, <2>1
  <2>3. Nth(MbSize, r.out, i + 1) = IF r.in + 1 = MbSize THEN 0 ELSE r.in + 1
    BY <1>1, <1>2, <2>1, <2>2, NthNext
  <2>. QED BY <1>2, <1>6, <2>1, <2>3, MbOffsets
<1>8. /\ x \in MbState /\ x.pool = g /\ x.in = Advance(r.in) /\ x.out = r.out /\ x.entry = r.entry + 1
  <2>1. PICK a \in 0..(MbSize - 1) : a = Advance(r.in)
    BY <1>7
  <2>2. PICK e \in 0..MbSize : e = r.entry + 1
    BY <1>1, <1>2
  <2>3. x = [r EXCEPT !.pool = g, !.in = a, !.entry = e]
    BY <1>1, <1>3, <2>1, <2>2 DEF MbState
  <2>. QED BY <1>1, <1>6, <2>1, <2>2, <2>3 DEF MbState
<1>9. MbIs(x, y)
  BY <1>1, <1>5, <1>6, <1>7, <1>8 DEF MbIs
<1>. QED BY <1>2, <1>4, <1>9

LEMMA MbGets ==
  ASSUME NEW r, NEW w, MbIs(r, w), r.entry # 0,
         NEW x, x = [r EXCEPT !.out = Advance(@), !.entry = @ - 1]
  PROVE  MbIs(x, Tail(w)) /\ w # <<>> /\ Head(w) = r.pool[r.out] /\ Head(w) \in Mail
<1>1. /\ r \in MbState /\ InRing(Mail, MbSize, r.pool, r.out, w)
      /\ r.entry = Len(w) /\ r.in = Nth(MbSize, r.out, Len(w) + 1)
  BY DEF MbIs
<1>2. /\ MbSize \in Nat \ {0} /\ w \in Seq(Mail) /\ Len(w) \in 1..MbSize /\ w # <<>>
      /\ r.out \in 0..(MbSize - 1) /\ r.in \in 0..(MbSize - 1)
  BY <1>1, MbSizes, EmptySeq DEF InRing, MbState
<1>3. PICK p, o, y : p = r.pool /\ o = r.out /\ y = Tail(w)
  OBVIOUS
<1>4. /\ InRing(Mail, MbSize, p, Nth(MbSize, o, 2), y) /\ Len(y) = Len(w) - 1
      /\ Head(w) = p[o] /\ Head(w) \in Mail
  BY <1>1, <1>2, <1>3, RingGet
<1>5. PICK z : z = Nth(MbSize, o, 2)
  OBVIOUS
<1>6. z = Advance(o) /\ z \in 0..(MbSize - 1) /\ Nth(MbSize, z, Len(w)) = Nth(MbSize, o, Len(w) + 1)
  <2>1. Nth(MbSize, o, 2) = IF o + 1 = MbSize THEN 0 ELSE o + 1
    BY <1>2, <1>3, NthSecond
  <2>2. Nth(MbSize, Nth(MbSize, o, 2), Len(w)) = Nth(MbSize, o, Len(w) + 1)
    BY <1>2, <1>3, NthSecond
  <2>. QED BY <1>2, <1>3, <1>5, <2>1, <2>2, MbOffsets
<1>7. /\ x \in MbState /\ x.pool = p /\ x.in = r.in /\ x.out = z /\ x.entry = r.entry - 1
  <2>1. PICK e \in 0..MbSize : e = r.entry - 1
    BY <1>1, <1>2
  <2>2. x = [r EXCEPT !.out = z, !.entry = e]
    BY <1>1, <1>3, <1>6, <2>1 DEF MbState
  <2>. QED BY <1>1, <1>3, <1>6, <2>1, <2>2 DEF MbState
<1>8. Len(y) + 1 = Len(w)
  BY <1>2, <1>4
<1>9. MbIs(x, y)
  BY <1>1, <1>3, <1>4, <1>5, <1>6, <1>7, <1>8 DEF MbIs
<1>. QED BY <1>2, <1>3, <1>4, <1>9

LEMMA MbClears ==
  ASSUME NEW r, r.pool \in [0..(MbSize - 1) -> Mail \cup {None}], r.in = 0, r.out = 0, r.entry = 0,
         r \in MbState
  PROVE  MbIs(r, <<>>)
<1>1. MbSize \in Nat \ {0} /\ 0 \in 0..(MbSize - 1)
  BY MbSizes
<1>2. InRing(Mail, MbSize, r.pool, 0, <<>>)
  BY <1>1, RingEmpty
<1>3. Nth(MbSize, 0, 1) = 0 /\ Len(<<>>) = 0
  BY <1>1 DEF Nth
<1>. QED BY <1>2, <1>3 DEF MbIs

\* From what the mailbox held to what it holds
LEMMA MbNow ==
  ASSUME NEW w, MbIs(mb, w), NEW y, MbIs(mb', y)
  PROVE  MbPart' /\ MbContents = w /\ MbContents' = y
<1>1. MbContents = MbWords(mb) /\ MbContents' = MbWords(mb')
  BY DEF MbContents, MbWords
<1>. QED BY <1>1, MbReads DEF MbPart

LEMMA MbStays ==
  ASSUME MbPart, mb' = mb, NEW F, "mb" \notin F, Gives(F)
  PROVE  MbPart' /\ MbStep
<1>1. MbPart' /\ MbContents' = MbContents
  BY DEF MbPart, MbContents
<1>2. ASSUME NEW t \in Thread, Taken("mb")[t] # None, Taken("mb")' = [Taken("mb") EXCEPT ![t] = None]
      PROVE  MbQueue!Deliver(t)
  BY <1>1, <1>2 DEF MbQueue!Deliver
<1>3. (\E t \in Thread : MbQueue!Deliver(t)) \/ Taken("mb")' = Taken("mb")
  BY <1>2, TakenStays
<1>. QED BY <1>1, <1>3 DEF MbStep, MbQueue!Next

\* A word stored, whoever stores it
LEMMA MbStores ==
  ASSUME MbPart, NEW v \in Mail, mb.entry # MbSize, mb' = Stored(v), Taken("mb")' = Taken("mb")
  PROVE  MbPart' /\ MbStep
<1>1. PICK w : MbIs(mb, w)
  BY DEF MbPart
<1>2. PICK x : x = mb'
  OBVIOUS
<1>3. x = [mb EXCEPT !.pool[mb.in] = v, !.in = Advance(@), !.entry = @ + 1]
  BY <1>2 DEF Stored
<1>4. MbIs(x, Append(w, v)) /\ Len(w) < MbSize
  BY <1>1, <1>3, MbPuts
<1>5. PICK y : y = Append(w, v)
  OBVIOUS
<1>6. MbPart' /\ MbContents = w /\ MbContents' = y
  BY <1>1, <1>2, <1>4, <1>5, MbNow
<1>7. MbQueue!Put(v)
  BY <1>4, <1>5, <1>6 DEF MbQueue!Put
<1>. QED BY <1>6, <1>7 DEF MbStep, MbQueue!Next

LEMMA MbSendPuts ==
  ASSUME Core, MbPart, GotPart, NEW t \in Running, NEW c, c.arg \in Mail, MbSend(t, c)
  PROVE  MbPart' /\ MbStep
<1>1. pc[t] \notin InCopy \cup InReturn
  BY AtTest DEF MbSend
<1>2. PICK woke : Finish(t, woke, None)
  BY DEF MbSend
<1>3. /\ Taken("mb")[t] = None
      /\ Taken("mb")' = [Taken("mb") EXCEPT ![t] = IF None # None /\ None.from = "mb" THEN None.value ELSE None]
  BY <1>1, <1>2, FinishTaken
<1>4. Taken("mb")' = Taken("mb")
  BY <1>3, NothingTaken
<1>. QED BY <1>4, MbStores DEF MbSend

LEMMA MbRecvGets ==
  ASSUME Core, MbPart, GotPart, NEW t \in Running, NEW c, MbRecv(t, c)
  PROVE  MbPart' /\ MbStep
<1>1. pc[t] \notin InCopy \cup InReturn
  BY AtTest DEF MbRecv
<1>2. PICK v : v = [from |-> "mb", value |-> mb.pool[mb.out]]
  OBVIOUS
<1>3. PICK woke : Finish(t, woke, v)
  BY <1>2 DEF MbRecv
<1>4. PICK w : MbIs(mb, w)
  BY DEF MbPart
<1>5. PICK x, y : x = mb' /\ y = Tail(w)
  OBVIOUS
<1>6. MbIs(x, y) /\ w # <<>> /\ Head(w) = mb.pool[mb.out] /\ Head(w) \in Mail
  <2>1. x = [mb EXCEPT !.out = Advance(@), !.entry = @ - 1] /\ mb.entry # 0
    BY <1>5 DEF MbRecv
  <2>2. MbIs(x, Tail(w)) /\ w # <<>> /\ Head(w) = mb.pool[mb.out] /\ Head(w) \in Mail
    BY <1>4, <2>1, MbGets
  <2>. QED BY <1>5, <2>2
<1>7. v # None /\ v.from = "mb" /\ v.value = Head(w)
  <2>1. v \in [from : {"mb"}, value : Mail]
    BY <1>2, <1>6
  <2>. QED BY <1>2, <1>6, <2>1, MailboxAssumption
<1>8. t \in Thread /\ Taken("mb")[t] = None /\ Taken("mb")' = [Taken("mb") EXCEPT ![t] = Head(w)]
  <2>1. /\ t \in Thread /\ Taken("mb")[t] = None
        /\ Taken("mb")' = [Taken("mb") EXCEPT ![t] = IF v # None /\ v.from = "mb" THEN v.value ELSE None]
    BY <1>1, <1>3, FinishTaken
  <2>. QED BY <1>7, <2>1
<1>9. MbPart' /\ MbContents = w /\ MbContents' = y
  BY <1>4, <1>5, <1>6, MbNow
<1>10. MbQueue!Get(t)
  BY <1>5, <1>6, <1>8, <1>9 DEF MbQueue!Get
<1>. QED BY <1>8, <1>9, <1>10 DEF MbStep, MbQueue!Next

LEMMA MbResetClears ==
  ASSUME MbPart, NEW t, MbReset(t)
  PROVE  MbPart' /\ MbStep
<1>1. PICK w : MbIs(mb, w)
  BY DEF MbPart
<1>2. Taken("mb")' = Taken("mb")
  BY DEF MbReset, Taken
<1>3. PICK x : x = mb'
  OBVIOUS
<1>4. x \in MbState /\ x.in = 0 /\ x.out = 0 /\ x.entry = 0
  <2>1. mb \in MbState /\ 0 \in 0..(MbSize - 1) /\ 0 \in 0..MbSize
    BY <1>1, MbSizes DEF MbIs
  <2>. QED BY <1>3, <2>1 DEF MbReset, MbState
<1>5. MbIs(x, <<>>)
  BY <1>4, MbClears DEF MbState
<1>6. MbPart' /\ MbContents = w /\ MbContents' = <<>>
  BY <1>1, <1>3, <1>5, MbNow
<1>7. MbQueue!Clear \/ w = <<>>
  BY <1>2, <1>6 DEF MbQueue!Clear
<1>. QED BY <1>2, <1>6, <1>7 DEF MbStep, MbQueue!Next

LEMMA MbKeepsQueue ==
  ASSUME Core, MbPart, GotPart, MbNext
  PROVE  MbPart' /\ MbStep
<1>1. ASSUME mb' = mb, Apart({}) PROVE MbPart' /\ MbStep
  BY <1>1, ApartGives, MbStays
<1>2. ASSUME NEW t \in Running, NEW c, MbSendWait(t, c) \/ MbRecvWait(t, c) PROVE MbPart' /\ MbStep
  <2>1. Apart({})
    BY <1>2, AtTest, BlockApart DEF MbSendWait, MbRecvWait, WaitOn
  <2>. QED BY <1>1, <1>2, <2>1 DEF MbSendWait, MbRecvWait
<1>3. ASSUME NEW t \in Running, NEW c, MbSendRefused(t, c) \/ MbRecvRefused(t, c) \/ MbFail(t)
      PROVE  MbPart' /\ MbStep
  <2>1. Apart({})
    BY <1>3, AtTest, EndsApart DEF MbSendRefused, MbRecvRefused, MbFail
  <2>. QED BY <1>1, <1>3, <2>1 DEF MbSendRefused, MbRecvRefused, MbFail
<1>4. ASSUME NEW t \in Running, MbDetach(t) PROVE MbPart' /\ MbStep
  <2>1. Apart({})
    BY <1>4, DetachApart DEF MbDetach
  <2>. QED BY <1>1, <1>4, <2>1 DEF MbDetach
<1>5. ASSUME NEW t \in Running, NEW c \in SendMail, MbSend(t, c) PROVE MbPart' /\ MbStep
  <2>1. c.arg \in Mail
    BY DEF SendMail, Calls
  <2>. QED BY <1>5, <2>1, MbSendPuts
<1>6. ASSUME NEW v \in Mail, MbIsrSend(v) PROVE MbPart' /\ MbStep
  <2>1. Taken("mb")' = Taken("mb")
    BY <1>6 DEF MbIsrSend, Taken
  <2>. QED BY <1>6, <2>1, MbStores DEF MbIsrSend
<1>. QED BY <1>2, <1>3, <1>4, <1>5, <1>6, MbRecvGets, MbResetClears DEF MbNext

-----------------------------------------------------------------------------
(***************************************************************************)
(* The data queue.                                                         *)
(***************************************************************************)
DqState == [put : Nat, get : Nat, ring : [0..(DqSize - 1) -> Datum \cup {None}]]

\* Queue r holds the data w
DqIs(r, w) ==
  /\ r \in DqState /\ r.put \in 0..MaxPush /\ r.put = r.get + Len(w)
  /\ InRing(Datum, DqSize, r.ring, r.get % DqSize, w)

DqPart == \E w : DqIs(dq, w)

DqData(r) == [i \in 1..(r.put - r.get) |-> r.ring[(r.get + i - 1) % DqSize]]

DqStep == [DqQueue!Next]_<<DqContents, Taken("dq")>>

LEMMA DqSizes == DqSize \in Nat \ {0} /\ IndexRange \in Nat /\ MaxPush \in Nat /\ MaxPush < IndexRange
<1>1. DqSize \in Nat \ {0} /\ IndexRange \in Nat /\ MaxPush \in 0..(IndexRange - 1)
  BY DataQueueAssumption
<1>. QED BY <1>1

\* The indices do not wrap below MaxPush
LEMMA DqIndex ==
  ASSUME NEW x \in Nat, x < MaxPush
  PROVE  (x + 1) % IndexRange = x + 1
<1>1. IndexRange \in Nat \ {0} /\ x + 1 \in 0..(IndexRange - 1)
  BY DqSizes
<1>2. \A n \in Nat \ {0} : \A z \in 0..(n - 1) : z % n = z
  OBVIOUS
<1>. QED BY <1>1, <1>2

LEMMA DqFacts ==
  ASSUME NEW r, NEW w, DqIs(r, w)
  PROVE  /\ r \in DqState /\ r.put \in 0..MaxPush /\ r.get \in 0..r.put /\ r.put = r.get + Len(w)
         /\ w \in Seq(Datum) /\ Len(w) \in Nat /\ Len(w) <= DqSize
         /\ InRing(Datum, DqSize, r.ring, r.get % DqSize, w)
<1>1. /\ r \in DqState /\ r.put \in 0..MaxPush /\ r.put = r.get + Len(w)
      /\ InRing(Datum, DqSize, r.ring, r.get % DqSize, w)
  BY DEF DqIs
<1>2. w \in Seq(Datum) /\ Len(w) \in Nat /\ Len(w) <= DqSize /\ r.get \in Nat
  BY <1>1 DEF InRing, DqState
<1>. QED BY <1>1, <1>2, DqSizes

LEMMA DqReads ==
  ASSUME NEW r, NEW w, DqIs(r, w)
  PROVE  DqData(r) = w
<1>1. /\ r \in DqState /\ r.get \in Nat /\ r.put - r.get = Len(w)
      /\ w \in Seq(Datum) /\ Len(w) \in Nat /\ Len(w) <= DqSize
      /\ InRing(Datum, DqSize, r.ring, r.get % DqSize, w)
  BY DqFacts, DqSizes
<1>2. ASSUME NEW i \in 1..Len(w) PROVE r.ring[(r.get + i - 1) % DqSize] = w[i]
  <2>1. i \in 1..(DqSize + 1)
    BY <1>1, DqSizes
  <2>2. (r.get + i - 1) % DqSize = Nth(DqSize, r.get % DqSize, i)
    BY <1>1, <2>1, DqSizes, NthGrows
  <2>. QED BY <1>1, <2>2 DEF InRing
<1>3. w = [i \in 1..Len(w) |-> w[i]]
  BY <1>1
<1>. QED BY <1>1, <1>2, <1>3 DEF DqData

LEMMA DqPuts ==
  ASSUME NEW r, NEW w, DqIs(r, w), r.put - r.get # DqSize, r.put < MaxPush, NEW v \in Datum,
         NEW x, x = [r EXCEPT !.ring[r.put % DqSize] = v, !.put = (@ + 1) % IndexRange]
  PROVE  DqIs(x, Append(w, v)) /\ Len(w) < DqSize
<1>1. /\ r \in DqState /\ r.put \in 0..MaxPush /\ r.get \in Nat /\ r.put \in Nat
      /\ r.put = r.get + Len(w)
      /\ w \in Seq(Datum) /\ Len(w) \in Nat /\ Len(w) < DqSize
      /\ InRing(Datum, DqSize, r.ring, r.get % DqSize, w)
  BY DqFacts, DqSizes
<1>2. r.put % DqSize = Nth(DqSize, r.get % DqSize, Len(w) + 1)
  <2>1. PICK i \in 1..(DqSize + 1) : i = Len(w) + 1
    BY <1>1, DqSizes
  <2>2. (r.get + i - 1) % DqSize = Nth(DqSize, r.get % DqSize, i)
    BY <1>1, DqSizes, NthGrows
  <2>3. r.get + i - 1 = r.put
    BY <1>1, <2>1
  <2>. QED BY <2>1, <2>2, <2>3
<1>3. PICK p, o, z, y : p = r.ring /\ o = r.get % DqSize /\ z = r.put % DqSize /\ y = Append(w, v)
  OBVIOUS
<1>4. PICK g : g = [p EXCEPT ![z] = v]
  OBVIOUS
<1>5. InRing(Datum, DqSize, g, o, y)
  <2>1. InRing(Datum, DqSize, [p EXCEPT ![z] = v], o, Append(w, v))
    BY <1>1, <1>2, <1>3, RingPut
  <2>. QED BY <1>3, <1>4, <2>1
<1>6. g \in [0..(DqSize - 1) -> Datum \cup {None}] /\ Len(y) = Len(w) + 1
  BY <1>1, <1>3, <1>5 DEF InRing
<1>7. PICK e \in 0..MaxPush : e = r.put + 1
  BY <1>1, DqSizes
<1>8. x = [r EXCEPT !.ring = g, !.put = e]
  <2>1. (r.put + 1) % IndexRange = e
    BY <1>1, <1>7, DqIndex
  <2>. QED BY <1>1, <1>3, <1>4, <2>1 DEF DqState
<1>9. x \in DqState /\ x.ring = g /\ x.put = e /\ x.get = r.get
  <2>1. e \in Nat
    BY <1>1, <1>7
  <2>. QED BY <1>1, <1>6, <1>8, <2>1 DEF DqState
<1>10. DqIs(x, y)
  <2>0. /\ Len(y) = Len(w) + 1 /\ r.put = r.get + Len(w) /\ r.get \in Nat /\ Len(w) \in Nat
        /\ e = r.put + 1
    BY <1>1, <1>6, <1>7
  <2>1. e = r.get + Len(y)
    BY <2>0
  <2>. QED BY <1>3, <1>5, <1>7, <1>9, <2>1 DEF DqIs
<1>. QED BY <1>1, <1>3, <1>10

LEMMA DqGets ==
  ASSUME NEW r, NEW w, DqIs(r, w), r.get # r.put,
         NEW x, x = [r EXCEPT !.get = (@ + 1) % IndexRange]
  PROVE  DqIs(x, Tail(w)) /\ w # <<>> /\ Head(w) = r.ring[r.get % DqSize] /\ Head(w) \in Datum
<1>1. /\ r \in DqState /\ r.put \in 0..MaxPush /\ r.get \in Nat /\ r.put = r.get + Len(w)
      /\ w \in Seq(Datum) /\ Len(w) \in Nat /\ InRing(Datum, DqSize, r.ring, r.get % DqSize, w)
      /\ r.get < MaxPush
  BY DqFacts, DqSizes
<1>2. w # <<>>
  BY <1>1
<1>3. PICK p, o, y : p = r.ring /\ o = r.get % DqSize /\ y = Tail(w)
  OBVIOUS
<1>4. /\ InRing(Datum, DqSize, p, Nth(DqSize, o, 2), y) /\ Len(y) = Len(w) - 1
      /\ Head(w) = p[o] /\ Head(w) \in Datum
  <2>1. InRing(Datum, DqSize, p, o, w)
    BY <1>1, <1>3
  <2>. QED BY <1>2, <1>3, <2>1, RingGet
<1>5. PICK e \in Nat : e = r.get + 1
  BY <1>1
<1>6. x = [r EXCEPT !.get = e]
  BY <1>1, <1>5, DqIndex
<1>7. e % DqSize = Nth(DqSize, o, 2)
  <2>1. 2 \in 1..(DqSize + 1)
    BY DqSizes
  <2>2. (r.get + 2 - 1) % DqSize = Nth(DqSize, r.get % DqSize, 2)
    BY <1>1, <2>1, DqSizes, NthGrows
  <2>3. r.get + 2 - 1 = e
    BY <1>1, <1>5
  <2>. QED BY <1>3, <2>2, <2>3
<1>8. x \in DqState /\ x.ring = p /\ x.put = r.put /\ x.get = e
  BY <1>1, <1>3, <1>6 DEF DqState
<1>9. r.put = e + Len(y)
  BY <1>1, <1>4, <1>5
<1>10. DqIs(x, y)
  BY <1>1, <1>4, <1>7, <1>8, <1>9 DEF DqIs
<1>. QED BY <1>2, <1>3, <1>4, <1>10

LEMMA DqNow ==
  ASSUME NEW w, DqIs(dq, w), NEW y, DqIs(dq', y)
  PROVE  DqPart' /\ DqContents = w /\ DqContents' = y
<1>1. DqContents = DqData(dq) /\ DqContents' = DqData(dq')
  BY DEF DqContents, DqData, Filled
<1>. QED BY <1>1, DqReads DEF DqPart

LEMMA DqStays ==
  ASSUME DqPart, dq' = dq, NEW F, "dq" \notin F, Gives(F)
  PROVE  DqPart' /\ DqStep
<1>1. DqPart' /\ DqContents' = DqContents
  BY DEF DqPart, DqContents, Filled
<1>2. ASSUME NEW t \in Thread, Taken("dq")[t] # None, Taken("dq")' = [Taken("dq") EXCEPT ![t] = None]
      PROVE  DqQueue!Deliver(t)
  BY <1>1, <1>2 DEF DqQueue!Deliver
<1>3. (\E t \in Thread : DqQueue!Deliver(t)) \/ Taken("dq")' = Taken("dq")
  BY <1>2, TakenStays
<1>. QED BY <1>1, <1>3 DEF DqStep, DqQueue!Next

\* A datum stored, whoever stores it
LEMMA DqStores ==
  ASSUME DqPart, NEW v \in Datum, Filled # DqSize, dq.put < MaxPush,
         dq' = [dq EXCEPT !.ring[dq.put % DqSize] = v, !.put = (@ + 1) % IndexRange],
         Taken("dq")' = Taken("dq")
  PROVE  DqPart' /\ DqStep
<1>1. PICK w : DqIs(dq, w)
  BY DEF DqPart
<1>2. PICK x, y : x = dq' /\ y = Append(w, v)
  OBVIOUS
<1>3. x = [dq EXCEPT !.ring[dq.put % DqSize] = v, !.put = (@ + 1) % IndexRange]
      /\ dq.put - dq.get # DqSize
  BY <1>2 DEF Filled
<1>4. DqIs(x, Append(w, v)) /\ Len(w) < DqSize
  BY <1>1, <1>3, DqPuts
<1>5. DqPart' /\ DqContents = w /\ DqContents' = y
  BY <1>1, <1>2, <1>4, DqNow
<1>6. DqQueue!Put(v)
  BY <1>2, <1>4, <1>5 DEF DqQueue!Put
<1>. QED BY <1>5, <1>6 DEF DqStep, DqQueue!Next

LEMMA DqPushPuts ==
  ASSUME Core, DqPart, GotPart, NEW t \in Running, NEW c, c.arg \in Datum, DqPush(t, c)
  PROVE  DqPart' /\ DqStep
<1>1. pc[t] \notin InCopy \cup InReturn
  BY AtTest DEF DqPush
<1>2. PICK woke : Finish(t, woke, None)
  BY DEF DqPush
<1>3. /\ Taken("dq")[t] = None
      /\ Taken("dq")' = [Taken("dq") EXCEPT ![t] = IF None # None /\ None.from = "dq" THEN None.value ELSE None]
  BY <1>1, <1>2, FinishTaken
<1>4. Taken("dq")' = Taken("dq")
  BY <1>3, NothingTaken
<1>. QED BY <1>4, DqStores DEF DqPush

LEMMA DqTakes ==
  ASSUME DqPart, dq.get # dq.put, dq' = [dq EXCEPT !.get = (@ + 1) % IndexRange]
  PROVE  /\ DqPart' /\ DqContents # <<>> /\ DqContents' = Tail(DqContents)
         /\ Head(DqContents) = dq.ring[dq.get % DqSize] /\ Head(DqContents) \in Datum
<1>1. PICK w : DqIs(dq, w)
  BY DEF DqPart
<1>2. PICK x : x = dq'
  OBVIOUS
<1>3. /\ DqIs(x, Tail(w)) /\ w # <<>> /\ Head(w) = dq.ring[dq.get % DqSize] /\ Head(w) \in Datum
  BY <1>1, <1>2, DqGets
<1>4. DqPart' /\ DqContents = w /\ DqContents' = Tail(w)
  BY <1>1, <1>2, <1>3, DqNow
<1>. QED BY <1>3, <1>4

LEMMA DqPopGets ==
  ASSUME Core, DqPart, GotPart, NEW t \in Running, NEW c, DqPop(t, c)
  PROVE  DqPart' /\ DqStep
<1>1. pc[t] \notin InCopy \cup InReturn
  BY AtTest DEF DqPop
<1>2. PICK v : v = [from |-> "dq", value |-> dq.ring[dq.get % DqSize]]
  OBVIOUS
<1>3. PICK woke : Finish(t, woke, v)
  BY <1>2 DEF DqPop
<1>4. /\ DqPart' /\ DqContents # <<>> /\ DqContents' = Tail(DqContents)
      /\ Head(DqContents) = dq.ring[dq.get % DqSize] /\ Head(DqContents) \in Datum
  BY DqTakes DEF DqPop
<1>5. v # None /\ v.from = "dq" /\ v.value = Head(DqContents)
  <2>1. v \in [from : {"dq"}, value : Datum]
    BY <1>2, <1>4
  <2>. QED BY <1>2, <1>4, <2>1, DataQueueAssumption
<1>6. t \in Thread /\ Taken("dq")[t] = None /\ Taken("dq")' = [Taken("dq") EXCEPT ![t] = Head(DqContents)]
  <2>1. /\ t \in Thread /\ Taken("dq")[t] = None
        /\ Taken("dq")' = [Taken("dq") EXCEPT ![t] = IF v # None /\ v.from = "dq" THEN v.value ELSE None]
    BY <1>1, <1>3, FinishTaken
  <2>. QED BY <1>5, <2>1
<1>7. DqQueue!Get(t)
  BY <1>4, <1>6 DEF DqQueue!Get
<1>. QED BY <1>4, <1>6, <1>7 DEF DqStep, DqQueue!Next

LEMMA DqIsrPopHandles ==
  ASSUME DqPart, DqIsrPop
  PROVE  DqPart' /\ DqStep
<1>1. DqPart' /\ DqContents # <<>> /\ DqContents' = Tail(DqContents)
  BY DqTakes DEF DqIsrPop
<1>2. Taken("dq")' = Taken("dq")
  BY DEF DqIsrPop, Taken
<1>3. DqQueue!Handle
  BY <1>1, <1>2 DEF DqQueue!Handle
<1>. QED BY <1>1, <1>3 DEF DqStep, DqQueue!Next

LEMMA DqKeepsQueue ==
  ASSUME Core, DqPart, GotPart, DqNext
  PROVE  DqPart' /\ DqStep
<1>1. ASSUME dq' = dq, Apart({}) PROVE DqPart' /\ DqStep
  BY <1>1, ApartGives, DqStays
<1>2. ASSUME NEW t \in Running, NEW c, DqPushWait(t, c) \/ DqPopWait(t, c) PROVE DqPart' /\ DqStep
  <2>1. Apart({})
    BY <1>2, AtTest, BlockApart DEF DqPushWait, DqPopWait
  <2>. QED BY <1>1, <1>2, <2>1 DEF DqPushWait, DqPopWait
<1>3. ASSUME NEW t \in Running, NEW c, DqPushRefused(t, c) \/ DqPopRefused(t, c) \/ DqFail(t)
      PROVE  DqPart' /\ DqStep
  <2>1. Apart({})
    BY <1>3, AtTest, EndsApart DEF DqPushRefused, DqPopRefused, DqFail
  <2>. QED BY <1>1, <1>3, <2>1 DEF DqPushRefused, DqPopRefused, DqFail
<1>4. ASSUME NEW t \in Running, DqReset(t) PROVE DqPart' /\ DqStep
  <2>1. Apart({})
    BY <1>4, AtTest, GoesApart DEF DqReset, InCopy
  <2>. QED BY <1>1, <1>4, <2>1 DEF DqReset
<1>5. ASSUME NEW t \in Running, DqResetEnd(t) PROVE DqPart' /\ DqStep
  <2>1. Apart({})
    BY <1>5, GoesApart DEF DqResetEnd, At, InCopy, InReturn
  <2>. QED BY <1>1, <1>5, <2>1 DEF DqResetEnd
<1>6. ASSUME NEW t \in Running, NEW c \in PushDatum, DqPush(t, c) PROVE DqPart' /\ DqStep
  <2>1. c.arg \in Datum
    BY DEF PushDatum, Calls
  <2>. QED BY <1>6, <2>1, DqPushPuts
<1>7. ASSUME NEW v \in Datum, DqIsrPush(v) PROVE DqPart' /\ DqStep
  <2>1. Taken("dq")' = Taken("dq")
    BY <1>7 DEF DqIsrPush, Taken
  <2>. QED BY <1>7, <2>1, DqStores DEF DqIsrPush
<1>. QED BY <1>2, <1>3, <1>4, <1>5, <1>6, <1>7, DqPopGets, DqIsrPopHandles DEF DqNext

-----------------------------------------------------------------------------
(***************************************************************************)
(* Where the queues start.                                                 *)
(***************************************************************************)

\* Which of the blocks b is
Rank(b) == CHOOSE j \in 1..Len(MqBlock) : MqBlock[j] = b

\* rt_mq_init links the blocks so that the last one is the first free one
LEMMA MqStarts ==
  ASSUME Init
  PROVE  MqPart /\ MqQueue!Init
<1> DEFINE N == Len(MqBlock)
<1>0. N \in Nat \ {0} /\ None \notin MqBlocks
  BY BlockCount
<1>1. /\ MqBlock \in [1..N -> MqBlocks]
      /\ \A i, j \in 1..N : MqBlock[i] = MqBlock[j] => i = j
      /\ \A b \in MqBlocks : \E i \in 1..N : MqBlock[i] = b
  <2>1. MqBlock \in Seq(MqBlocks) /\ Distinct(MqBlock)
    BY MessageQueueAssumption
  <2>2. MqBlock \in [1..N -> MqBlocks]
    BY <2>1
  <2>3. \A b \in MqBlocks : \E i \in 1..N : MqBlock[i] = b
    BY DEF MqBlocks
  <2>. QED BY <2>1, <2>2, <2>3 DEF Distinct
<1>2. PICK f : f = [i \in 1..N |-> MqBlock[N - i + 1]]
  OBVIOUS
<1>3. /\ f \in Seq(MqBlocks) /\ Len(f) = N
      /\ \A i \in 1..N : N - i + 1 \in 1..N /\ f[i] = MqBlock[N - i + 1]
  <2>1. \A i \in 1..N : N - i + 1 \in 1..N
    BY <1>0
  <2>. QED BY <1>0, <1>1, <1>2, <2>1
<1>4. Distinct(f)
  <2>1. ASSUME NEW i \in 1..N, NEW j \in 1..N, f[i] = f[j] PROVE i = j
    <3>1. PICK m \in 1..N, n \in 1..N : m = N - i + 1 /\ n = N - j + 1
      BY <1>3
    <3>2. MqBlock[m] = MqBlock[n]
      BY <1>3, <2>1, <3>1
    <3>3. m = n
      BY <1>1, <3>2
    <3>. QED BY <1>0, <3>1, <3>3
  <2>. QED BY <1>3, <2>1 DEF Distinct
<1>5. \A b \in MqBlocks : Contains(f, b)
  <2>1. ASSUME NEW b \in MqBlocks PROVE Contains(f, b)
    <3>1. PICK i \in 1..N : MqBlock[i] = b
      BY <1>1
    <3>2. N - i + 1 \in 1..N /\ N - (N - i + 1) + 1 = i
      BY <1>0
    <3>. QED BY <1>3, <3>1, <3>2 DEF Contains
  <2>. QED BY <2>1
<1>6. PICK next : next = [b \in MqBlocks |-> LET i == CHOOSE j \in 1..N : MqBlock[j] = b
                                             IN  IF i = 1 THEN None ELSE MqBlock[i - 1]]
  OBVIOUS
<1>7. \A i \in 1..N : next[MqBlock[i]] = IF i = 1 THEN None ELSE MqBlock[i - 1]
  <2>1. \A b \in MqBlocks : next[b] = IF Rank(b) = 1 THEN None ELSE MqBlock[Rank(b) - 1]
    BY <1>6 DEF Rank
  <2>2. ASSUME NEW i \in 1..N PROVE Rank(MqBlock[i]) = i /\ MqBlock[i] \in MqBlocks
    BY <1>1 DEF Rank
  <2>. QED BY <2>1, <2>2
<1>8. next \in [MqBlocks -> MqBlocks \cup {None}]
  <2>1. ASSUME NEW b \in MqBlocks PROVE next[b] \in MqBlocks \cup {None}
    <3>1. PICK i \in 1..N : MqBlock[i] = b
      BY <1>1
    <3>2. i # 1 => i - 1 \in 1..N
      BY <1>0
    <3>. QED BY <1>1, <1>7, <3>1, <3>2
  <2>2. next = [b \in MqBlocks |-> next[b]]
    BY <1>6
  <2>. QED BY <2>1, <2>2
<1>9. Follow(next, f)
  <2>1. ASSUME NEW i \in 1..N PROVE next[f[i]] = IF i = N THEN None ELSE f[i + 1]
    <3>1. PICK m \in 1..N : m = N - i + 1
      BY <1>3
    <3>2. next[f[i]] = IF m = 1 THEN None ELSE MqBlock[m - 1]
      BY <1>3, <1>7, <3>1
    <3>3. i = N <=> m = 1
      BY <1>0, <3>1
    <3>4. i # N => i + 1 \in 1..N /\ N - (i + 1) + 1 = m - 1
      BY <1>0, <3>1
    <3>. QED BY <1>3, <3>2, <3>3, <3>4
  <2>. QED BY <1>3, <2>1 DEF Follow
<1>10. f # <<>> /\ f[1] = Last(MqBlock) /\ f[1] \in MqBlocks
  <2>1. 1 \in 1..N /\ N - 1 + 1 = N
    BY <1>0
  <2>2. f # <<>>
    BY <1>0, <1>3
  <2>. QED BY <1>1, <1>3, <2>1, <2>2 DEF Last
<1>11. /\ mq.head = None /\ mq.tail = None /\ mq.free = f[1] /\ mq.entry = 0
       /\ mq.next = next /\ mq.data = [b \in MqBlocks |-> None] /\ mq \in MqState
  <2>1. mq = [head |-> None, tail |-> None, free |-> Last(MqBlock), entry |-> 0, next |-> next,
              data |-> [b \in MqBlocks |-> None]]
    BY <1>6 DEF Init, MqInit
  <2>. QED BY <1>8, <1>10, <2>1 DEF MqState
<1>12. <<>> \in Seq(MqBlocks) /\ Len(<<>>) = 0
  BY EmptySeq
<1>13. hand = [t \in Thread |-> None] /\ pc = [t \in Thread |-> "run"] /\ got = [t \in Thread |-> None]
  BY DEF Init, MqInit, CallerInit
<1>14. InHand = {}
  BY <1>13 DEF InHand
<1>15. BlocksIn(mq, {}, <<>>, f)
  <2>1. Distinct(<<>>) /\ \A b : ~Contains(<<>>, b)
    BY <1>12 DEF Distinct, Contains
  <2>2. InOnePlace(<<>>, f, {})
    BY <1>5, <2>1 DEF InOnePlace
  <2>3. Follow(mq.next, <<>>) /\ Follow(mq.next, f) /\ mq.free = First(f)
    BY <1>9, <1>10, <1>11, <1>12 DEF Follow, First
  <2>. QED BY <1>3, <1>4, <1>11, <1>12, <2>1, <2>2, <2>3 DEF BlocksIn
<1>16. QueueOf(mq, <<>>)
  BY <1>11, <1>12 DEF QueueOf, First, Final
<1>17. MqHolds(<<>>, f)
  BY <1>14, <1>15, <1>16 DEF MqHolds
<1>18. HandsFit /\ HandsFull
  <2>1. "run" \in AllLabels /\ "run" \notin InCopy
    BY DEF AllLabels, InCopy
  <2>. QED BY <1>13, <2>1 DEF HandsFit, HandsFull
<1>19. MqContents = <<>>
  BY <1>17, MqMeaning DEF Values
<1>20. MqTaken = [t \in Thread |-> None]
  BY <1>13 DEF MqTaken, Taken
<1>. QED BY <1>17, <1>18, <1>19, <1>20 DEF MqPart, MqQueue!Init

LEMMA MbStarts ==
  ASSUME Init
  PROVE  MbPart /\ MbQueue!Init
<1>1. mb = [pool |-> [i \in 0..(MbSize - 1) |-> None], in |-> 0, out |-> 0, entry |-> 0]
  BY DEF Init, MbInit
<1>2. mb \in MbState /\ mb.in = 0 /\ mb.out = 0 /\ mb.entry = 0
  BY <1>1, MbSizes DEF MbState
<1>3. MbIs(mb, <<>>)
  BY <1>2, MbClears DEF MbState
<1>4. MbContents = <<>>
  <2>1. MbContents = MbWords(mb)
    BY DEF MbContents, MbWords
  <2>. QED BY <1>3, <2>1, MbReads
<1>5. Taken("mb") = [t \in Thread |-> None]
  BY DEF Init, CallerInit, Taken
<1>. QED BY <1>3, <1>4, <1>5 DEF MbPart, MbQueue!Init

LEMMA DqStarts ==
  ASSUME Init
  PROVE  DqPart /\ DqQueue!Init
<1>1. dq = [put |-> 0, get |-> 0, ring |-> [i \in 0..(DqSize - 1) |-> None]]
  BY DEF Init, DqInit
<1>2. dq \in DqState /\ dq.put = 0 /\ dq.get = 0
  BY <1>1 DEF DqState
<1>3. InRing(Datum, DqSize, dq.ring, dq.get % DqSize, <<>>)
  <2>1. dq.get % DqSize \in 0..(DqSize - 1)
    BY <1>2, DqSizes, Quotient
  <2>2. dq.ring \in [0..(DqSize - 1) -> Datum \cup {None}]
    BY <1>2 DEF DqState
  <2>. QED BY <2>1, <2>2, DqSizes, RingEmpty
<1>4. DqIs(dq, <<>>)
  <2>1. Len(<<>>) = 0 /\ 0 \in 0..MaxPush
    BY DqSizes
  <2>. QED BY <1>2, <1>3, <2>1 DEF DqIs
<1>5. DqContents = <<>>
  <2>1. DqContents = DqData(dq)
    BY DEF DqContents, DqData, Filled
  <2>. QED BY <1>4, <2>1, DqReads
<1>6. Taken("dq") = [t \in Thread |-> None]
  BY DEF Init, CallerInit, Taken
<1>. QED BY <1>4, <1>5, <1>6 DEF DqPart, DqQueue!Init

-----------------------------------------------------------------------------
(***************************************************************************)
(* The invariant of the queues, and what they implement.                   *)
(***************************************************************************)
QueuesInv == IInv /\ GotPart /\ MbPart /\ MqPart /\ DqPart

LEMMA QueuesStart == Init => QueuesInv
<1> SUFFICES ASSUME Init PROVE QueuesInv
  OBVIOUS
<1>1. GotPart
  BY DEF Init, CallerInit, GotPart
<1>. QED BY <1>1, InitInv, MbStarts, MqStarts, DqStarts DEF QueuesInv

LEMMA QueuesStep ==
  ASSUME QueuesInv, [Next]_vars
  PROVE  QueuesInv' /\ MbStep /\ MqStep /\ DqStep
<1>1. Core /\ Core' /\ IInv' /\ GotPart /\ MbPart /\ MqPart /\ DqPart
  BY StepInv DEF QueuesInv, IInv
<1>2. pc' \in [Thread -> AllLabels]
  BY <1>1 DEF Core, PlacePart
<1>3. CASE MbNext /\ UNCHANGED <<mq, hand, dq>>
  <2>1. Apart({"mb"}) /\ Gives({"mb"}) /\ GotPart'
    BY <1>1, <1>3, MbApart, ApartGot, ApartGives
  <2>2. MbPart' /\ MbStep
    BY <1>1, <1>3, MbKeepsQueue
  <2>3. MqPart' /\ MqStep
    BY <1>1, <1>2, <1>3, <2>1, MqStays
  <2>4. DqPart' /\ DqStep
    BY <1>1, <1>3, <2>1, DqStays
  <2>. QED BY <1>1, <2>1, <2>2, <2>3, <2>4 DEF QueuesInv
<1>4. CASE MqNext /\ UNCHANGED <<mb, dq>>
  <2>1. MqPart' /\ GotPart' /\ MqStep
    BY <1>1, <1>4, MqKeepsQueue
  <2>2. MbPart' /\ MbStep /\ DqPart' /\ DqStep
    BY <1>1, <1>4, MqGives, MbStays, DqStays
  <2>. QED BY <1>1, <2>1, <2>2 DEF QueuesInv
<1>5. CASE DqNext /\ UNCHANGED <<mb, mq, hand>>
  <2>1. Apart({"dq"}) /\ Gives({"dq"}) /\ GotPart'
    BY <1>1, <1>5, DqApart, ApartGot, ApartGives
  <2>2. DqPart' /\ DqStep
    BY <1>1, <1>5, DqKeepsQueue
  <2>3. MqPart' /\ MqStep
    BY <1>1, <1>2, <1>5, <2>1, MqStays
  <2>4. MbPart' /\ MbStep
    BY <1>1, <1>5, <2>1, MbStays
  <2>. QED BY <1>1, <2>1, <2>2, <2>3, <2>4 DEF QueuesInv
<1>6. CASE Apart({"ev", "on"}) /\ UNCHANGED <<mb, mq, hand, dq>>
  <2>1. GotPart' /\ Gives({"ev", "on"})
    BY <1>1, <1>6, ApartGot, ApartGives
  <2>2. MbPart' /\ MbStep
    BY <1>1, <1>6, <2>1, MbStays
  <2>3. MqPart' /\ MqStep
    BY <1>1, <1>2, <1>6, MqStays
  <2>4. DqPart' /\ DqStep
    BY <1>1, <1>6, <2>1, DqStays
  <2>. QED BY <1>1, <2>1, <2>2, <2>3, <2>4 DEF QueuesInv
<1>. QED BY <1>1, <1>3, <1>4, <1>5, <1>6, QueueSteps

THEOREM QueuesKeep == Spec => []QueuesInv
<1>1. QueuesInv /\ [Next]_vars => QueuesInv'
  BY QueuesStep
<1>. QED BY <1>1, QueuesStart, PTL DEF Spec

\* rt_mq_send, rt_mq_urgent and rt_mq_recv copy with interrupts enabled and the block on no
\* list; whoever comes in between, every block stays in one place, the queue, the free list
\* or the hands of one thread, and msg_queue_tail and entry stay those of the queue
THEOREM BlocksConserved == Spec => []MqBlocksConserved
<1>1. QueuesInv => MqBlocksConserved
  BY MqMeans DEF QueuesInv
<1>. QED BY <1>1, QueuesKeep, PTL

\* A mailbox, a message queue and a data queue hand out each value once, in the order they
\* came except for urgent ones, never hold more than fits, and lose a value in a reset only
THEOREM QueuesImplement == Spec => QueuesInOrder
<1>1. Init => MbQueue!Init /\ MqQueue!Init /\ DqQueue!Init
  BY MbStarts, MqStarts, DqStarts
<1>2. QueuesInv /\ [Next]_vars => [MbQueue!Next]_<<MbContents, Taken("mb")>>
  BY QueuesStep DEF MbStep
<1>3. QueuesInv /\ [Next]_vars => [MqQueue!Next]_<<MqContents, MqTaken>>
  BY QueuesStep DEF MqStep
<1>4. QueuesInv /\ [Next]_vars => [DqQueue!Next]_<<DqContents, Taken("dq")>>
  BY QueuesStep DEF DqStep
<1>. QED
  BY <1>1, <1>2, <1>3, <1>4, QueuesKeep, PTL
  DEF Spec, MbQueue!Spec, MqQueue!Spec, DqQueue!Spec, QueuesInOrder

-----------------------------------------------------------------------------
(***************************************************************************)
(* Nobody is stranded.  The running thread gives up looking at an object   *)
(* again only in a step of a call in F, and comes to wait, or to another   *)
(* place of a call that waits, only in one.                                *)
(***************************************************************************)
WaitPlaces == {"schedule", "again", "unqueue", "sr_get", "sr_wait", "sr_put", "sr_busy"}

Leaves(F) ==
  pc[k.cur] = "again" => (pc'[k.cur] = "again" /\ CallKept(k.cur)) \/ call[k.cur].op \in F

Joins(F) ==
  pc'[k.cur] \in WaitPlaces =>
    \/ /\ pc'[k.cur] = pc[k.cur] \/ (pc[k.cur] = "schedule" /\ pc'[k.cur] = "again")
       /\ CallKept(k.cur)
    \/ call'[k.cur].op \in F

\* rt_mp_detach empties the one list that the pool has
DetachFits(p, c) == p \in {"detach", "wake"} /\ c.op = "mp" => c.arg \in {<<"mp">>, <<>>}

DetachPart == \A t \in Thread : DetachFits(pc[t], call[t])

Turns(F) == Leaves(F) /\ Joins(F) /\ DetachFits(pc'[k.cur], call'[k.cur])

LEMMA TurnsMore ==
  ASSUME NEW F, NEW G, F \subseteq G, Turns(F)
  PROVE  Turns(G)
BY DEF Turns, Leaves, Joins

\* A handler, or a step that leaves the callers alone
LEMMA SitTurns ==
  ASSUME Core, DetachPart, pc' = pc, CallsKept(Thread)
  PROVE  Turns({})
<1>1. k.cur \in Thread
  BY KernelFunctions DEF Core
<1>2. CallKept(k.cur) /\ pc'[k.cur] = pc[k.cur]
  BY <1>1 DEF CallsKept
<1>3. Leaves({}) /\ Joins({})
  BY <1>2 DEF Leaves, Joins
<1>4. DetachFits(pc'[k.cur], call'[k.cur])
  BY <1>1, <1>2 DEF DetachPart, DetachFits, CallKept
<1>. QED BY <1>3, <1>4 DEF Turns

LEMMA RestTurns ==
  ASSUME Core, DetachPart, pc' = pc, call' = call
  PROVE  Turns({})
<1>1. CallsKept(Thread)
  BY DEF CallsKept, CallKept, Core, PlacePart
<1>. QED BY <1>1, SitTurns

\* The running thread goes on, in a call of F
LEMMA InTurns ==
  ASSUME Core, NEW t \in Running, NEW p, p \notin {"detach", "wake"}, Goto(t, p),
         NEW F, call'[t].op \in F, pc[t] = "again" => call[t].op \in F
  PROVE  Turns(F)
<1>1. t = k.cur /\ pc'[t] = p
  BY PlaceTypes DEF Goto, Running
<1>. QED BY <1>1 DEF Turns, Leaves, Joins, DetachFits, WaitPlaces

\* ... or to a place of a call that does not wait
LEMMA GoTurns ==
  ASSUME Core, NEW t \in Running, NEW p, Goto(t, p),
         p \notin {"schedule", "again", "unqueue", "sr_get", "sr_wait", "sr_put", "sr_busy",
                  "detach", "wake"},
         NEW F, pc[t] = "again" => call[t].op \in F
  PROVE  Turns(F)
<1>1. t = k.cur /\ pc'[t] = p
  BY PlaceTypes DEF Goto, Running
<1>. QED BY <1>1 DEF Turns, Leaves, Joins, DetachFits, WaitPlaces

LEMMA BlockTurns ==
  ASSUME Core, NEW t \in Running, NEW c, NEW kk, Block(t, c, kk),
         NEW F, c.op \in F, pc[t] = "again" => call[t].op \in F
  PROVE  Turns(F)
<1>1. t = k.cur /\ pc'[t] = "schedule" /\ call'[t] = c
  BY PlaceTypes DEF Goto, Running, Block, Core, PlacePart
<1>. QED BY <1>1 DEF Turns, Leaves, Joins, DetachFits, WaitPlaces

LEMMA FinishTurns ==
  ASSUME Core, NEW t \in Running, NEW woke, NEW v, Finish(t, woke, v),
         NEW F, pc[t] = "again" => call[t].op \in F
  PROVE  Turns(F)
<1>1. PICK p : p = IF woke THEN "post" ELSE IF v # None THEN "ret" ELSE "run"
  OBVIOUS
<1>2. p \in {"post", "ret", "run"} /\ Goto(t, p)
  BY <1>1 DEF Finish
<1>. QED BY <1>2, GoTurns

LEMMA EndTurns ==
  ASSUME Core, NEW t \in Running, Refuse(t) \/ Fail(t),
         NEW F, pc[t] = "again" => call[t].op \in F
  PROVE  Turns(F)
<1>1. Goto(t, "run")
  BY DEF Refuse, Fail
<1>. QED BY <1>1, GoTurns

LEMMA DetachTurns ==
  ASSUME Core, NEW t \in Running, NEW op, NEW o, NEW lists, Detach(t, op, o, lists),
         o = "mp" => lists = <<"mp">>
  PROVE  Turns({})
<1>1. t = k.cur /\ pc'[t] = "detach" /\ pc[t] = "run"
      /\ call'[t] = [op |-> o, arg |-> lists, time |-> "none"]
  BY PlaceTypes DEF Goto, Running, Detach, Starts, At, Core, PlacePart
<1>. QED BY <1>1 DEF Turns, Leaves, Joins, DetachFits, WaitPlaces

\* A call that looks again is the one that waited
LEMMA TestsSame ==
  ASSUME Core, NEW t \in Running, NEW c, NEW o, Tests(t, c, o) \/ DqTests(t, c)
  PROVE  pc[t] = "again" => call[t].op = c.op
<1>1. CASE Enters(t, c, o) \/ Enters(t, c, "dq")
  BY <1>1 DEF Enters, Starts, At
<1>2. CASE c = call[t]
  BY <1>2
<1>3. CASE Again(t, c)
  <2>1. t \in Thread
    BY PlaceTypes
  <2>2. call[t] \in WaitCall
    BY <1>3, <2>1 DEF Again, At, Core, PlacePart, CallFits
  <2>3. CASE c = call[t]
    BY <2>3
  <2>4. CASE c = [call[t] EXCEPT !.time = "none"]
    <3>1. PICK x : x = call[t]
      OBVIOUS
    <3>2. [x EXCEPT !.time = "none"].op = x.op
      BY <2>2, <3>1 DEF WaitCall, EventCall, ClientCall, PipeCall, SerialCall
    <3>. QED BY <2>4, <3>1, <3>2
  <2>. QED BY <1>3, <2>3, <2>4 DEF Again, Remaining
<1>. QED BY <1>1, <1>2, <1>3 DEF Tests, DqTests

LEMMA CallerTurns ==
  ASSUME Core, DetachPart, CallerStep
  PROVE  Turns({})
<1>1. CASE Tick \/ \E t \in Thread : Expire(t)
  BY <1>1, RestTurns DEF Tick, Expire
<1>2. ASSUME NEW t \in Running, CallSchedule(t) PROVE Turns({})
  <2>1. t = k.cur /\ pc[t] = "schedule" /\ pc'[t] = "again" /\ CallKept(t)
    BY <1>2, PlaceTypes DEF CallSchedule, At, Goto, Running, CallKept
  <2>. QED BY <2>1 DEF Turns, Leaves, Joins, DetachFits, WaitPlaces
<1>3. ASSUME NEW t \in Running, PostSchedule(t) \/ Return(t) \/ DetachObject(t) \/ Sleep(t)
      PROVE  Turns({})
  <2>1. pc[t] # "again" /\ \E p \in {"run", "post"} : Goto(t, p)
    BY <1>3 DEF PostSchedule, Return, DetachObject, Sleep, At
  <2>. QED BY <2>1, GoTurns
<1>4. ASSUME NEW t \in Running, ListTest(t) \/ ListWake(t) PROVE Turns({})
  <2>1. t = k.cur /\ t \in Thread /\ pc[t] \in {"detach", "wake"} /\ pc'[t] \in {"detach", "wake"}
    BY <1>4, PlaceTypes DEF ListTest, ListWake, At, Goto, Running
  <2>2. \/ call'[t] = call[t]
        \/ call[t].arg # <<>> /\ call'[t] = [call[t] EXCEPT !.arg = Tail(@)]
    BY <1>4, <2>1 DEF ListTest, ListWake, Left, Core, PlacePart
  <2>3. DetachFits(pc[t], call[t]) /\ call[t] \in DetachCall
    BY <2>1, Detaching DEF DetachPart
  <2>4. CASE call[t].arg # <<>> /\ call'[t] = [call[t] EXCEPT !.arg = Tail(@)]
    <3>1. call'[t].arg = Tail(call[t].arg) /\ call'[t].op = call[t].op
      BY <2>3, <2>4 DEF DetachCall
    <3>2. Tail(<<"mp">>) = <<>>
      OBVIOUS
    <3>3. DetachFits(pc'[t], call'[t])
      BY <2>1, <2>3, <2>4, <3>1, <3>2 DEF DetachFits
    <3>. QED BY <2>1, <3>3 DEF Turns, Leaves, Joins, WaitPlaces
  <2>5. CASE call'[t] = call[t]
    BY <2>1, <2>3, <2>5 DEF Turns, Leaves, Joins, DetachFits, WaitPlaces
  <2>. QED BY <2>2, <2>4, <2>5
<1>. QED BY <1>1, <1>2, <1>3, <1>4 DEF CallerStep

LEMMA MbSendTurns ==
  ASSUME Core, NEW t \in Running, NEW c \in SendMail,
         MbSend(t, c) \/ MbSendWait(t, c) \/ MbSendRefused(t, c)
  PROVE  Turns({"mb_send"})
<1>1. c.op \in {"mb_send"} /\ (pc[t] = "again" => call[t].op \in {"mb_send"})
  BY TestsSame, SendsMail DEF MbSend, MbSendWait, MbSendRefused
<1>. QED BY <1>1, FinishTurns, BlockTurns, EndTurns
     DEF MbSend, MbSendWait, MbSendRefused, WaitOn

LEMMA MbRecvTurns ==
  ASSUME Core, NEW t \in Running, NEW c \in RecvMail,
         MbRecv(t, c) \/ MbRecvWait(t, c) \/ MbRecvRefused(t, c)
  PROVE  Turns({"mb_recv"})
<1>1. c.op \in {"mb_recv"} /\ (pc[t] = "again" => call[t].op \in {"mb_recv"})
  BY TestsSame, ReceivesMail DEF MbRecv, MbRecvWait, MbRecvRefused
<1>. QED BY <1>1, FinishTurns, BlockTurns, EndTurns
     DEF MbRecv, MbRecvWait, MbRecvRefused, WaitOn

LEMMA MbTurns ==
  ASSUME Core, DetachPart, MbNext
  PROVE  Turns({"mb_send", "mb_recv"})
<1> DEFINE F == {"mb_send", "mb_recv"}
<1>1. ASSUME NEW t \in Running, MbFail(t) PROVE Turns(F)
  BY <1>1, EndTurns DEF MbFail
<1>2. ASSUME NEW t \in Running, MbReset(t) PROVE Turns({})
  BY <1>2, GoTurns DEF MbReset, Starts, At
<1>3. ASSUME NEW t \in Running, MbDetach(t) PROVE Turns({})
  BY <1>3, DetachTurns DEF MbDetach
<1>4. ASSUME NEW v, MbIsrSend(v) PROVE Turns({})
  BY <1>4, RestTurns DEF MbIsrSend
<1>. QED BY <1>1, <1>2, <1>3, <1>4, MbSendTurns, MbRecvTurns, TurnsMore DEF MbNext

LEMMA MqRecvTurns ==
  ASSUME Core, NEW t \in Running, NEW c \in RecvMessage,
         MqRecv(t, c) \/ MqRecvWait(t, c) \/ MqRecvRefused(t, c)
  PROVE  Turns({"mq_recv"})
<1>1. c.op \in {"mq_recv"} /\ (pc[t] = "again" => call[t].op \in {"mq_recv"})
  BY TestsSame, ReceivesMessage DEF MqRecv, MqRecvWait, MqRecvRefused
<1>. QED BY <1>1, GoTurns, BlockTurns, EndTurns DEF MqRecv, MqRecvWait, MqRecvRefused, WaitOn

LEMMA MqTurns ==
  ASSUME Core, DetachPart, MqNext
  PROVE  Turns({"mq_recv"})
<1>2. ASSUME NEW t \in Running, NEW c, MqSend(t, c) PROVE Turns({})
  BY <1>2, GoTurns DEF MqSend, Starts, At
<1>3. ASSUME NEW t \in Running, MqLink(t) \/ MqCopy(t) PROVE Turns({})
  BY <1>3, FinishTurns DEF MqLink, MqCopy, At
<1>4. ASSUME NEW t \in Running, MqFail(t) PROVE Turns({"mq_recv"})
  BY <1>4, EndTurns DEF MqFail
<1>5. ASSUME NEW t \in Running, MqReset(t) PROVE Turns({})
  BY <1>5, GoTurns DEF MqReset, Starts, At
<1>6. ASSUME NEW t \in Running, MqDetach(t) PROVE Turns({})
  BY <1>6, DetachTurns DEF MqDetach
<1>7. ASSUME NEW v, MqIsrSend(v) PROVE Turns({})
  BY <1>7, RestTurns DEF MqIsrSend
<1>. QED BY <1>2, <1>3, <1>4, <1>5, <1>6, <1>7, MqRecvTurns, TurnsMore DEF MqNext

LEMMA EvTurns ==
  ASSUME Core, DetachPart, EvNext
  PROVE  Turns({"ev_recv"})
<1>1. ASSUME NEW t \in Running, NEW c \in RecvEvent,
             EvRecv(t, c) \/ EvRecvWait(t, c) \/ EvRecvRefused(t, c)
      PROVE  Turns({"ev_recv"})
  <2>1. c.op \in {"ev_recv"} /\ pc[t] # "again"
    BY <1>1, WishesEvent DEF EvRecv, EvRecvWait, EvRecvRefused, Enters, Starts, At
  <2>. QED BY <1>1, <2>1, FinishTurns, BlockTurns, EndTurns
       DEF EvRecv, EvRecvWait, EvRecvRefused, WaitOn
<1>2. ASSUME NEW t \in Running, NEW set, EvSend(t, set) PROVE Turns({})
  <2>1. \E p \in {"post", "run"} : Goto(t, p)
    BY <1>2 DEF EvSend
  <2>. QED BY <1>2, <2>1, GoTurns DEF EvSend, Starts, At
<1>3. ASSUME NEW t \in Running, EvReceived(t) PROVE Turns({"ev_recv"})
  BY <1>3, FinishTurns DEF EvReceived
<1>4. ASSUME NEW t \in Running, EvFail(t) PROVE Turns({"ev_recv"})
  BY <1>4, EndTurns DEF EvFail
<1>5. ASSUME NEW t \in Running, EvReset(t) PROVE Turns({})
  BY <1>5, GoTurns DEF EvReset, Starts, At
<1>6. ASSUME NEW t \in Running, EvDetach(t) PROVE Turns({})
  BY <1>6, DetachTurns DEF EvDetach
<1>7. ASSUME NEW set, EvIsrSend(set) PROVE Turns({})
  <2>1. CallsKept(Thread)
    BY <1>7, EvPassKeeps DEF EvIsrSend
  <2>. QED BY <1>7, <2>1, SitTurns DEF EvIsrSend
<1>. QED BY <1>1, <1>2, <1>3, <1>4, <1>5, <1>6, <1>7, TurnsMore DEF EvNext

LEMMA MpAllocTurns ==
  ASSUME Core, NEW t \in Running, NEW c \in AllocBlock,
         MpAlloc(t, c) \/ MpAllocWait(t, c) \/ MpAllocRefused(t, c)
  PROVE  Turns({"mp_alloc"})
<1>1. c.op \in {"mp_alloc"} /\ (pc[t] = "again" => call[t].op \in {"mp_alloc"})
  BY TestsSame, AllocatesBlock DEF MpAlloc, MpAllocWait, MpAllocRefused
<1>. QED BY <1>1, FinishTurns, BlockTurns, EndTurns DEF MpAlloc, MpAllocWait, MpAllocRefused

LEMMA MpTurns ==
  ASSUME Core, DetachPart, MpNext
  PROVE  Turns({"mp_alloc"})
<1>2. ASSUME NEW t \in Running, NEW b, MpFree(t, b) PROVE Turns({})
  <2>1. \E p \in {"post", "run"} : Goto(t, p)
    BY <1>2 DEF MpFree
  <2>. QED BY <1>2, <2>1, GoTurns DEF MpFree, Starts, At
<1>3. ASSUME NEW t \in Running, MpFail(t) PROVE Turns({"mp_alloc"})
  BY <1>3, EndTurns DEF MpFail
<1>4. ASSUME NEW t \in Running, MpDetach(t) PROVE Turns({})
  BY <1>4, DetachTurns DEF MpDetach
<1>5. ASSUME NEW t \in Running, MpDetachWake(t) PROVE Turns({})
  <2>1. t = k.cur /\ t \in Thread /\ pc[t] = "wake" /\ pc'[t] = "detach" /\ call' = call
    BY <1>5, PlaceTypes DEF MpDetachWake, ListWake, At, Goto, Running
  <2>. QED BY <2>1 DEF Turns, Leaves, Joins, DetachFits, DetachPart, WaitPlaces
<1>6. ASSUME NEW b, MpIsrFree(b) PROVE Turns({})
  BY <1>6, RestTurns DEF MpIsrFree
<1>. QED BY <1>2, <1>3, <1>4, <1>5, <1>6, MpAllocTurns, TurnsMore DEF MpNext

LEMMA DqPushTurns ==
  ASSUME Core, NEW t \in Running, NEW c \in PushDatum,
         DqPush(t, c) \/ DqPushWait(t, c) \/ DqPushRefused(t, c)
  PROVE  Turns({"dq_push"})
<1>1. c.op \in {"dq_push"} /\ (pc[t] = "again" => call[t].op \in {"dq_push"})
  BY TestsSame, PushesDatum DEF DqPush, DqPushWait, DqPushRefused
<1>. QED BY <1>1, FinishTurns, BlockTurns, EndTurns DEF DqPush, DqPushWait, DqPushRefused

LEMMA DqPopTurns ==
  ASSUME Core, NEW t \in Running, NEW c \in PopDatum,
         DqPop(t, c) \/ DqPopWait(t, c) \/ DqPopRefused(t, c)
  PROVE  Turns({"dq_pop"})
<1>1. c.op \in {"dq_pop"} /\ (pc[t] = "again" => call[t].op \in {"dq_pop"})
  BY TestsSame, PopsDatum DEF DqPop, DqPopWait, DqPopRefused
<1>. QED BY <1>1, FinishTurns, BlockTurns, EndTurns DEF DqPop, DqPopWait, DqPopRefused

LEMMA DqTurns ==
  ASSUME Core, DetachPart, DqNext
  PROVE  Turns({"dq_push", "dq_pop"})
<1> DEFINE F == {"dq_push", "dq_pop"}
<1>3. ASSUME NEW t \in Running, DqFail(t) PROVE Turns(F)
  BY <1>3, EndTurns DEF DqFail
<1>4. ASSUME NEW t \in Running, DqReset(t) PROVE Turns({})
  <2>1. t = k.cur /\ pc'[t] = "detach" /\ pc[t] = "run" /\ call'[t].op = "dq_reset"
    BY <1>4, PlaceTypes DEF Goto, Running, DqReset, Starts, At, Core, PlacePart
  <2>. QED BY <2>1 DEF Turns, Leaves, Joins, DetachFits, WaitPlaces
<1>5. ASSUME NEW t \in Running, DqResetEnd(t) PROVE Turns({})
  BY <1>5, GoTurns DEF DqResetEnd, At
<1>6. ASSUME NEW v, DqIsrPush(v) \/ DqIsrPop PROVE Turns({})
  BY <1>6, RestTurns DEF DqIsrPush, DqIsrPop
<1>. QED BY <1>3, <1>4, <1>5, <1>6, DqPushTurns, DqPopTurns, TurnsMore DEF DqNext

LEMMA CpTurns ==
  ASSUME Core, DetachPart, CpNext
  PROVE  Turns({"cp_wait"})
<1>1. ASSUME NEW t \in Running, NEW c \in WaitDone,
             CpWaitDone(t, c) \/ CpWait(t, c) \/ CpWaitRefused(t, c)
      PROVE  Turns({"cp_wait"})
  <2>1. c.op \in {"cp_wait"} /\ pc[t] # "again"
    BY <1>1, WaitsDone DEF CpWaitDone, CpWait, CpWaitRefused, Enters, Starts, At
  <2>. QED BY <1>1, <2>1, FinishTurns, BlockTurns, EndTurns DEF CpWaitDone, CpWait, CpWaitRefused
<1>2. ASSUME NEW t \in Running, CpReturn(t) \/ CpDone(t) PROVE Turns({"cp_wait"})
  <2>1. pc[t] = "again" => call[t].op \in {"cp_wait"}
    BY <1>2 DEF CpReturn, CpDone, At
  <2>2. CASE CpReturn(t)
    BY <2>1, <2>2, FinishTurns DEF CpReturn
  <2>3. CASE CpDone(t)
    BY <2>1, <2>3, FinishTurns DEF CpDone
  <2>. QED BY <1>2, <2>2, <2>3
<1>3. ASSUME NEW t \in Running, CpDoneTest(t) PROVE Turns({})
  BY <1>3, GoTurns DEF CpDoneTest, Starts, At
<1>4. ASSUME CpIsrDone PROVE Turns({})
  <2>1. pc' = pc /\ call' = call
    BY <1>4 DEF CpIsrDone
  <2>. QED BY <2>1, RestTurns
<1>. QED BY <1>1, <1>2, <1>3, <1>4, TurnsMore DEF CpNext

LEMMA PpTurns ==
  ASSUME Core, DetachPart, PpNext
  PROVE  Turns(PpOp)
<1>1. ASSUME NEW t \in Running, NEW op, NEW n, PpCall(t, op, n) PROVE Turns(PpOp)
  BY <1>1, GoTurns DEF PpCall, Starts, At
<1>2. ASSUME NEW t \in Running, PpLockWait(t) PROVE Turns(PpOp)
  <2>1. call[t] \in PipeCall /\ pc[t] # "again"
    BY <1>2, InPipe DEF PpLockWait, At, PipePlaces
  <2>. QED BY <1>2, <2>1, BlockTurns DEF PpLockWait, PipeCall
<1>3. ASSUME NEW t \in Running, PpLock(t) \/ PpLocked(t) \/ PpOpen(t) \/ PpClose(t)
      PROVE  Turns(PpOp)
  <2>1. pc[t] = "again" => call[t].op \in PpOp
    BY <1>3 DEF PpLock, PpLocked, PpOpen, PpClose, In, At
  <2>2. \E p \in {"locked", "unlock"} : Goto(t, p)
    BY <1>3 DEF PpLock, PpLocked, PpOpen, PpClose
  <2>. QED BY <2>1, <2>2, GoTurns
<1>4. ASSUME NEW t \in Running, PpReadEnd(t) \/ PpReadSome(t) \/ PpWriteEnd(t) \/ PpReadNone(t) \/ PpRelease(t)
      PROVE  Turns(PpOp)
  <2>1. pc[t] # "again"
    BY <1>4 DEF PpReadEnd, PpReadSome, PpWriteEnd, PpReadNone, PpRelease, In, At
  <2>2. \E p \in {"unlock", "rouse", "signal"} : Goto(t, p)
    BY <1>4 DEF PpReadEnd, PpReadSome, PpWriteEnd, PpReadNone, PpRelease, Unlock
  <2>. QED BY <2>1, <2>2, GoTurns
<1>5. ASSUME NEW t \in Running, PpWriteSome(t) PROVE Turns(PpOp)
  <2>1. pc[t] # "again"
    BY <1>5 DEF PpWriteSome, In, At
  <2>2. \E p \in {"unlock", "release"} : Goto(t, p)
    BY <1>5 DEF PpWriteSome
  <2>. QED BY <2>1, <2>2, GoTurns
<1>6. ASSUME NEW t \in Running, PpSignal(t) \/ PpRouse(t) \/ PpLast(t) PROVE Turns(PpOp)
  <2>1. pc[t] # "again"
    BY <1>6 DEF PpSignal, PpRouse, PpLast, At
  <2>2. \E p \in {"wait", "unlock", "run"} : Goto(t, p)
    BY <1>6 DEF PpSignal, PpRouse, PpLast, Wakeup
  <2>. QED BY <2>1, <2>2, GoTurns
<1>7. ASSUME NEW t \in Running, PpUnlock(t) PROVE Turns(PpOp)
  <2>1. pc[t] # "again"
    BY <1>7 DEF PpUnlock, At
  <2>2. \E p \in {"last", "run"} : Goto(t, p)
    BY <1>7 DEF PpUnlock, Unlock
  <2>. QED BY <2>1, <2>2, GoTurns
<1>8. ASSUME NEW t \in Running, PpWait(t) PROVE Turns(PpOp)
  <2>1. call[t] \in PipeCall /\ pc[t] # "again"
    BY <1>8, InPipe DEF PpWait, At, PipePlaces
  <2>2. CASE WqPass(t, Own(t), "lock")
    BY <2>1, <2>2, GoTurns DEF WqPass
  <2>3. CASE WqBlock(t, Own(t))
    BY <2>1, <2>3, BlockTurns DEF WqBlock, PipeCall
  <2>. QED BY <1>8, <2>2, <2>3 DEF PpWait
<1>9. ASSUME NEW t \in Running, PpWaited(t) PROVE Turns(PpOp)
  <2>1. \E p \in {"unqueue", "lock"} : Goto(t, p)
    BY <1>9 DEF PpWaited, WqReturn, WqUnqueue
  <2>2. t \in Thread /\ pc[t] \in {"again", "unqueue"} /\ call[t].op \in PpOp
    BY <1>9, PlaceTypes DEF PpWaited, WqReturn, WqUnqueue, At, Running
  <2>3. call' = call
    BY <1>9 DEF PpWaited, WqReturn, WqUnqueue
  <2>. QED BY <2>1, <2>2, <2>3, InTurns
<1>. QED BY <1>1, <1>2, <1>3, <1>4, <1>5, <1>6, <1>7, <1>8, <1>9 DEF PpNext

LEMMA WkTurns ==
  ASSUME Core, DetachPart, WkNext
  PROVE  Turns({"wk_work"})
<1>1. ASSUME NEW t \in Running, WkTest(t) PROVE Turns({"wk_work"})
  <2>1. \E p \in {"wk_suspend", "wk_pick"} : Goto(t, p)
    BY <1>1 DEF WkTest
  <2>. QED BY <1>1, <2>1, GoTurns DEF WkTest, Starts, At
<1>2. ASSUME NEW t \in Running, WkSuspend(t) PROVE Turns({"wk_work"})
  <2>1. PICK c : c = [op |-> "wk_work", arg |-> None, time |-> "forever"]
    OBVIOUS
  <2>2. c.op \in {"wk_work"} /\ Block(t, c, Suspend(k, t)) /\ pc[t] # "again"
    BY <1>2, <2>1 DEF WkSuspend, At
  <2>. QED BY <2>2, BlockTurns
<1>3. ASSUME NEW t \in Running, WkPick(t) \/ WkDone(t) \/ WkResume(t) PROVE Turns({"wk_work"})
  <2>1. pc[t] = "again" => call[t].op \in {"wk_work"}
    BY <1>3 DEF WkPick, WkPicks, WkDone, WkResume, At
  <2>2. \E p \in {"wk_do", "run", "post"} : Goto(t, p)
    BY <1>3 DEF WkPick, WkDone, WkResume
  <2>. QED BY <2>1, <2>2, GoTurns
<1>4. ASSUME NEW t \in Running, NEW w, WkSubmit(t, w) \/ WkCritical(t, w) PROVE Turns({"wk_work"})
  <2>1. pc[t] # "again"
    BY <1>4 DEF WkSubmit, WkCritical, Starts, At
  <2>2. \E p \in {"wk_resume", "run"} : Goto(t, p)
    BY <1>4 DEF WkSubmit, WkCritical
  <2>. QED BY <2>1, <2>2, GoTurns
<1>5. ASSUME NEW t, NEW w, WkIsrSubmit(w) \/ WkCancel(t, w) \/ WkCancelAll(t) PROVE Turns({})
  BY <1>5, RestTurns DEF WkIsrSubmit, WkCancel, WkCancelAll, caller
<1>. QED BY <1>1, <1>2, <1>3, <1>4, <1>5, TurnsMore DEF WkNext

LEMMA HpTurns ==
  ASSUME Core, DetachPart, HpNext
  PROVE  Turns({})
<1>1. ASSUME NEW t, NEW s, NEW b, HpMalloc(t, s) \/ HpFree(t, b) \/ HpShrink(t, b, s) PROVE Turns({})
  BY <1>1, RestTurns DEF HpMalloc, HpFree, HpShrink, caller
<1>2. ASSUME NEW t \in Running, NEW s, NEW b, HpGrow(t, b, s) PROVE Turns({})
  BY <1>2, GoTurns DEF HpGrow, Starts, At
<1>3. ASSUME NEW t \in Running, HpGrowMalloc(t) \/ HpGrowFree(t) PROVE Turns({})
  <2>1. pc[t] # "again"
    BY <1>3 DEF HpGrowMalloc, HpGrowFree, At
  <2>2. \E p \in {"hp_move", "run"} : Goto(t, p)
    BY <1>3 DEF HpGrowMalloc, HpGrowFree
  <2>. QED BY <2>1, <2>2, GoTurns
<1>. QED BY <1>1, <1>2, <1>3 DEF HpNext

LEMMA RbTurns ==
  ASSUME Core, DetachPart, RbNext \/ RbbNext
  PROVE  Turns({})
BY RestTurns DEF RbNext, RbDoGet, RbDoPut, RbDoForce, RbDoCharForce, RbReset, RbbNext, caller

LEMMA SrTurns ==
  ASSUME Core, DetachPart, SrNext
  PROVE  Turns({"sr_read", "sr_write"})
<1> DEFINE F == {"sr_read", "sr_write"}
<1>1. ASSUME NEW t \in Running, NEW n, SrRead(t, n) \/ SrWrite(t, n) PROVE Turns(F)
  <2>1. PICK op : \E p \in {"sr_get", "sr_put"} : SrStarts(t, op, n, p)
    BY <1>1 DEF SrRead, SrWrite
  <2>2. t \in Thread /\ call'[t].op \in F /\ pc[t] # "again"
    <3>1. t \in Thread /\ DOMAIN call = Thread
      BY PlaceTypes DEF Core, PlacePart
    <3>2. PICK o \in F : SrStarts(t, o, n, IF o = "sr_read" THEN "sr_get" ELSE "sr_put")
      BY <1>1 DEF SrRead, SrWrite
    <3>3. call'[t] = SrCall(o, n) /\ pc[t] = "run"
      BY <3>1, <3>2 DEF SrStarts, Starts, At
    <3>. QED BY <3>1, <3>2, <3>3 DEF SrCall
  <2>. QED BY <2>1, <2>2, InTurns DEF SrStarts
<1>2. ASSUME NEW t \in Running, SrGet(t) \/ SrPut(t) PROVE Turns(F)
  <2>1. t = k.cur /\ t \in Thread /\ pc' = pc /\ pc[t] \in {"sr_get", "sr_put"}
    BY <1>2, PlaceTypes DEF SrGet, SrPut, Running, At
  <2>2. call'[t].op \in F
    <3>1. call[t].op \in F /\ call[t] \in SerialCall(F)
      BY <2>1 DEF Core, PlacePart, CallFits, SerialCall
    <3>2. PICK c, d : c = call[t] /\ d = call'[t]
      OBVIOUS
    <3>3. d = [c EXCEPT !.arg = @ - 1, !.some = TRUE] \/ d = [c EXCEPT !.arg = @ - 1]
      BY <1>2, <2>1, <3>2 DEF SrGet, SrPut, Core, PlacePart
    <3>4. d.op = c.op
      BY <3>1, <3>2, <3>3 DEF SerialCall
    <3>. QED BY <3>1, <3>2, <3>4
  <2>. QED BY <2>1, <2>2 DEF Turns, Leaves, Joins, DetachFits, WaitPlaces
<1>3. ASSUME NEW t, SrFlush(t) PROVE Turns({})
  BY <1>3, RestTurns DEF SrFlush, caller
<1>4. ASSUME NEW t \in Running,
             \/ SrReadEnd(t) \/ SrReadNone(t) \/ SrPutRefused(t) \/ SrPutAgain(t) \/ SrPutWaited(t)
             \/ SrWritten(t)
      PROVE  Turns(F)
  <2>1. CASE SrReadEnd(t) \/ SrWritten(t)
    <3>1. pc[t] # "again" /\ Goto(t, "run")
      BY <2>1 DEF SrReadEnd, SrWritten, SrReturns, At
    <3>. QED BY <3>1, GoTurns
  <2>2. CASE SrReadNone(t) \/ SrPutRefused(t) \/ SrPutAgain(t) \/ SrPutWaited(t)
    <3>1. \E p \in {"sr_wait", "sr_busy", "sr_put"} : Goto(t, p)
      BY <2>2 DEF SrReadNone, SrPutRefused, SrPutAgain, SrPutWaited
    <3>2. call[t].op \in F
      BY <2>2, InSerial DEF SrReadNone, SrPutRefused, SrPutAgain, SrPutWaited, At, SerialCall
    <3>3. call' = call
      BY <2>2 DEF SrReadNone, SrPutRefused, SrPutAgain, SrPutWaited
    <3>. QED BY <3>1, <3>2, <3>3, InTurns
  <2>. QED BY <1>4, <2>1, <2>2
<1>5. ASSUME NEW t \in Running, SrWait(t) PROVE Turns(F)
  <2>1. call[t].op \in F /\ pc[t] # "again"
    BY <1>5, InSerial DEF SrWait, At, SerialCall
  <2>2. CASE WqPass(t, "serial", "sr_get")
    BY <2>1, <2>2, InTurns DEF WqPass
  <2>3. CASE WqBlock(t, "serial")
    BY <2>1, <2>3, BlockTurns DEF WqBlock
  <2>. QED BY <1>5, <2>2, <2>3 DEF SrWait
<1>6. ASSUME NEW t \in Running, SrWaited(t) PROVE Turns(F)
  <2>1. \E p \in {"unqueue", "sr_get"} : Goto(t, p)
    BY <1>6 DEF SrWaited, WqReturn, WqUnqueue
  <2>2. call[t].op \in F /\ call' = call
    BY <1>6 DEF SrWaited, WqReturn, WqUnqueue
  <2>. QED BY <2>1, <2>2, InTurns
<1>7. ASSUME NEW t \in Running, SrPutWait(t) PROVE Turns(F)
  <2>1. call[t].op \in F /\ pc[t] # "again"
    BY <1>7, InSerial DEF SrPutWait, At, SerialCall
  <2>. QED BY <1>7, <2>1, BlockTurns DEF SrPutWait
<1>8. ASSUME NEW s, SrIsrReceive(s) \/ SrIsrSent PROVE Turns({})
  BY <1>8, RestTurns DEF SrIsrReceive, SrIsrSent
<1>9. ASSUME NEW c, SrIdleStore(c) \/ SrIdleLength \/ SrIdleWake PROVE Turns(F)
  <2>1. Idle \in Running /\ pc[Idle] # "again"
    BY <1>9 DEF SrIdleStore, SrIdleLength, SrIdleWake, At, Running
  <2>2. \E p \in {"sr_length", "run", "sr_wake"} : Goto(Idle, p)
    BY <1>9 DEF SrIdleStore, SrIdleLength, SrIdleWake
  <2>. QED BY <2>1, <2>2, GoTurns
<1>10. ASSUME Turns({}) PROVE Turns(F)
  BY <1>10, TurnsMore
<1> HIDE DEF F
<1>11. Turns(F)
  BY <1>1, <1>2, <1>3, <1>4, <1>5, <1>6, <1>7, <1>8, <1>9, <1>10 DEF SrNext
<1>. QED BY <1>11 DEF F

LEMMA OnTurns ==
  ASSUME Core, DetachPart, OnNext
  PROVE  Turns(OnOps)
<1>0. \A p \in OnPlaces \cup {"ret", "run"} :
        p \notin {"schedule", "again", "unqueue", "sr_get", "sr_wait", "sr_put", "sr_busy",
                 "detach", "wake"}
  BY DEF OnPlaces
<1>1. ASSUME NEW t, CisNext \/ OnDelete(t) PROVE Turns({})
  <2>1. CallsKept(Thread)
    <3>1. CASE CisSend
      BY <3>1, EvPassKeeps DEF CisSend
    <3>2. CASE call' = call
      BY <3>2 DEF CallsKept, CallKept, Core, PlacePart
    <3>. QED BY <1>1, <3>1, <3>2 DEF CisNext, OnDelete, caller
  <2>. QED BY <1>1, <2>1, SitTurns DEF CisNext, CisSend, OnDelete, caller
<1>2. ASSUME NEW t \in Running, OnRecvWait(t) PROVE Turns(OnOps)
  <2>1. call[t].op \in OnOps /\ pc[t] # "again"
    BY <1>2, InClient DEF OnRecvWait, At, OnPlaces
  <2>. QED BY <1>2, <2>1, BlockTurns DEF OnRecvWait, WaitOn
<1>3. ASSUME NEW t \in Running, NEW c, NEW p \in OnPlaces, OnGoes(t, c, p),
             pc[t] = "again" => call[t].op \in OnOps
      PROVE  Turns(OnOps)
  BY <1>0, <1>3, GoTurns DEF OnGoes
<1>4. ASSUME NEW t \in Running, NEW op, NEW result, OnReturns(t, op, result),
             pc[t] = "again" => call[t].op \in OnOps
      PROVE  Turns(OnOps)
  BY <1>4, FinishTurns DEF OnReturns
<1>5. ASSUME NEW t \in Running, NEW op, NEW far, OnOpenFails(t, op, far),
             pc[t] = "again" => call[t].op \in OnOps
      PROVE  Turns(OnOps)
  BY <1>3, <1>4, <1>5 DEF OnOpenFails, OnPlaces
<1>6. ASSUME NEW t, NEW op, OnBegins(t, op) PROVE pc[t] # "again"
  BY <1>6 DEF OnBegins, Starts, At
<1>7. ASSUME NEW t \in Running, OnStart(t) PROVE Turns(OnOps)
  <2>1. pc[t] # "again"
    BY <1>6, <1>7 DEF OnStart
  <2>2. CASE OnGoes(t, OnCall("on_start", RegBit), "on_objects")
    BY <1>3, <2>1, <2>2 DEF OnPlaces
  <2>3. CASE OnOpenFails(t, "on_start", on.far)
    BY <1>5, <2>1, <2>3
  <2>. QED BY <1>7, <2>2, <2>3 DEF OnStart
<1>8. ASSUME NEW t \in Running, NEW op, NEW r, NEW bits,
             \/ OnOpen(t, op) \/ OnClose(t, op) \/ OnRequest(t, op, r, bits)
      PROVE  Turns(OnOps)
  <2>1. pc[t] # "again"
    BY <1>6, <1>8 DEF OnOpen, OnClose, OnRequest, At
  <2>2. ASSUME NEW c, NEW p \in {"on_asked", "on_recv"}, OnGoes(t, c, p) PROVE Turns(OnOps)
    BY <1>3, <2>1, <2>2 DEF OnPlaces
  <2>3. ASSUME OnOpen(t, op) PROVE Turns(OnOps)
    BY <1>5, <2>1, <2>2, <2>3 DEF OnOpen
  <2>4. ASSUME OnClose(t, op) \/ OnRequest(t, op, r, bits) PROVE Turns(OnOps)
    BY <1>4, <2>1, <2>2, <2>4 DEF OnClose, OnRequest
  <2>. QED BY <1>8, <2>3, <2>4
<1>9. ASSUME NEW t \in Running, OnObjects(t) \/ OnAsked(t) \/ OnRecv(t) \/ OnReceived(t)
      PROVE  Turns(OnOps)
  <2>1. pc[t] = "again" => call[t].op \in OnOps
    BY <1>9 DEF OnObjects, OnAsked, OnRecv, OnReceived, At
  <2>2. \E c, p : OnGoes(t, c, p) /\ p \in OnPlaces
    BY <1>9 DEF OnObjects, OnAsked, OnRecv, OnReceived, OnPlaces
  <2>. QED BY <1>3, <2>1, <2>2
<1>10. ASSUME NEW t \in Running, OnTimeout(t) PROVE Turns(OnOps)
  <2>1. pc[t] = "again" => call[t].op \in OnOps
    BY <1>10 DEF OnTimeout
  <2>2. (\E op, far : OnOpenFails(t, op, far)) \/ (\E op, result : OnReturns(t, op, result))
    BY <1>10 DEF OnTimeout
  <2>. QED BY <1>4, <1>5, <2>1, <2>2
<1>11. ASSUME NEW t \in Running,
             \/ OnRegistered(t) \/ OnObserved(t) \/ OnDiscovered(t)
             \/ OnClosed(t) \/ OnUpdated(t) \/ OnNotified(t)
      PROVE  Turns(OnOps)
  <2>1. pc[t] # "again"
    BY <1>11 DEF OnRegistered, OnObserved, OnDiscovered, OnClosed, OnUpdated, OnNotified,
                 Received, At
  <2>2. ASSUME NEW c, OnGoes(t, c, "on_recv") PROVE Turns(OnOps)
    BY <1>3, <2>1, <2>2 DEF OnPlaces
  <2>3. ASSUME OnRegistered(t) \/ OnObserved(t) \/ OnDiscovered(t) PROVE Turns(OnOps)
    BY <1>4, <1>5, <2>1, <2>2, <2>3 DEF OnRegistered, OnObserved, OnDiscovered
  <2>4. ASSUME OnClosed(t) \/ OnUpdated(t) \/ OnNotified(t) PROVE Turns(OnOps)
    BY <1>4, <2>1, <2>4 DEF OnClosed, OnUpdated, OnNotified
  <2>. QED BY <1>11, <2>3, <2>4
<1>12. ASSUME Turns({}) PROVE Turns(OnOps)
  BY <1>12, TurnsMore
<1>. QED BY <1>1, <1>2, <1>7, <1>8, <1>9, <1>10, <1>11, <1>12 DEF OnNext

-----------------------------------------------------------------------------
\* Who waits, but for the lock of a pipe, has no error
ErrPart ==
  \A w \in WaitList, t \in Thread : w # "pp" /\ Contains(k.wait[w], t) => k.err[t] = "EOK"

\* The suspend list w gets nobody new
Shrinks(w) == \A u : Contains(k'.wait[w], u) => Contains(k.wait[w], u)

\* The running thread comes to wait in this step
Sits == pc[k.cur] # "schedule" /\ pc'[k.cur] = "schedule"

\* The first waiter of w is resumed with the error it has
FirstWoken(w) ==
  k.wait[w] # <<>> =>
    k'.stat[Head(k.wait[w])] = "ready" /\ k'.err[Head(k.wait[w])] = k.err[Head(k.wait[w])]

\* Who waits on w is in a call of O, and w is no lock
Serves(w, O) == w \in WaitList /\ w # "pp" /\ \A op : <<w, op>> \in WaitPairs => op \in O

\* Nobody who waits on w, in a call of O, waits beside m things that nobody comes to take
Supplied(w, O, m) == k.wait[w] # <<>> => m <= Cardinality(Underway(O))

LEMMA ErrStays ==
  ASSUME Core, CoreStep, ErrPart
  PROVE  ErrPart'
<1> SUFFICES ASSUME NEW w \in WaitList, NEW t \in Thread, w # "pp", Contains(k'.wait[w], t)
             PROVE  k'.err[t] = "EOK"
  BY DEF ErrPart
<1>1. CASE Contains(k.wait[w], t)
  <2>1. k'.stat[t] = "suspend"
    BY WaiterSuspended DEF CoreStep, Core, RunningPart
  <2>2. k.stat[t] # "ready"
    BY <1>1, KernelFunctions DEF Core
  <2>3. k'.err[t] = k.err[t]
    BY <2>1, <2>2 DEF CoreStep, FlowStates, Blocked
  <2>. QED BY <1>1, <2>3 DEF ErrPart
<1>2. CASE ~Contains(k.wait[w], t)
  BY <1>2 DEF CoreStep, FlowLists
<1>. QED BY <1>1, <1>2

LEMMA DetachStays ==
  ASSUME Core, CoreStep, DetachPart, NEW F, Turns(F)
  PROVE  DetachPart'
<1> SUFFICES ASSUME NEW t \in Thread PROVE DetachFits(pc'[t], call'[t])
  BY DEF DetachPart
<1>1. CASE t = k.cur
  BY <1>1 DEF Turns
<1>2. CASE t = Idle
  BY <1>2 DEF CoreStep, Core, PlacePart, DetachFits
<1>3. CASE t \notin {k.cur, Idle}
  <2>1. pc'[t] = pc[t] /\ CallKept(t)
    BY <1>3 DEF CoreStep, FlowPlaces
  <2>2. DetachFits(pc[t], call[t])
    BY DEF DetachPart
  <2>. QED BY <2>1, <2>2 DEF CallKept, DetachFits
<1>. QED BY <1>1, <1>2, <1>3

LEMMA UnderwayCounts ==
  ASSUME NEW O
  PROVE  /\ IsFiniteSet(Underway(O)) /\ Cardinality(Underway(O)) \in Nat
         /\ IsFiniteSet(Underway(O)') /\ Cardinality(Underway(O)') \in Nat
<1>1. Underway(O) \in SUBSET Thread /\ Underway(O)' \in SUBSET Thread
  BY DEF Underway
<1>. QED BY <1>1, KernelAssumption, FS_Subset, FS_CardinalityType

\* The others that are on their way stay on it
LEMMA OthersUnderway ==
  ASSUME Core, CoreStep, NEW O
  PROVE  Underway(O) \ {k.cur} \subseteq Underway(O)'
<1> SUFFICES ASSUME NEW u \in Underway(O), u # k.cur PROVE u \in Underway(O)'
  OBVIOUS
<1>1. /\ u \in Thread /\ pc[u] \in {"schedule", "again"} /\ call[u].op \in O
      /\ k.stat[u] = "ready" /\ k.err[u] = "EOK"
  BY DEF Underway
<1>2. u # Idle
  BY <1>1 DEF Core, PlacePart
<1>3. pc'[u] = pc[u] /\ CallKept(u)
  BY <1>1, <1>2 DEF CoreStep, FlowPlaces
<1>4. call'[u].op \in O
  BY <1>1, <1>3 DEF CallKept
<1>5. k'.stat[u] = "ready" /\ k'.err[u] = "EOK"
  BY <1>1 DEF CoreStep, FlowStates, Blocked
<1>. QED BY <1>1, <1>3, <1>4, <1>5 DEF Underway

\* ... and all of them where the running thread does not give up
LEMMA AllUnderway ==
  ASSUME Core, CoreStep, NEW O,
         k.cur \notin Underway(O) \/ (\E F : Leaves(F) /\ F \cap O = {})
  PROVE  Underway(O) \subseteq Underway(O)'
<1>1. CASE k.cur \notin Underway(O)
  BY <1>1, OthersUnderway
<1>2. CASE k.cur \in Underway(O)
  <2> DEFINE u == k.cur
  <2>1. /\ u \in Thread /\ pc[u] \in {"schedule", "again"} /\ call[u].op \in O
        /\ k.stat[u] = "ready" /\ k.err[u] = "EOK"
    BY <1>2 DEF Underway
  <2>2. PICK F : Leaves(F) /\ F \cap O = {}
    BY <1>2
  <2>3. pc'[u] \in {"schedule", "again"} /\ CallKept(u) /\ ~Blocked(u)
    <3>1. CASE pc[u] = "schedule"
      BY <2>1, <3>1 DEF CoreStep, FlowPlaces, Blocked
    <3>2. CASE pc[u] = "again"
      <4>1. call[u].op \notin F
        BY <2>1, <2>2
      <4>. QED BY <2>2, <3>2, <4>1 DEF Leaves, Blocked
    <3>. QED BY <2>1, <3>1, <3>2
  <2>4. call'[u].op \in O
    BY <2>1, <2>3 DEF CallKept
  <2>5. k'.stat[u] = "ready" /\ k'.err[u] = "EOK"
    BY <2>1, <2>3 DEF CoreStep, FlowStates
  <2>6. u \in Underway(O)'
    BY <2>1, <2>3, <2>4, <2>5 DEF Underway
  <2>. QED BY <2>6, OthersUnderway
<1>. QED BY <1>1, <1>2

LEMMA ListShrinks ==
  ASSUME Core, CoreStep, NEW w \in WaitList,
         ~Sits \/ (\E F : Joins(F) /\ \A op \in F : <<w, op>> \notin WaitPairs)
  PROVE  Shrinks(w)
<1> SUFFICES ASSUME NEW u, Contains(k'.wait[w], u), ~Contains(k.wait[w], u) PROVE FALSE
  BY DEF Shrinks
<1>1. u = k.cur /\ u \in Thread /\ pc[u] # "schedule" /\ pc'[u] = "schedule"
  BY KernelFunctions DEF CoreStep, FlowLists, Blocked, Core
<1>2. PICK F : Joins(F) /\ \A op \in F : <<w, op>> \notin WaitPairs
  BY <1>1 DEF Sits
<1>3. call'[u].op \in F
  BY <1>1, <1>2 DEF Joins, WaitPlaces
<1>4. <<w, call'[u].op>> \in WaitPairs
  BY <1>1 DEF CoreStep, Core, WaitingPart, WaitPairs
<1>. QED BY <1>2, <1>3, <1>4

\* A list that only shrinks was not empty before if it is not after
LEMMA ShrinksFrom ==
  ASSUME Core, CoreStep, NEW w \in WaitList, Shrinks(w), k'.wait[w] # <<>>
  PROVE  k.wait[w] # <<>>
<1>1. Contains(k'.wait[w], Head(k'.wait[w]))
  BY FirstWaiter DEF CoreStep, Core
<1>. QED BY <1>1, EmptyList DEF Shrinks

LEMMA OneLess ==
  ASSUME NEW U, IsFiniteSet(U), NEW V, IsFiniteSet(V), NEW x, U \ {x} \subseteq V
  PROVE  Cardinality(U) - 1 <= Cardinality(V)
<1>1. Cardinality(U) \in Nat /\ Cardinality(V) \in Nat
  BY FS_CardinalityType
<1>2. PICK W : W = U \ {x}
  OBVIOUS
<1>3. Cardinality(W) = IF x \in U THEN Cardinality(U) - 1 ELSE Cardinality(U)
  BY <1>2, FS_RemoveElement
<1>4. Cardinality(W) <= Cardinality(V)
  BY <1>2, FS_Subset
<1>5. Cardinality(U) - 1 <= Cardinality(W)
  BY <1>1, <1>3
<1>. QED BY <1>1, <1>3, <1>4, <1>5

\* Nothing comes and nobody turns away
LEMMA SupplyKept ==
  ASSUME Core, CoreStep, NEW w \in WaitList, NEW O, Shrinks(w), Underway(O) \subseteq Underway(O)',
         NEW m \in Int, NEW n \in Int, n <= m, Supplied(w, O, m)
  PROVE  k'.wait[w] # <<>> => n <= Cardinality(Underway(O)')
<1> SUFFICES ASSUME k'.wait[w] # <<>> PROVE n <= Cardinality(Underway(O)')
  OBVIOUS
<1>1. m <= Cardinality(Underway(O))
  BY ShrinksFrom DEF Supplied
<1>2. Cardinality(Underway(O)) <= Cardinality(Underway(O)')
  BY UnderwayCounts, FS_Subset
<1>. QED BY <1>1, <1>2, UnderwayCounts

\* The running thread takes one
LEMMA SupplyTaken ==
  ASSUME Core, CoreStep, NEW w \in WaitList, NEW O, Shrinks(w),
         NEW m \in Int, NEW n \in Int, n <= m - 1, Supplied(w, O, m)
  PROVE  k'.wait[w] # <<>> => n <= Cardinality(Underway(O)')
<1> SUFFICES ASSUME k'.wait[w] # <<>> PROVE n <= Cardinality(Underway(O)')
  OBVIOUS
<1> DEFINE U == Underway(O)
           V == Underway(O)'
<1>1. m <= Cardinality(U)
  BY ShrinksFrom DEF Supplied
<1>2. IsFiniteSet(U) /\ Cardinality(U) \in Nat /\ IsFiniteSet(V) /\ Cardinality(V) \in Nat
  BY UnderwayCounts
<1>3. U \ {k.cur} \subseteq V
  BY OthersUnderway
<1> HIDE DEF U, V
<1>4. Cardinality(U) - 1 <= Cardinality(V)
  BY <1>2, <1>3, OneLess
<1>5. n <= Cardinality(V)
  BY <1>1, <1>2, <1>4
<1>. QED BY <1>5 DEF V

\* One more comes, and the first waiter is woken for it
LEMMA SupplyGiven ==
  ASSUME Core, CoreStep, ErrPart, NEW w, NEW O, Serves(w, O), Shrinks(w), FirstWoken(w),
         Underway(O) \subseteq Underway(O)',
         NEW m \in Int, NEW n \in Int, n <= m + 1, Supplied(w, O, m)
  PROVE  k'.wait[w] # <<>> => n <= Cardinality(Underway(O)')
<1> SUFFICES ASSUME k'.wait[w] # <<>> PROVE n <= Cardinality(Underway(O)')
  OBVIOUS
<1> DEFINE U == Underway(O)
           V == Underway(O)'
           h == Head(k.wait[w])
<1>0. w \in WaitList /\ k.wait[w] # <<>>
  BY ShrinksFrom DEF Serves
<1>1. m <= Cardinality(U)
  BY <1>0 DEF Supplied
<1>2. IsFiniteSet(U) /\ Cardinality(U) \in Nat /\ IsFiniteSet(V) /\ Cardinality(V) \in Nat
  BY UnderwayCounts
<1>3. h \in Thread /\ Contains(k.wait[w], h)
  BY <1>0, FirstWaiter DEF Core
<1>4. k'.stat[h] = "ready" /\ k'.err[h] = "EOK"
  BY <1>0, <1>3 DEF FirstWoken, ErrPart, Serves
<1>5. pc[h] \in {"schedule", "again"} /\ call[h].op \in O /\ k.stat[h] = "suspend"
  BY <1>0, <1>3, WaiterSuspended DEF Core, RunningPart, WaitingPart, Serves
<1>6. h # Idle
  BY <1>5 DEF Core, PlacePart
<1>7. pc'[h] \in {"schedule", "again"} /\ CallKept(h)
  <2>1. CASE h # k.cur
    BY <1>3, <1>5, <1>6, <2>1 DEF CoreStep, FlowPlaces
  <2>2. CASE h = k.cur
    <3>1. pc[h] = "schedule"
      BY <1>5, <2>2 DEF Core, RunningPart
    <3>. QED BY <1>3, <2>2, <3>1 DEF CoreStep, FlowPlaces
  <2>. QED BY <2>1, <2>2
<1>8. call'[h].op \in O
  BY <1>5, <1>7 DEF CallKept
<1>9. h \in V /\ h \notin U
  BY <1>3, <1>4, <1>5, <1>7, <1>8 DEF Underway
<1>10. U \subseteq V
  OBVIOUS
<1> HIDE DEF U, V, h
<1>11. Cardinality(U \cup {h}) = Cardinality(U) + 1
  BY <1>2, <1>9, FS_AddElement
<1>12. Cardinality(U \cup {h}) <= Cardinality(V)
  <2>1. U \cup {h} \in SUBSET V
    BY <1>9, <1>10
  <2>. QED BY <1>2, <2>1, FS_Subset
<1>13. n <= Cardinality(V)
  BY <1>1, <1>2, <1>11, <1>12
<1>. QED BY <1>13 DEF V

\* There is nothing
LEMMA SupplyNone ==
  ASSUME NEW O, NEW n \in Int, n <= 0
  PROVE  n <= Cardinality(Underway(O)')
BY UnderwayCounts

LEMMA WakesFirst ==
  ASSUME Core, NEW w \in WaitList,
         k' = WakeOne(k, w) \/ k' = Schedule(WakeOne(k, w)) \/ (k.wait[w] = <<>> /\ k' = k)
  PROVE  FirstWoken(w)
<1> SUFFICES ASSUME k.wait[w] # <<>>
             PROVE  /\ k'.stat[Head(k.wait[w])] = "ready"
                    /\ k'.err[Head(k.wait[w])] = k.err[Head(k.wait[w])]
  BY DEF FirstWoken
<1>1. PICK h : h = Head(k.wait[w])
  OBVIOUS
<1>2. h \in Thread /\ k.stat[h] = "suspend" /\ KernelInv(k, {})
  BY <1>1, FirstWaiter, WaiterSuspended DEF Core, RunningPart
<1>3. PICK z : z = Resume(k, h)
  OBVIOUS
<1>4. WakeOne(k, w) = z
  BY <1>1, <1>3 DEF WakeOne, ResumeFirst
<1>5. KernelInv(z, {}) /\ z.stat[h] = "ready" /\ z.err = k.err
  <2>1. KernelInv(z, {}) /\ Woken(k, z, h)
    BY <1>2, <1>3, ResumeKeeps
  <2>. QED BY <1>2, <2>1, KernelFunctions DEF Woken
<1>6. PICK y : y = Schedule(z)
  OBVIOUS
<1>7. y.stat = z.stat /\ y.err = z.err
  <2>1. y = [z EXCEPT !.cur = y.cur]
    BY <1>5, <1>6, ScheduleKeeps
  <2>. QED BY <1>5, <2>1 DEF KernelInv, KernelType
<1>. QED BY <1>1, <1>4, <1>5, <1>6, <1>7

-----------------------------------------------------------------------------
\* The calls that wait on each list
LEMMA PairsAre ==
  \A op :
    /\ <<"mb.recv", op>> \in WaitPairs <=> op = "mb_recv"
    /\ <<"mb.send", op>> \in WaitPairs <=> op = "mb_send"
    /\ <<"mq", op>> \in WaitPairs <=> op = "mq_recv"
    /\ <<"ev", op>> \in WaitPairs <=> op \in {"ev_recv"} \cup OnOps
    /\ <<"mp", op>> \in WaitPairs <=> op = "mp_alloc"
    /\ <<"dq.push", op>> \in WaitPairs <=> op = "dq_push"
    /\ <<"dq.pop", op>> \in WaitPairs <=> op = "dq_pop"
    /\ <<"cp", op>> \in WaitPairs <=> op \in {"cp_wait", "sr_write"}
BY DEF WaitPairs

\* A step of other calls than those of O
LEMMA AsideKeeps ==
  ASSUME Core, CoreStep, NEW w, NEW O, Serves(w, O), NEW F, Turns(F), F \cap O = {}
  PROVE  Shrinks(w) /\ Underway(O) \subseteq Underway(O)'
<1>1. Leaves(F) /\ Joins(F) /\ w \in WaitList
  BY DEF Turns, Serves
<1>2. \A op \in F : <<w, op>> \notin WaitPairs
  BY DEF Serves
<1>. QED BY <1>1, <1>2, AllUnderway, ListShrinks

LEMMA SupplyAside ==
  ASSUME Core, CoreStep, NEW w, NEW O, Serves(w, O), NEW F, Turns(F), F \cap O = {},
         NEW m \in Int, NEW n \in Int, n <= m, Supplied(w, O, m)
  PROVE  k'.wait[w] # <<>> => n <= Cardinality(Underway(O)')
<1>1. Shrinks(w) /\ Underway(O) \subseteq Underway(O)' /\ w \in WaitList
  BY AsideKeeps DEF Serves
<1>. QED BY <1>1, SupplyKept

LEMMA NotSits ==
  ASSUME NEW t \in Running, pc \in [Thread -> AllLabels], k.cur \in Thread,
         NEW p, p # "schedule", Goto(t, p)
  PROVE  ~Sits
BY DEF Running, Goto, Sits

\* A call that ends gets nobody on a list, and if with an error takes nothing
LEMMA EndSits ==
  ASSUME Core, NEW t \in Running, Fail(t) \/ Refuse(t) \/ \E woke, v : Finish(t, woke, v)
  PROVE  ~Sits
<1>1. ASSUME NEW woke, NEW v, Finish(t, woke, v) PROVE ~Sits
  <2>1. PICK p : p = IF woke THEN "post" ELSE IF v # None THEN "ret" ELSE "run"
    OBVIOUS
  <2>2. Goto(t, p) /\ p # "schedule"
    BY <1>1, <2>1 DEF Finish
  <2>. QED BY <2>2, NotSits, KernelFunctions DEF Core, PlacePart
<1>2. ASSUME Fail(t) \/ Refuse(t) PROVE ~Sits
  BY <1>2, NotSits, KernelFunctions DEF Core, PlacePart, Fail, Refuse
<1>. QED BY <1>1, <1>2

LEMMA FailedAway ==
  ASSUME NEW t \in Running, NEW O, Failed(t)
  PROVE  k.cur \notin Underway(O)
BY DEF Underway, Failed, At, Running

-----------------------------------------------------------------------------
LEMMA MbServes == Serves("mb.recv", {"mb_recv"}) /\ Serves("mb.send", {"mb_send"})
<1>1. "mb.recv" \in WaitList /\ "mb.send" \in WaitList
  BY MailboxAssumption
<1>2. \A op : <<"mb.recv", op>> \in WaitPairs => op \in {"mb_recv"}
  BY PairsAre
<1>3. \A op : <<"mb.send", op>> \in WaitPairs => op \in {"mb_send"}
  BY PairsAre
<1>. QED BY <1>1, <1>2, <1>3 DEF Serves

LEMMA MbMeans ==
  MbNobodyStranded <=> /\ Supplied("mb.recv", {"mb_recv"}, mb.entry)
                       /\ Supplied("mb.send", {"mb_send"}, MbSize - mb.entry)
BY DEF MbNobodyStranded, Supplied

LEMMA MbUnstranded ==
  ASSUME Core, CoreStep, ErrPart, DetachPart, MbPart, MbNobodyStranded, MbNext
  PROVE  MbNobodyStranded'
<1> DEFINE n == mb.entry
           R == {"mb_recv"}
           S == {"mb_send"}
<1>0. MbSize \in Nat /\ mb \in MbState /\ n \in 0..MbSize /\ MbSize - n \in Int
  BY MbSizes DEF MbPart, MbIs, MbState
<1>1. /\ Supplied("mb.recv", R, n) /\ Supplied("mb.send", S, MbSize - n)
      /\ Serves("mb.recv", R) /\ Serves("mb.send", S)
      /\ "mb.recv" \in WaitList /\ "mb.send" \in WaitList
  BY MbMeans, MbServes DEF Serves
<1>2. ASSUME NEW t \in Running, NEW c \in SendMail, MbSend(t, c) PROVE MbNobodyStranded'
  <2>1. Turns(S) /\ ~Sits /\ FirstWoken("mb.recv")
    BY <1>1, <1>2, MbSendTurns, EndSits, WakesFirst DEF MbSend
  <2>2. mb'.entry = n + 1 /\ n + 1 \in Int /\ MbSize - (n + 1) \in Int
    <3>1. mb'.entry = n + 1
      BY <1>0, <1>2 DEF MbSend, Stored, MbState
    <3>. QED BY <1>0, <3>1
  <2>3. Shrinks("mb.send") /\ Shrinks("mb.recv") /\ Underway(R) \subseteq Underway(R)'
    BY <1>1, <2>1, ListShrinks, AsideKeeps
  <2>4. k'.wait["mb.recv"] # <<>> => n + 1 <= Cardinality(Underway(R)')
    BY <1>0, <1>1, <2>1, <2>2, <2>3, SupplyGiven
  <2>5. k'.wait["mb.send"] # <<>> => MbSize - (n + 1) <= Cardinality(Underway(S)')
    <3>1. MbSize - (n + 1) <= (MbSize - n) - 1
      BY <1>0
    <3>. QED BY <1>0, <1>1, <2>2, <2>3, <3>1, SupplyTaken
  <2>. QED BY <2>2, <2>4, <2>5 DEF MbNobodyStranded
<1>3. ASSUME NEW t \in Running, NEW c \in SendMail, MbSendWait(t, c) \/ MbSendRefused(t, c)
      PROVE  MbNobodyStranded'
  <2>1. Turns(S) /\ mb' = mb /\ n = MbSize
    BY <1>3, MbSendTurns DEF MbSendWait, MbSendRefused
  <2>2. k'.wait["mb.recv"] # <<>> => n <= Cardinality(Underway(R)')
    BY <1>0, <1>1, <2>1, SupplyAside
  <2>3. MbSize - n <= Cardinality(Underway(S)')
    BY <1>0, <2>1, SupplyNone
  <2>. QED BY <2>1, <2>2, <2>3 DEF MbNobodyStranded
<1>4. ASSUME NEW v, MbIsrSend(v) PROVE MbNobodyStranded'
  <2>1. Turns({}) /\ FirstWoken("mb.recv")
    BY <1>1, <1>4, RestTurns, WakesFirst DEF MbIsrSend
  <2>2. mb'.entry = n + 1 /\ n + 1 \in Int /\ MbSize - (n + 1) \in Int
    <3>1. mb'.entry = n + 1
      BY <1>0, <1>4 DEF MbIsrSend, Stored, MbState
    <3>. QED BY <1>0, <3>1
  <2>3. Shrinks("mb.recv") /\ Underway(R) \subseteq Underway(R)'
    BY <1>1, <2>1, AsideKeeps
  <2>4. k'.wait["mb.recv"] # <<>> => n + 1 <= Cardinality(Underway(R)')
    BY <1>0, <1>1, <2>1, <2>2, <2>3, SupplyGiven
  <2>5. k'.wait["mb.send"] # <<>> => MbSize - (n + 1) <= Cardinality(Underway(S)')
    <3>1. MbSize - (n + 1) <= MbSize - n
      BY <1>0
    <3>. QED BY <1>0, <1>1, <2>1, <2>2, <3>1, SupplyAside
  <2>. QED BY <2>2, <2>4, <2>5 DEF MbNobodyStranded
<1>5. ASSUME NEW t \in Running, NEW c \in RecvMail, MbRecv(t, c) PROVE MbNobodyStranded'
  <2>1. Turns(R) /\ ~Sits /\ FirstWoken("mb.send")
    BY <1>1, <1>5, MbRecvTurns, EndSits, WakesFirst DEF MbRecv
  <2>2. mb'.entry = n - 1 /\ n - 1 \in Int /\ MbSize - (n - 1) \in Int
    BY <1>0, <1>5 DEF MbRecv, MbState
  <2>3. Shrinks("mb.send") /\ Shrinks("mb.recv") /\ Underway(S) \subseteq Underway(S)'
    BY <1>1, <2>1, ListShrinks, AsideKeeps
  <2>4. k'.wait["mb.recv"] # <<>> => n - 1 <= Cardinality(Underway(R)')
    BY <1>0, <1>1, <2>2, <2>3, SupplyTaken
  <2>5. k'.wait["mb.send"] # <<>> => MbSize - (n - 1) <= Cardinality(Underway(S)')
    <3>1. MbSize - (n - 1) <= (MbSize - n) + 1
      BY <1>0
    <3>. QED BY <1>0, <1>1, <2>1, <2>2, <2>3, <3>1, SupplyGiven
  <2>. QED BY <2>2, <2>4, <2>5 DEF MbNobodyStranded
<1>6. ASSUME NEW t \in Running, NEW c \in RecvMail, MbRecvWait(t, c) \/ MbRecvRefused(t, c)
      PROVE  MbNobodyStranded'
  <2>1. Turns(R) /\ mb' = mb /\ n = 0
    BY <1>6, MbRecvTurns DEF MbRecvWait, MbRecvRefused
  <2>2. k'.wait["mb.send"] # <<>> => MbSize - n <= Cardinality(Underway(S)')
    BY <1>0, <1>1, <2>1, SupplyAside
  <2>3. n <= Cardinality(Underway(R)')
    BY <1>0, <2>1, SupplyNone
  <2>. QED BY <2>1, <2>2, <2>3 DEF MbNobodyStranded
<1>7. ASSUME NEW t \in Running, MbFail(t) PROVE MbNobodyStranded'
  <2>1. ~Sits /\ mb' = mb /\ k.cur \notin Underway(R) /\ k.cur \notin Underway(S)
    BY <1>7, EndSits, FailedAway DEF MbFail
  <2>2. /\ Shrinks("mb.recv") /\ Shrinks("mb.send")
        /\ Underway(R) \subseteq Underway(R)' /\ Underway(S) \subseteq Underway(S)'
    BY <1>1, <2>1, ListShrinks, AllUnderway
  <2>3. k'.wait["mb.recv"] # <<>> => n <= Cardinality(Underway(R)')
    BY <1>0, <1>1, <2>2, SupplyKept
  <2>4. k'.wait["mb.send"] # <<>> => MbSize - n <= Cardinality(Underway(S)')
    BY <1>0, <1>1, <2>2, SupplyKept
  <2>. QED BY <2>1, <2>3, <2>4 DEF MbNobodyStranded
<1>8. ASSUME NEW t \in Running, MbReset(t) PROVE MbNobodyStranded'
  BY <1>8, MailResets DEF MbReset, MbNobodyStranded
<1>9. ASSUME NEW t \in Running, MbDetach(t) PROVE MbNobodyStranded'
  <2>1. Turns({}) /\ mb' = mb
    BY <1>9, DetachTurns DEF MbDetach
  <2>2. k'.wait["mb.recv"] # <<>> => n <= Cardinality(Underway(R)')
    BY <1>0, <1>1, <2>1, SupplyAside
  <2>3. k'.wait["mb.send"] # <<>> => MbSize - n <= Cardinality(Underway(S)')
    BY <1>0, <1>1, <2>1, SupplyAside
  <2>. QED BY <2>1, <2>2, <2>3 DEF MbNobodyStranded
<1>. QED BY <1>2, <1>3, <1>4, <1>5, <1>6, <1>7, <1>8, <1>9 DEF MbNext

\* ... and what the calls of other objects do
LEMMA MbAside ==
  ASSUME Core, CoreStep, MbPart, MbNobodyStranded, mb' = mb,
         NEW F, Turns(F), F \cap {"mb_send", "mb_recv"} = {}
  PROVE  MbNobodyStranded'
<1> DEFINE n == mb.entry
           R == {"mb_recv"}
           S == {"mb_send"}
<1>0. MbSize \in Nat /\ mb \in MbState /\ n \in 0..MbSize /\ MbSize - n \in Int
  BY MbSizes DEF MbPart, MbIs, MbState
<1>1. /\ Supplied("mb.recv", R, n) /\ Supplied("mb.send", S, MbSize - n)
      /\ Serves("mb.recv", R) /\ Serves("mb.send", S) /\ F \cap R = {} /\ F \cap S = {}
  BY MbMeans, MbServes
<1>2. k'.wait["mb.recv"] # <<>> => n <= Cardinality(Underway(R)')
  BY <1>0, <1>1, SupplyAside
<1>3. k'.wait["mb.send"] # <<>> => MbSize - n <= Cardinality(Underway(S)')
  BY <1>0, <1>1, SupplyAside
<1>. QED BY <1>2, <1>3 DEF MbNobodyStranded

-----------------------------------------------------------------------------
LEMMA MqServes == Serves("mq", {"mq_recv"})
<1>1. "mq" \in WaitList
  BY MessageQueueAssumption
<1>2. \A op : <<"mq", op>> \in WaitPairs => op \in {"mq_recv"}
  BY PairsAre
<1>. QED BY <1>1, <1>2 DEF Serves

LEMMA MqCounts ==
  ASSUME MqPart
  PROVE  mq \in MqState /\ mq.entry \in Nat
<1>1. PICK w, f : BlocksIn(mq, InHand, w, f) /\ QueueOf(mq, w)
  BY DEF MqPart, MqHolds
<1>. QED BY <1>1 DEF BlocksIn, QueueOf

LEMMA MqAside ==
  ASSUME Core, CoreStep, MqPart, MqNobodyStranded, mq'.entry = mq.entry,
         NEW F, Turns(F), F \cap {"mq_recv"} = {}
  PROVE  MqNobodyStranded'
<1> DEFINE n == mq.entry
           R == {"mq_recv"}
<1>1. n \in Int /\ n <= n /\ Supplied("mq", R, n) /\ Serves("mq", R)
  BY MqCounts, MqServes DEF MqNobodyStranded, Supplied
<1>2. k'.wait["mq"] # <<>> => n <= Cardinality(Underway(R)')
  BY <1>1, SupplyAside
<1>. QED BY <1>2 DEF MqNobodyStranded

LEMMA MqUnstranded ==
  ASSUME Core, CoreStep, ErrPart, DetachPart, MqPart, MqNobodyStranded, MqNext
  PROVE  MqNobodyStranded'
<1> DEFINE n == mq.entry
           R == {"mq_recv"}
<1>0. mq \in MqState /\ n \in Nat /\ n \in Int
  BY MqCounts
<1>1. Supplied("mq", R, n) /\ Serves("mq", R) /\ "mq" \in WaitList
  BY MqServes DEF MqNobodyStranded, Supplied, Serves
<1>2. ASSUME Turns({}), mq'.entry = n PROVE MqNobodyStranded'
  BY <1>2, MqAside
<1>3. ASSUME Turns({}), FirstWoken("mq"), mq'.entry = n + 1 PROVE MqNobodyStranded'
  <2>1. Shrinks("mq") /\ Underway(R) \subseteq Underway(R)'
    BY <1>1, <1>3, AsideKeeps
  <2>2. n + 1 \in Int /\ n + 1 <= n + 1
    BY <1>0
  <2>3. k'.wait["mq"] # <<>> => n + 1 <= Cardinality(Underway(R)')
    BY <1>0, <1>1, <1>3, <2>1, <2>2, SupplyGiven
  <2>. QED BY <1>3, <2>3 DEF MqNobodyStranded
<1>4. ASSUME NEW t \in Running, NEW c \in SendMessage, MqSend(t, c) PROVE MqNobodyStranded'
  <2>1. Turns({})
    BY <1>4, GoTurns DEF MqSend, Starts, At
  <2>2. mq'.entry = n
    BY <1>0, <1>4 DEF MqSend, Grabbed, MqState
  <2>. QED BY <1>2, <2>1, <2>2
<1>5. ASSUME NEW t \in Running, MqLink(t) PROVE MqNobodyStranded'
  <2>1. Turns({}) /\ FirstWoken("mq")
    BY <1>1, <1>5, FinishTurns, WakesFirst DEF MqLink, At
  <2>2. mq'.entry = n + 1
    BY <1>0, <1>5 DEF MqLink, Insert, Linked, LinkedFirst, MqState
  <2>. QED BY <1>3, <2>1, <2>2
<1>6. ASSUME NEW v, MqIsrSend(v) PROVE MqNobodyStranded'
  <2>1. Turns({}) /\ FirstWoken("mq")
    BY <1>1, <1>6, RestTurns, WakesFirst DEF MqIsrSend
  <2>2. mq'.entry = n + 1
    BY <1>0, <1>6 DEF MqIsrSend, Grabbed, Linked, MqState
  <2>. QED BY <1>3, <2>1, <2>2
<1>7. ASSUME NEW t \in Running, NEW c \in RecvMessage, MqRecv(t, c) PROVE MqNobodyStranded'
  <2>1. ~Sits
    BY <1>7, NotSits, KernelFunctions DEF MqRecv, Core, PlacePart
  <2>2. mq'.entry = n - 1 /\ n - 1 \in Int /\ n - 1 <= n - 1
    BY <1>0, <1>7 DEF MqRecv, Unlinked, MqState
  <2>3. Shrinks("mq")
    BY <1>1, <2>1, ListShrinks
  <2>4. k'.wait["mq"] # <<>> => n - 1 <= Cardinality(Underway(R)')
    BY <1>0, <1>1, <2>2, <2>3, SupplyTaken
  <2>. QED BY <2>2, <2>4 DEF MqNobodyStranded
<1>8. ASSUME NEW t \in Running, MqCopy(t) PROVE MqNobodyStranded'
  <2>1. Turns({})
    BY <1>8, FinishTurns DEF MqCopy, At
  <2>2. mq'.entry = n
    BY <1>0, <1>8 DEF MqCopy, Released, MqState
  <2>. QED BY <1>2, <2>1, <2>2
<1>9. ASSUME NEW t \in Running, NEW c \in RecvMessage, MqRecvWait(t, c) \/ MqRecvRefused(t, c)
      PROVE  MqNobodyStranded'
  <2>1. mq' = mq /\ n = 0
    BY <1>9 DEF MqRecvWait, MqRecvRefused
  <2>2. n <= Cardinality(Underway(R)')
    BY <1>0, <2>1, SupplyNone
  <2>. QED BY <2>1, <2>2 DEF MqNobodyStranded
<1>10. ASSUME NEW t \in Running, MqFail(t) PROVE MqNobodyStranded'
  <2>1. ~Sits /\ mq' = mq /\ k.cur \notin Underway(R)
    BY <1>10, EndSits, FailedAway DEF MqFail
  <2>2. Shrinks("mq") /\ Underway(R) \subseteq Underway(R)' /\ n <= n
    BY <1>0, <1>1, <2>1, ListShrinks, AllUnderway
  <2>3. k'.wait["mq"] # <<>> => n <= Cardinality(Underway(R)')
    BY <1>0, <1>1, <2>2, SupplyKept
  <2>. QED BY <2>1, <2>3 DEF MqNobodyStranded
<1>11. ASSUME NEW t \in Running, MqReset(t) PROVE MqNobodyStranded'
  <2>1. NoneClosed(k) /\ Wakes(k, k)
    BY NothingWakes DEF Core, RunningPart
  <2>2. k'.wait["mq"] = <<>>
    BY <1>1, <1>11, <2>1, WakeAllWakes DEF MqReset
  <2>. QED BY <2>2 DEF MqNobodyStranded
<1>12. ASSUME NEW t \in Running, MqDetach(t) PROVE MqNobodyStranded'
  BY <1>2, <1>12, DetachTurns DEF MqDetach
<1>. QED BY <1>4, <1>5, <1>6, <1>7, <1>8, <1>9, <1>10, <1>11, <1>12 DEF MqNext

-----------------------------------------------------------------------------
\* Who is in a list
Among(q) == {u \in Thread : Contains(q, u)}

LEMMA ListCounts ==
  ASSUME NEW q \in Seq(Thread)
  PROVE  IsFiniteSet(Among(q)) /\ Cardinality(Among(q)) \in Nat /\ Cardinality(Among(q)) <= Len(q)
<1> DEFINE n == Len(q)
<1>1. n \in Nat /\ IsFiniteSet(1..n) /\ Cardinality(1..n) = n
  <2>1. n \in Nat
    OBVIOUS
  <2>. QED BY <2>1, IndexCount
<1>2. q \in Surjection(1..n, Among(q))
  BY DEF Surjection, Among, Contains
<1>3. IsFiniteSet(Among(q)) /\ Cardinality(Among(q)) <= n
  BY <1>1, <1>2, FS_Surjection
<1>. QED BY <1>3, FS_CardinalityType

LEMMA FitsAmong ==
  ASSUME NEW q \in Seq(Thread), Distinct(q), NEW X \in SUBSET Thread, Among(q) \subseteq X
  PROVE  Len(q) <= Cardinality(X)
<1>1. IsFiniteSet(X) /\ Cardinality(X) \in Nat
  BY KernelAssumption, FS_Subset, FS_CardinalityType
<1>2. q \in Seq(X)
  <2>1. \A i \in 1..Len(q) : q[i] \in X
    BY DEF Among, Contains
  <2>2. q \in [1..Len(q) -> X] /\ Len(q) \in Nat
    BY <2>1
  <2>. QED BY <2>2
<1>. QED BY <1>1, <1>2, NoLonger

LEMMA WaitLists ==
  ASSUME Core, CoreStep, NEW w \in WaitList
  PROVE  /\ k.wait[w] \in Seq(Thread) /\ k'.wait[w] \in Seq(Thread) /\ Distinct(k'.wait[w])
         /\ Len(k.wait[w]) \in Nat /\ Len(k'.wait[w]) \in Nat
<1>1. k.wait \in [WaitList -> Seq(Thread)] /\ k'.wait \in [WaitList -> Seq(Thread)]
  BY KernelFunctions DEF Core, CoreStep
<1>2. Distinct(k'.wait[w])
  BY DEF Core, CoreStep, KernelInv, WaitListsExact
<1>3. k.wait[w] \in Seq(Thread) /\ k'.wait[w] \in Seq(Thread)
  BY <1>1
<1>. QED BY <1>2, <1>3

LEMMA NoMoreWait ==
  ASSUME Core, CoreStep, NEW w \in WaitList, Shrinks(w)
  PROVE  Len(k'.wait[w]) <= Len(k.wait[w])
<1>1. PICK q, r : q = k.wait[w] /\ r = k'.wait[w]
  OBVIOUS
<1>2. q \in Seq(Thread) /\ r \in Seq(Thread) /\ Distinct(r) /\ Len(q) \in Nat /\ Len(r) \in Nat
  BY <1>1, WaitLists
<1>3. Among(r) \subseteq Among(q) /\ Among(q) \in SUBSET Thread
  BY <1>1 DEF Among, Shrinks
<1>4. Len(r) <= Cardinality(Among(q))
  BY <1>2, <1>3, FitsAmong
<1>5. Cardinality(Among(q)) \in Nat /\ Cardinality(Among(q)) <= Len(q)
  BY <1>2, ListCounts
<1>. QED BY <1>1, <1>2, <1>4, <1>5

LEMMA OneMoreWaits ==
  ASSUME Core, CoreStep, NEW w \in WaitList
  PROVE  Len(k'.wait[w]) <= Len(k.wait[w]) + 1
<1>1. PICK q, r : q = k.wait[w] /\ r = k'.wait[w]
  OBVIOUS
<1>2. q \in Seq(Thread) /\ r \in Seq(Thread) /\ Distinct(r) /\ Len(q) \in Nat /\ Len(r) \in Nat
  BY <1>1, WaitLists
<1>3. PICK X : X = Among(q) \cup {k.cur}
  OBVIOUS
<1>4. k.cur \in Thread
  BY KernelFunctions DEF Core
<1>5. Among(r) \subseteq X /\ X \in SUBSET Thread
  BY <1>1, <1>3, <1>4 DEF Among, CoreStep, FlowLists, Blocked
<1>6. Len(r) <= Cardinality(X)
  BY <1>2, <1>5, FitsAmong
<1>7. IsFiniteSet(Among(q)) /\ Cardinality(Among(q)) \in Nat /\ Cardinality(Among(q)) <= Len(q)
  BY <1>2, ListCounts
<1>8. Cardinality(X) = IF k.cur \in Among(q) THEN Cardinality(Among(q)) ELSE Cardinality(Among(q)) + 1
  BY <1>3, <1>7, FS_AddElement
<1>9. Cardinality(X) <= Cardinality(Among(q)) + 1 /\ Cardinality(X) \in Nat
  BY <1>7, <1>8
<1>10. Len(r) <= Len(q) + 1
  BY <1>2, <1>6, <1>7, <1>9
<1>. QED BY <1>1, <1>10

LEMMA OneLessWaits ==
  ASSUME Core, CoreStep, NEW w \in WaitList, Shrinks(w), k.wait[w] # <<>>,
         k'.stat[Head(k.wait[w])] = "ready"
  PROVE  Len(k'.wait[w]) <= Len(k.wait[w]) - 1
<1>1. PICK q, r : q = k.wait[w] /\ r = k'.wait[w]
  OBVIOUS
<1>2. q \in Seq(Thread) /\ r \in Seq(Thread) /\ Distinct(r) /\ Len(q) \in Nat /\ Len(r) \in Nat
  BY <1>1, WaitLists
<1>3. PICK h : h = Head(q)
  OBVIOUS
<1>4. h \in Thread /\ Contains(q, h)
  BY <1>1, <1>3, FirstWaiter DEF Core
<1>5. ~Contains(r, h)
  BY <1>1, <1>3, <1>4, KernelFunctions DEF CoreStep, Core
<1>6. PICK X : X = Among(q) \ {h}
  OBVIOUS
<1>7. Among(r) \subseteq X /\ X \in SUBSET Thread /\ h \in Among(q)
  BY <1>1, <1>4, <1>5, <1>6 DEF Among, Shrinks
<1>8. Len(r) <= Cardinality(X)
  BY <1>2, <1>7, FitsAmong
<1>9. IsFiniteSet(Among(q)) /\ Cardinality(Among(q)) \in Nat /\ Cardinality(Among(q)) <= Len(q)
  BY <1>2, ListCounts
<1>10. Cardinality(X) = Cardinality(Among(q)) - 1
  BY <1>6, <1>7, <1>9, FS_RemoveElement
<1>11. Len(r) <= Len(q) - 1
  BY <1>2, <1>8, <1>9, <1>10
<1>. QED BY <1>1, <1>11

-----------------------------------------------------------------------------
MpState == [free : Seq(PoolBlock), pended : Nat, held : SUBSET PoolBlock]

MpPart ==
  /\ mp \in MpState /\ mp.pended <= MaxPended
  /\ Distinct(mp.free) /\ ToSet(mp.free) = PoolBlock \ mp.held

LEMMA MpStarts == MpInit => MpPart
<1> SUFFICES ASSUME MpInit PROVE MpPart
  OBVIOUS
<1>1. PICK n : n = Cardinality(PoolBlock)
  OBVIOUS
<1>2. n \in Nat /\ ExistsBijection(1..n, PoolBlock)
  BY <1>1, MemPoolAssumption, FS_CardinalityType
<1>3. PICK g : g \in Bijection(1..n, PoolBlock)
  BY <1>2 DEF ExistsBijection
<1>4. g \in [1..n -> PoolBlock] /\ IsInjective(g)
  BY <1>3 DEF Bijection, Injection, Surjection, IsInjective
<1>5. PICK f : f = SetToSeq(PoolBlock)
  OBVIOUS
<1>6. f \in [1..n -> PoolBlock] /\ IsInjective(f)
  BY <1>1, <1>4, <1>5 DEF SetToSeq
<1>7. f \in Seq(PoolBlock) /\ Len(f) = n
  BY <1>2, <1>6
<1>8. Distinct(f)
  BY <1>6, <1>7 DEF Distinct, IsInjective
<1>9. ToSet(f) = PoolBlock
  <2>1. f \in Injection(1..n, PoolBlock)
    BY <1>6 DEF Injection, IsInjective
  <2>2. IsFiniteSet(1..n) /\ Cardinality(1..n) = n
    BY <1>2, IndexCount
  <2>3. f \in Surjection(1..n, PoolBlock)
    BY <1>1, <2>1, <2>2, MemPoolAssumption, FS_Injection
  <2>. QED BY <1>7, <2>3 DEF Surjection, ToSet
<1>10. mp = [free |-> f, pended |-> 0, held |-> {}]
  BY <1>5 DEF MpInit
<1>. QED BY <1>7, <1>8, <1>9, <1>10, MemPoolAssumption DEF MpPart, MpState

LEMMA MpServes == Serves("mp", {"mp_alloc"})
<1>1. "mp" \in WaitList
  BY MemPoolAssumption
<1>2. \A op : <<"mp", op>> \in WaitPairs => op \in {"mp_alloc"}
  BY PairsAre
<1>. QED BY <1>1, <1>2 DEF Serves

LEMMA MpCounts ==
  ASSUME MpPart
  PROVE  mp \in MpState /\ mp.pended \in Nat /\ Len(mp.free) \in Nat /\ mp.free \in Seq(PoolBlock)
BY DEF MpPart, MpState

\* The first block is taken
LEMMA MpTakes ==
  ASSUME MpPart, mp.free # <<>>,
         mp' = [mp EXCEPT !.free = Tail(@), !.held = @ \cup {Head(mp.free)}]
  PROVE  MpPart' /\ Len(mp'.free) = Len(mp.free) - 1 /\ mp'.pended = mp.pended
<1>1. PICK q, h : q = mp.free /\ h = Head(q)
  OBVIOUS
<1>2. q \in Seq(PoolBlock) /\ q # <<>> /\ Distinct(q) /\ ToSet(q) = PoolBlock \ mp.held
      /\ h \in PoolBlock /\ mp.held \subseteq PoolBlock
  BY <1>1 DEF MpPart, MpState
<1>3. Tail(q) \in Seq(PoolBlock) /\ Len(Tail(q)) = Len(q) - 1 /\ h = q[1]
      /\ \A i \in 1..Len(Tail(q)) : i + 1 \in 1..Len(q) /\ i + 1 # 1 /\ Tail(q)[i] = q[i + 1]
  BY <1>1, <1>2
<1>4. Distinct(Tail(q))
  BY <1>2, <1>3 DEF Distinct
<1>5. ToSet(Tail(q)) = ToSet(q) \ {h}
  <2>1. ASSUME NEW x \in ToSet(Tail(q)) PROVE x \in ToSet(q) /\ x # h
    <3>1. PICK i \in 1..Len(Tail(q)) : x = Tail(q)[i]
      BY DEF ToSet
    <3>2. i + 1 \in 1..Len(q) /\ i + 1 # 1 /\ x = q[i + 1] /\ 1 \in 1..Len(q)
      BY <1>2, <1>3, <3>1
    <3>3. x # q[1]
      BY <1>2, <3>2 DEF Distinct
    <3>. QED BY <1>2, <1>3, <3>2, <3>3 DEF ToSet
  <2>2. ASSUME NEW x \in ToSet(q), x # h PROVE x \in ToSet(Tail(q))
    <3>1. PICK i \in 1..Len(q) : x = q[i]
      BY DEF ToSet
    <3>2. i - 1 \in 1..Len(Tail(q)) /\ (i - 1) + 1 = i
      BY <1>2, <1>3, <2>2, <3>1
    <3>3. Tail(q)[i - 1] = x
      BY <1>3, <3>1, <3>2
    <3>. QED BY <3>2, <3>3 DEF ToSet
  <2>. QED BY <2>1, <2>2
<1>6. mp'.free = Tail(q) /\ mp'.held = mp.held \cup {h} /\ mp'.pended = mp.pended /\ mp' \in MpState
  BY <1>1, <1>2, <1>3 DEF MpPart, MpState
<1>. QED BY <1>1, <1>2, <1>3, <1>4, <1>5, <1>6 DEF MpPart

\* A block in use comes back
LEMMA MpFrees ==
  ASSUME MpPart, NEW b \in mp.held, mp' = Freed(b)
  PROVE  /\ MpPart' /\ Len(mp'.free) = Len(mp.free) + 1
         /\ mp'.pended = IF mp.pended > 0 THEN mp.pended - 1 ELSE 0
<1>1. PICK q, r : q = mp.free /\ r = <<b>> \o q
  OBVIOUS
<1>2. q \in Seq(PoolBlock) /\ Distinct(q) /\ ToSet(q) = PoolBlock \ mp.held
      /\ b \in PoolBlock /\ mp.held \subseteq PoolBlock /\ mp.pended \in Nat /\ MaxPended \in Nat
  BY <1>1, MemPoolAssumption DEF MpPart, MpState
<1>3. ~Contains(q, b) /\ \A x : Contains(q, x) <=> x \in ToSet(q)
  BY <1>2 DEF Contains, ToSet
<1>4. r \in Seq(PoolBlock) /\ Distinct(r) /\ \A x : Contains(r, x) <=> Contains(q, x) \/ x = b
  BY <1>1, <1>2, <1>3, ConsList
<1>5. Len(r) = Len(q) + 1
  BY <1>1, <1>2
<1>6. ToSet(r) = ToSet(q) \cup {b}
  <2>1. \A x : Contains(r, x) <=> x \in ToSet(r)
    BY <1>4 DEF Contains, ToSet
  <2>. QED BY <1>3, <1>4, <2>1
<1>7. PICK n : n = IF mp.pended > 0 THEN mp.pended - 1 ELSE 0
  OBVIOUS
<1>8. n \in Nat /\ n <= mp.pended
  BY <1>2, <1>7
<1>9. mp'.free = r /\ mp'.held = mp.held \ {b} /\ mp'.pended = n /\ mp' \in MpState
  BY <1>1, <1>2, <1>4, <1>7, <1>8 DEF Freed, MpPart, MpState
<1>10. n <= MaxPended
  BY <1>2, <1>8 DEF MpPart
<1>. QED BY <1>1, <1>2, <1>4, <1>5, <1>6, <1>7, <1>9, <1>10 DEF MpPart

LEMMA MpPends ==
  ASSUME MpPart, NEW n \in Nat, n <= MaxPended, mp' = [mp EXCEPT !.pended = n]
  PROVE  MpPart' /\ mp'.free = mp.free /\ mp'.pended = n
BY DEF MpPart, MpState

LEMMA MpMeans ==
  MpNobodyStranded <=> /\ Supplied("mp", {"mp_alloc"}, Len(mp.free))
                       /\ Len(k.wait["mp"]) <= mp.pended
BY DEF MpNobodyStranded, Supplied

\* Nothing happens to the pool, in a step that is no allocation
LEMMA MpAside ==
  ASSUME Core, CoreStep, MpPart, MpNobodyStranded,
         mp'.free = mp.free, mp'.pended = mp.pended,
         NEW F, Turns(F), F \cap {"mp_alloc"} = {}
  PROVE  MpNobodyStranded'
<1> DEFINE n == Len(mp.free)
           R == {"mp_alloc"}
<1>1. /\ n \in Int /\ n <= n /\ mp.pended \in Nat
      /\ Supplied("mp", R, n) /\ Serves("mp", R) /\ "mp" \in WaitList
  BY MpCounts, MpServes, MpMeans DEF Serves
<1>2. k'.wait["mp"] # <<>> => n <= Cardinality(Underway(R)')
  BY <1>1, SupplyAside
<1>3. Len(k'.wait["mp"]) <= Len(k.wait["mp"])
  BY <1>1, AsideKeeps, NoMoreWait
<1>4. Len(k'.wait["mp"]) <= mp.pended
  BY <1>1, <1>3, WaitLists, MpMeans
<1>. QED BY <1>2, <1>4 DEF MpNobodyStranded

\* A block comes back, with the waiter the pool counts
LEMMA MpGives ==
  ASSUME Core, CoreStep, ErrPart, MpPart, MpNobodyStranded, Turns({}),
         NEW b \in mp.held, mp' = Freed(b),
         \/ mp.pended > 0 /\ (k' = WakeOne(k, "mp") \/ k' = Schedule(WakeOne(k, "mp")))
         \/ ~(mp.pended > 0) /\ k' = k
  PROVE  MpNobodyStranded'
<1> DEFINE n == Len(mp.free)
           R == {"mp_alloc"}
<1>0. /\ n \in Int /\ n + 1 \in Int /\ n + 1 <= n + 1 /\ mp.pended \in Nat
      /\ Supplied("mp", R, n) /\ Serves("mp", R) /\ "mp" \in WaitList
      /\ Len(k.wait["mp"]) <= mp.pended /\ Len(k.wait["mp"]) \in Nat /\ Len(k'.wait["mp"]) \in Nat
      /\ k.wait["mp"] \in Seq(Thread)
  BY MpCounts, MpServes, MpMeans, WaitLists DEF Serves
<1>1. Len(mp'.free) = n + 1 /\ mp'.pended = IF mp.pended > 0 THEN mp.pended - 1 ELSE 0
  BY MpFrees
<1>2. ~(mp.pended > 0) => k.wait["mp"] = <<>>
  BY <1>0
<1>3. FirstWoken("mp")
  BY <1>0, <1>2, WakesFirst
<1>4. Shrinks("mp") /\ Underway(R) \subseteq Underway(R)'
  BY <1>0, AsideKeeps
<1>5. k'.wait["mp"] # <<>> => n + 1 <= Cardinality(Underway(R)')
  BY <1>0, <1>3, <1>4, SupplyGiven
<1>6. Len(k'.wait["mp"]) <= mp'.pended
  <2>1. CASE k.wait["mp"] = <<>>
    <3>1. k'.wait["mp"] = <<>>
      BY <1>0, <1>4, <2>1, ShrinksFrom
    <3>. QED BY <1>0, <1>1, <3>1
  <2>2. CASE k.wait["mp"] # <<>>
    <3>1. Len(k'.wait["mp"]) <= Len(k.wait["mp"]) - 1
      BY <1>0, <1>3, <1>4, <2>2, OneLessWaits DEF FirstWoken
    <3>. QED BY <1>0, <1>1, <1>2, <2>2, <3>1
  <2>. QED BY <2>1, <2>2
<1>. QED BY <1>1, <1>5, <1>6 DEF MpNobodyStranded

LEMMA MpUnstranded ==
  ASSUME Core, CoreStep, ErrPart, DetachPart, MpPart, MpNobodyStranded, MpNext
  PROVE  MpPart' /\ MpNobodyStranded'
<1> DEFINE n == Len(mp.free)
           R == {"mp_alloc"}
<1>0. /\ n \in Nat /\ n \in Int /\ mp.pended \in Nat /\ mp \in MpState
      /\ Supplied("mp", R, n) /\ Serves("mp", R) /\ "mp" \in WaitList
      /\ Len(k.wait["mp"]) <= mp.pended /\ Len(k.wait["mp"]) \in Nat /\ Len(k'.wait["mp"]) \in Nat
      /\ MaxPended \in Nat
  BY MpCounts, MpServes, MpMeans, WaitLists, MemPoolAssumption DEF Serves
<1>1. ASSUME mp' = mp PROVE MpPart'
  BY <1>1 DEF MpPart
<1>2. ASSUME NEW t \in Running, NEW c \in AllocBlock, MpAlloc(t, c)
      PROVE  MpPart' /\ MpNobodyStranded'
  <2>1. MpPart' /\ Len(mp'.free) = n - 1 /\ mp'.pended = mp.pended
    BY <1>2, MpTakes DEF MpAlloc
  <2>2. ~Sits
    BY <1>2, EndSits DEF MpAlloc
  <2>3. Shrinks("mp") /\ n - 1 \in Int /\ n - 1 <= n - 1
    BY <1>0, <2>2, ListShrinks
  <2>4. k'.wait["mp"] # <<>> => n - 1 <= Cardinality(Underway(R)')
    BY <1>0, <2>3, SupplyTaken
  <2>5. Len(k'.wait["mp"]) <= Len(k.wait["mp"])
    BY <1>0, <2>3, NoMoreWait
  <2>6. Len(k'.wait["mp"]) <= mp'.pended
    BY <1>0, <2>1, <2>5
  <2>. QED BY <2>1, <2>4, <2>6 DEF MpNobodyStranded
<1>3. ASSUME NEW t \in Running, NEW c \in AllocBlock, MpAllocWait(t, c)
      PROVE  MpPart' /\ MpNobodyStranded'
  <2>1. PICK p : p = mp.pended + 1
    OBVIOUS
  <2>2. p \in Nat /\ p <= MaxPended /\ mp' = [mp EXCEPT !.pended = p]
    BY <1>0, <1>3, <2>1 DEF MpAllocWait
  <2>3. MpPart' /\ mp'.free = mp.free /\ mp'.pended = p /\ n = 0
    BY <1>3, <2>2, MpPends DEF MpAllocWait
  <2>4. n <= Cardinality(Underway(R)')
    BY <1>0, <2>3, SupplyNone
  <2>5. Len(k'.wait["mp"]) <= Len(k.wait["mp"]) + 1
    BY <1>0, OneMoreWaits
  <2>6. Len(k'.wait["mp"]) <= p
    BY <1>0, <2>1, <2>5
  <2>. QED BY <2>3, <2>4, <2>6 DEF MpNobodyStranded
<1>4. ASSUME NEW t \in Running, MpFail(t) \/ \E c \in AllocBlock : MpAllocRefused(t, c)
      PROVE  MpPart' /\ MpNobodyStranded'
  <2>1. mp' = mp /\ ~Sits
    BY <1>4, EndSits DEF MpFail, MpAllocRefused
  <2>2. Shrinks("mp")
    BY <1>0, <2>1, ListShrinks
  <2>3. k'.wait["mp"] # <<>> => n <= Cardinality(Underway(R)')
    <3>1. CASE MpFail(t)
      <4>1. k.cur \notin Underway(R)
        BY <3>1, FailedAway DEF MpFail
      <4>2. Underway(R) \subseteq Underway(R)' /\ n <= n
        BY <1>0, <4>1, AllUnderway
      <4>. QED BY <1>0, <2>2, <4>2, SupplyKept
    <3>2. CASE \E c \in AllocBlock : MpAllocRefused(t, c)
      <4>1. n <= 0
        BY <3>2 DEF MpAllocRefused
      <4>. QED BY <1>0, <4>1, SupplyNone
    <3>. QED BY <1>4, <3>1, <3>2
  <2>4. Len(k'.wait["mp"]) <= Len(k.wait["mp"])
    BY <1>0, <2>2, NoMoreWait
  <2>5. Len(k'.wait["mp"]) <= mp.pended
    BY <1>0, <2>4
  <2>. QED BY <1>1, <2>1, <2>3, <2>5 DEF MpNobodyStranded
<1>5. ASSUME NEW t \in Running, NEW b, MpFree(t, b) PROVE MpPart' /\ MpNobodyStranded'
  <2>1. \E p \in {"post", "run"} : Goto(t, p)
    BY <1>5 DEF MpFree
  <2>2. Turns({})
    BY <1>5, <2>1, GoTurns DEF MpFree, Starts, At
  <2>3. /\ b \in mp.held /\ mp' = Freed(b)
        /\ \/ mp.pended > 0 /\ k' = WakeOne(k, "mp")
           \/ ~(mp.pended > 0) /\ k' = k
    BY <1>5 DEF MpFree
  <2>. QED BY <2>2, <2>3, MpFrees, MpGives
<1>6. ASSUME NEW b, MpIsrFree(b) PROVE MpPart' /\ MpNobodyStranded'
  <2>1. Turns({})
    BY <1>6, RestTurns DEF MpIsrFree
  <2>2. /\ b \in mp.held /\ mp' = Freed(b)
        /\ \/ mp.pended > 0 /\ k' = Schedule(WakeOne(k, "mp"))
           \/ ~(mp.pended > 0) /\ k' = k
    BY <1>6 DEF MpIsrFree
  <2>. QED BY <2>1, <2>2, MpFrees, MpGives
<1>7. ASSUME NEW t \in Running, MpDetach(t) PROVE MpPart' /\ MpNobodyStranded'
  <2>1. Turns({}) /\ mp' = mp
    BY <1>7, DetachTurns DEF MpDetach
  <2>. QED BY <1>1, <2>1, MpAside
<1>8. ASSUME NEW t \in Running, MpDetachWake(t) PROVE MpPart' /\ MpNobodyStranded'
  <2>1. t = k.cur /\ t \in Thread /\ pc[t] = "wake" /\ pc'[t] = "detach" /\ call' = call
    BY <1>8, PlaceTypes DEF MpDetachWake, ListWake, At, Goto, Running
  <2>2. Turns({})
    BY <2>1 DEF Turns, Leaves, Joins, WaitPlaces, DetachFits, DetachPart
  <2>3. call[t].arg # <<>> /\ call[t].op = "mp"
    BY <1>8, <2>1 DEF MpDetachWake, Core, PlacePart, CallFits
  <2>4. call[t].arg = <<"mp">>
    BY <2>1, <2>3 DEF DetachPart, DetachFits
  <2>5. k.wait["mp"] # <<>> /\ k' = ResumeFailed(k, "mp")
    BY <1>8, <2>4 DEF MpDetachWake, ListWake, Left
  <2>6. PICK h : h = Head(k.wait["mp"])
    OBVIOUS
  <2>7. h \in Thread /\ k.stat[h] = "suspend" /\ Wakes(k, k)
    BY <1>0, <2>5, <2>6, FirstWaiter, WaiterSuspended, NothingWakes DEF Core, RunningPart
  <2>8. k'.stat[h] = "ready"
    <3>1. k' = Resume([k EXCEPT !.err[h] = "ERROR"], h)
      BY <2>5, <2>6 DEF ResumeFailed
    <3>2. k'.stat = [k.stat EXCEPT ![h] = "ready"]
      BY <2>7, <3>1, FailedWakes DEF Error
    <3>. QED BY <2>7, <3>2, KernelFunctions DEF Core
  <2>9. Shrinks("mp") /\ Underway(R) \subseteq Underway(R)' /\ n <= n
    BY <1>0, <2>2, AsideKeeps
  <2>10. k'.wait["mp"] # <<>> => n <= Cardinality(Underway(R)')
    BY <1>0, <2>9, SupplyKept
  <2>11. Len(k'.wait["mp"]) <= Len(k.wait["mp"]) - 1
    BY <1>0, <2>5, <2>6, <2>8, <2>9, OneLessWaits
  <2>12. PICK p : p = mp.pended - 1
    OBVIOUS
  <2>13. p \in Nat /\ p <= MaxPended /\ mp' = [mp EXCEPT !.pended = p]
    BY <1>0, <1>8, <2>11, <2>12 DEF MpDetachWake, MpPart
  <2>14. MpPart' /\ mp'.free = mp.free /\ mp'.pended = p
    BY <2>13, MpPends
  <2>15. Len(k'.wait["mp"]) <= p
    BY <1>0, <2>11, <2>12
  <2>. QED BY <2>10, <2>14, <2>15 DEF MpNobodyStranded
<1>. QED BY <1>2, <1>3, <1>4, <1>5, <1>6, <1>7, <1>8 DEF MpNext

-----------------------------------------------------------------------------
\* Below this much data a pop wakes a waiting pusher
PushMark == IF Lwm < DqSize THEN Lwm + 1 ELSE DqSize

DqSupplied ==
  /\ Supplied("dq.pop", {"dq_pop"}, Filled)
  /\ Supplied("dq.push", {"dq_push"}, PushMark - Filled)

LEMMA DqServes == Serves("dq.pop", {"dq_pop"}) /\ Serves("dq.push", {"dq_push"})
<1>1. "dq.pop" \in WaitList /\ "dq.push" \in WaitList
  BY DataQueueAssumption
<1>2. \A op : <<"dq.pop", op>> \in WaitPairs => op \in {"dq_pop"}
  BY PairsAre
<1>3. \A op : <<"dq.push", op>> \in WaitPairs => op \in {"dq_push"}
  BY PairsAre
<1>. QED BY <1>1, <1>2, <1>3 DEF Serves

LEMMA DqCounts ==
  ASSUME DqPart
  PROVE  /\ dq \in DqState /\ dq.put \in 0..MaxPush /\ dq.get \in 0..dq.put
         /\ dq.put \in Nat /\ dq.get \in Nat
         /\ Filled \in Int /\ 0 <= Filled /\ Filled <= DqSize
         /\ PushMark \in Nat \ {0} /\ PushMark <= DqSize /\ PushMark <= Lwm + 1
         /\ Lwm \in Nat /\ DqSize \in Nat /\ MaxPush \in Nat
<1>1. PICK w : DqIs(dq, w)
  BY DEF DqPart
<1>2. /\ dq \in DqState /\ dq.put \in 0..MaxPush /\ dq.get \in 0..dq.put
      /\ dq.put = dq.get + Len(w) /\ Len(w) \in Nat /\ Len(w) <= DqSize
  BY <1>1, DqFacts
<1>3. DqSize \in Nat \ {0} /\ MaxPush \in Nat /\ Lwm \in Nat
  BY DqSizes, DataQueueAssumption
<1>4. dq.put \in Nat /\ dq.get \in Nat /\ Filled = Len(w)
  BY <1>2, <1>3 DEF Filled
<1>. QED BY <1>2, <1>3, <1>4 DEF PushMark

\* With some data and a waiting popper, or room and a waiting pusher, somebody is on the way
LEMMA DqMeans ==
  ASSUME DqPart, DqSupplied
  PROVE  DqNobodyStranded
<1> DEFINE P == Cardinality(Underway({"dq_pop"}))
           Q == Cardinality(Underway({"dq_push"}))
<1>1. Filled \in Int /\ 0 <= Filled /\ PushMark \in Nat \ {0}
  BY DqCounts
<1>2. P \in Nat /\ Q \in Nat
  BY UnderwayCounts
<1>3. ASSUME k.wait["dq.pop"] # <<>>, k.wait["dq.push"] # <<>> PROVE Underway(DqCalls) # {}
  <2>1. Filled <= P /\ PushMark - Filled <= Q
    BY <1>3 DEF DqSupplied, Supplied
  <2>2. P # 0 \/ Q # 0
    BY <1>1, <1>2, <2>1
  <2>3. Underway({"dq_pop"}) # {} \/ Underway({"dq_push"}) # {}
    BY <2>2, FS_EmptySet
  <2>. QED BY <2>3 DEF Underway, DqCalls
<1>4. k.wait["dq.pop"] # <<>> => Filled <= P
  BY DEF DqSupplied, Supplied
<1>. QED BY <1>3, <1>4 DEF DqNobodyStranded

LEMMA DqAside ==
  ASSUME Core, CoreStep, DqPart, DqSupplied, dq' = dq,
         NEW F, Turns(F), F \cap {"dq_push", "dq_pop"} = {}
  PROVE  DqSupplied'
<1> DEFINE n == Filled
           m == PushMark - Filled
           R == {"dq_pop"}
           S == {"dq_push"}
<1>1. /\ n \in Int /\ m \in Int /\ n <= n /\ m <= m
      /\ Supplied("dq.pop", R, n) /\ Supplied("dq.push", S, m)
      /\ Serves("dq.pop", R) /\ Serves("dq.push", S) /\ F \cap R = {} /\ F \cap S = {}
  BY DqCounts, DqServes DEF DqSupplied
<1>2. k'.wait["dq.pop"] # <<>> => n <= Cardinality(Underway(R)')
  BY <1>1, SupplyAside
<1>3. k'.wait["dq.push"] # <<>> => m <= Cardinality(Underway(S)')
  BY <1>1, SupplyAside
<1>4. Filled' = Filled /\ PushMark' = PushMark
  BY DEF Filled, PushMark
<1>. QED BY <1>2, <1>3, <1>4 DEF DqSupplied, Supplied

\* What one value more or less does to the counts
LEMMA DqGrows ==
  ASSUME DqPart, Filled # DqSize, dq.put < MaxPush, NEW v,
         dq' = [dq EXCEPT !.ring[dq.put % DqSize] = v, !.put = (@ + 1) % IndexRange]
  PROVE  Filled' = Filled + 1
<1>1. (dq.put + 1) % IndexRange = dq.put + 1
  BY DqCounts, DqIndex
<1>2. dq'.put = dq.put + 1 /\ dq'.get = dq.get
  BY <1>1, DqCounts DEF DqState
<1>. QED BY <1>2, DqCounts DEF Filled

LEMMA DqLessens ==
  ASSUME DqPart, dq.get # dq.put, dq' = [dq EXCEPT !.get = (@ + 1) % IndexRange]
  PROVE  Filled' = Filled - 1
<1>1. dq.get < MaxPush /\ dq.get \in Nat
  BY DqCounts
<1>2. (dq.get + 1) % IndexRange = dq.get + 1
  BY <1>1, DqIndex
<1>3. dq'.put = dq.put /\ dq'.get = dq.get + 1
  BY <1>2, DqCounts DEF DqState
<1>. QED BY <1>3, DqCounts DEF Filled

\* A popper is woken for what is pushed
LEMMA DqPushed ==
  ASSUME Core, CoreStep, ErrPart, DqPart, DqSupplied, Filled' = Filled + 1,
         NEW F, Turns(F), F \cap {"dq_pop"} = {}, Shrinks("dq.push"),
         FirstWoken("dq.pop")
  PROVE  DqSupplied'
<1> DEFINE n == Filled
           m == PushMark - Filled
           R == {"dq_pop"}
           S == {"dq_push"}
<1>1. /\ n \in Int /\ m \in Int /\ n + 1 \in Int /\ n + 1 <= n + 1
      /\ m - 1 \in Int /\ m - 1 <= m - 1 /\ PushMark - (n + 1) = m - 1
      /\ Supplied("dq.pop", R, n) /\ Supplied("dq.push", S, m)
      /\ Serves("dq.pop", R) /\ "dq.pop" \in WaitList /\ "dq.push" \in WaitList
  BY DqCounts, DqServes DEF DqSupplied, Serves
<1>2. Shrinks("dq.pop") /\ Underway(R) \subseteq Underway(R)'
  BY <1>1, AsideKeeps
<1>3. k'.wait["dq.pop"] # <<>> => n + 1 <= Cardinality(Underway(R)')
  BY <1>1, <1>2, SupplyGiven
<1>4. k'.wait["dq.push"] # <<>> => m - 1 <= Cardinality(Underway(S)')
  BY <1>1, SupplyTaken
<1>5. PushMark' = PushMark
  BY DEF PushMark
<1>. QED BY <1>1, <1>3, <1>4, <1>5 DEF DqSupplied, Supplied

\* A pusher is woken for what is popped, at the low water mark
LEMMA DqPopped ==
  ASSUME Core, CoreStep, ErrPart, DqPart, DqSupplied, Filled' = Filled - 1,
         NEW F, Turns(F), F \cap {"dq_push"} = {}, Shrinks("dq.pop"),
         \/ WakesPusher /\ (k' = WakeOne(k, "dq.push") \/ k' = Schedule(WakeOne(k, "dq.push")))
         \/ ~WakesPusher /\ k' = k
  PROVE  DqSupplied'
<1> DEFINE n == Filled
           m == PushMark - Filled
           R == {"dq_pop"}
           S == {"dq_push"}
<1>1. /\ n \in Int /\ m \in Int /\ n - 1 \in Int /\ n - 1 <= n - 1
      /\ m + 1 \in Int /\ m + 1 <= m + 1 /\ PushMark - (n - 1) = m + 1
      /\ Supplied("dq.pop", R, n) /\ Supplied("dq.push", S, m)
      /\ Serves("dq.push", S) /\ "dq.pop" \in WaitList /\ "dq.push" \in WaitList
  BY DqCounts, DqServes DEF DqSupplied, Serves
<1>2. Shrinks("dq.push") /\ Underway(S) \subseteq Underway(S)'
  BY <1>1, AsideKeeps
<1>3. k'.wait["dq.pop"] # <<>> => n - 1 <= Cardinality(Underway(R)')
  BY <1>1, SupplyTaken
<1>4. k'.wait["dq.push"] # <<>> => m + 1 <= Cardinality(Underway(S)')
  <2>1. CASE WakesPusher \/ k.wait["dq.push"] = <<>>
    <3>1. FirstWoken("dq.push")
      BY <1>1, <2>1, WakesFirst
    <3>. QED BY <1>1, <1>2, <3>1, SupplyGiven
  <2>2. CASE ~WakesPusher /\ k.wait["dq.push"] # <<>>
    <3>1. ~(n - 1 <= Lwm)
      BY <2>2 DEF WakesPusher
    <3>2. m + 1 <= 0
      BY <1>1, <3>1, DqCounts
    <3>. QED BY <1>1, <3>2, SupplyNone
  <2>. QED BY <2>1, <2>2
<1>5. PushMark' = PushMark
  BY DEF PushMark
<1>. QED BY <1>1, <1>3, <1>4, <1>5 DEF DqSupplied, Supplied

LEMMA DqUnstranded ==
  ASSUME Core, CoreStep, ErrPart, DetachPart, DqPart, DqSupplied, DqNext
  PROVE  DqSupplied'
<1> DEFINE n == Filled
           m == PushMark - Filled
           R == {"dq_pop"}
           S == {"dq_push"}
<1>0. /\ n \in Int /\ m \in Int /\ n <= n /\ m <= m
      /\ Supplied("dq.pop", R, n) /\ Supplied("dq.push", S, m)
      /\ Serves("dq.pop", R) /\ Serves("dq.push", S)
      /\ "dq.pop" \in WaitList /\ "dq.push" \in WaitList
      /\ R \cap S = {} /\ S \cap R = {} /\ PushMark' = PushMark
  BY DqCounts, DqServes DEF DqSupplied, Serves, PushMark
<1>1. ASSUME dq' = dq PROVE Filled' = n
  BY <1>1 DEF Filled
<1>2. ASSUME NEW t \in Running, NEW c \in PushDatum, DqPush(t, c) PROVE DqSupplied'
  <2>1. Turns(S) /\ ~Sits /\ FirstWoken("dq.pop")
    BY <1>0, <1>2, DqPushTurns, EndSits, WakesFirst DEF DqPush
  <2>2. Shrinks("dq.push") /\ Filled' = n + 1
    BY <1>0, <1>2, <2>1, ListShrinks, DqGrows DEF DqPush
  <2>. QED BY <1>0, <2>1, <2>2, DqPushed
<1>3. ASSUME NEW v, DqIsrPush(v) PROVE DqSupplied'
  <2>1. Turns({}) /\ FirstWoken("dq.pop")
    BY <1>0, <1>3, RestTurns, WakesFirst DEF DqIsrPush
  <2>2. Shrinks("dq.push") /\ Filled' = n + 1
    BY <1>0, <1>3, <2>1, AsideKeeps, DqGrows DEF DqIsrPush
  <2>. QED BY <1>0, <2>1, <2>2, DqPushed
<1>4. ASSUME NEW t \in Running, NEW c \in PopDatum, DqPop(t, c) PROVE DqSupplied'
  <2>1. Turns(R) /\ ~Sits
    BY <1>4, DqPopTurns, EndSits DEF DqPop
  <2>2. Shrinks("dq.pop") /\ Filled' = n - 1
    BY <1>0, <1>4, <2>1, ListShrinks, DqLessens DEF DqPop
  <2>3. \/ WakesPusher /\ k' = WakeOne(k, "dq.push")
        \/ ~WakesPusher /\ k' = k
    BY <1>4 DEF DqPop
  <2>. QED BY <1>0, <2>1, <2>2, <2>3, DqPopped
<1>5. ASSUME DqIsrPop PROVE DqSupplied'
  <2>1. Turns({})
    BY <1>5, RestTurns DEF DqIsrPop
  <2>2. Shrinks("dq.pop") /\ Filled' = n - 1
    BY <1>0, <1>5, <2>1, AsideKeeps, DqLessens DEF DqIsrPop
  <2>3. \/ WakesPusher /\ k' = Schedule(WakeOne(k, "dq.push"))
        \/ ~WakesPusher /\ k' = k
    BY <1>5 DEF DqIsrPop
  <2>. QED BY <1>0, <2>1, <2>2, <2>3, DqPopped
<1>6. ASSUME NEW t \in Running, NEW c \in PushDatum, DqPushWait(t, c) \/ DqPushRefused(t, c)
      PROVE  DqSupplied'
  <2>1. Turns(S) /\ dq' = dq /\ n = DqSize
    BY <1>6, DqPushTurns DEF DqPushWait, DqPushRefused
  <2>2. k'.wait["dq.pop"] # <<>> => n <= Cardinality(Underway(R)')
    BY <1>0, <2>1, SupplyAside
  <2>3. m <= 0
    BY <2>1, DqCounts
  <2>4. m <= Cardinality(Underway(S)')
    BY <1>0, <2>3, SupplyNone
  <2>. QED BY <1>0, <1>1, <2>1, <2>2, <2>4 DEF DqSupplied, Supplied
<1>7. ASSUME NEW t \in Running, NEW c \in PopDatum, DqPopWait(t, c) \/ DqPopRefused(t, c)
      PROVE  DqSupplied'
  <2>1. Turns(R) /\ dq' = dq /\ dq.get = dq.put
    BY <1>7, DqPopTurns DEF DqPopWait, DqPopRefused
  <2>2. k'.wait["dq.push"] # <<>> => m <= Cardinality(Underway(S)')
    BY <1>0, <2>1, SupplyAside
  <2>3. n <= 0
    BY <2>1, DqCounts DEF Filled
  <2>4. n <= Cardinality(Underway(R)')
    BY <1>0, <2>3, SupplyNone
  <2>. QED BY <1>0, <1>1, <2>1, <2>2, <2>4 DEF DqSupplied, Supplied
<1>8. ASSUME NEW t \in Running, DqFail(t) PROVE DqSupplied'
  <2>1. ~Sits /\ dq' = dq /\ k.cur \notin Underway(R) /\ k.cur \notin Underway(S)
    BY <1>8, EndSits, FailedAway DEF DqFail
  <2>2. /\ Shrinks("dq.pop") /\ Shrinks("dq.push")
        /\ Underway(R) \subseteq Underway(R)' /\ Underway(S) \subseteq Underway(S)'
    BY <1>0, <2>1, ListShrinks, AllUnderway
  <2>3. k'.wait["dq.pop"] # <<>> => n <= Cardinality(Underway(R)')
    BY <1>0, <2>2, SupplyKept
  <2>4. k'.wait["dq.push"] # <<>> => m <= Cardinality(Underway(S)')
    BY <1>0, <2>2, SupplyKept
  <2>. QED BY <1>0, <1>1, <2>1, <2>3, <2>4 DEF DqSupplied, Supplied
<1>9. ASSUME NEW t \in Running, DqReset(t) \/ DqResetEnd(t) PROVE DqSupplied'
  <2>1. Turns({}) /\ dq' = dq
    <3>1. CASE DqReset(t)
      <4>1. t = k.cur /\ pc'[t] = "detach" /\ pc[t] = "run" /\ call'[t].op = "dq_reset"
        BY <3>1, PlaceTypes DEF Goto, Running, DqReset, Starts, At, Core, PlacePart
      <4>. QED BY <3>1, <4>1 DEF Turns, Leaves, Joins, WaitPlaces, DetachFits, DqReset
    <3>2. CASE DqResetEnd(t)
      BY <3>2, GoTurns DEF DqResetEnd, At
    <3>. QED BY <1>9, <3>1, <3>2
  <2>. QED BY <2>1, DqAside
<1>. QED BY <1>2, <1>3, <1>4, <1>5, <1>6, <1>7, <1>8, <1>9 DEF DqNext

-----------------------------------------------------------------------------
\* At most one thread waits for a completion, and for a flag that is clear
CpPart == Len(k.wait["cp"]) <= 1 /\ CpNobodyStranded

LEMMA CpServes == Serves("cp", {"cp_wait", "sr_write"})
<1>1. "cp" \in WaitList
  BY CompletionAssumption
<1>2. \A op : <<"cp", op>> \in WaitPairs => op \in {"cp_wait", "sr_write"}
  BY PairsAre
<1>. QED BY <1>1, <1>2 DEF Serves

LEMMA CpStays ==
  ASSUME Core, CoreStep, CpPart, Shrinks("cp"), cp' = cp \/ ~cp'.flag
  PROVE  CpPart'
<1>1. "cp" \in WaitList
  BY CompletionAssumption
<1>2. Len(k'.wait["cp"]) <= Len(k.wait["cp"]) /\ Len(k.wait["cp"]) \in Nat /\ Len(k'.wait["cp"]) \in Nat
  BY <1>1, NoMoreWait, WaitLists
<1>3. Len(k'.wait["cp"]) <= 1
  BY <1>2 DEF CpPart
<1>4. k'.wait["cp"] # <<>> => ~cp'.flag
  BY <1>1, ShrinksFrom DEF CpPart, CpNobodyStranded
<1>. QED BY <1>3, <1>4 DEF CpPart, CpNobodyStranded

LEMMA CpAside ==
  ASSUME Core, CoreStep, CpPart, cp' = cp,
         NEW F, Turns(F), F \cap {"cp_wait", "sr_write"} = {}
  PROVE  CpPart'
BY CpServes, AsideKeeps, CpStays

\* The one who waits is woken
LEMMA CpWakes ==
  ASSUME Core, CoreStep, CpPart, Shrinks("cp"), FirstWoken("cp")
  PROVE  k'.wait["cp"] = <<>> /\ CpPart'
<1>1. "cp" \in WaitList
  BY CompletionAssumption
<1>2. /\ Len(k.wait["cp"]) \in Nat /\ Len(k'.wait["cp"]) \in Nat /\ Len(k.wait["cp"]) <= 1
      /\ k'.wait["cp"] \in Seq(Thread)
  BY <1>1, WaitLists DEF CpPart
<1>3. k'.wait["cp"] = <<>>
  <2>1. CASE k.wait["cp"] = <<>>
    BY <1>1, <2>1, ShrinksFrom
  <2>2. CASE k.wait["cp"] # <<>>
    <3>1. Len(k'.wait["cp"]) <= Len(k.wait["cp"]) - 1
      BY <1>1, <2>2, OneLessWaits DEF FirstWoken
    <3>2. Len(k'.wait["cp"]) = 0
      BY <1>2, <3>1
    <3>. QED BY <1>2, <3>2, EmptySeq
  <2>. QED BY <2>1, <2>2
<1>4. Len(k'.wait["cp"]) <= 1
  BY <1>3
<1>. QED BY <1>3, <1>4 DEF CpPart, CpNobodyStranded

\* One comes to wait, alone
LEMMA CpSits ==
  ASSUME Core, CoreStep, k.wait["cp"] = <<>>, ~cp.flag, cp' = cp
  PROVE  CpPart'
<1>1. "cp" \in WaitList
  BY CompletionAssumption
<1>2. Len(k'.wait["cp"]) <= Len(k.wait["cp"]) + 1 /\ Len(k'.wait["cp"]) \in Nat
  BY <1>1, OneMoreWaits, WaitLists
<1>3. Len(k'.wait["cp"]) <= 1
  BY <1>2
<1>. QED BY <1>3 DEF CpPart, CpNobodyStranded

LEMMA CpUnstranded ==
  ASSUME Core, CoreStep, DetachPart, CpPart, CpNext
  PROVE  CpPart'
<1>0. "cp" \in WaitList /\ Serves("cp", {"cp_wait", "sr_write"})
  BY CompletionAssumption, CpServes
<1>1. ASSUME NEW t \in Running, NEW c \in WaitDone, CpWaitDone(t, c) \/ CpWaitRefused(t, c)
      PROVE  CpPart'
  <2>1. cp' = cp \/ ~cp'.flag
    <3>1. cp' = cp \/ cp' = [flag |-> FALSE, owed |-> cp.owed - 1]
      BY <1>1 DEF CpWaitDone, CpWaitRefused
    <3>. QED BY <3>1
  <2>2. ~Sits
    <3>1. Refuse(t) \/ Finish(t, FALSE, None)
      BY <1>1 DEF CpWaitDone, CpWaitRefused
    <3>. QED BY <3>1, EndSits
  <2>. QED BY <1>0, <2>1, <2>2, ListShrinks, CpStays
<1>2. ASSUME NEW t \in Running, NEW c \in WaitDone, CpWait(t, c) PROVE CpPart'
  BY <1>2, CpSits DEF CpWait
<1>3. ASSUME NEW t \in Running, CpReturn(t) PROVE CpPart'
  <2>1. ~Sits /\ ~cp'.flag
    BY <1>3, EndSits DEF CpReturn
  <2>. QED BY <1>0, <2>1, ListShrinks, CpStays
<1>4. ASSUME NEW t \in Running, CpDoneTest(t) PROVE CpPart'
  <2>1. Turns({}) /\ cp' = cp
    BY <1>4, GoTurns DEF CpDoneTest, Starts, At
  <2>. QED BY <2>1, CpAside
<1>5. ASSUME NEW t \in Running, CpDone(t) PROVE CpPart'
  <2>1. ~Sits /\ FirstWoken("cp")
    BY <1>0, <1>5, EndSits, WakesFirst DEF CpDone
  <2>. QED BY <1>0, <2>1, ListShrinks, CpWakes
<1>6. CASE CpIsrDone
  <2>1. Turns({}) /\ FirstWoken("cp")
    BY <1>0, <1>6, RestTurns, WakesFirst DEF CpIsrDone
  <2>2. Shrinks("cp")
    BY <1>0, <2>1, AsideKeeps
  <2>. QED BY <2>1, <2>2, CpWakes
<1>. QED BY <1>1, <1>2, <1>3, <1>4, <1>5, <1>6 DEF CpNext

\* The steps of a serial device that wait for nothing
LEMMA SrSits ==
  ASSUME Core, SrNext, \A t \in Running : ~SrWait(t) /\ ~SrPutWait(t)
  PROVE  ~Sits
<1>0. pc \in [Thread -> AllLabels] /\ k.cur \in Thread
  BY KernelFunctions DEF Core, PlacePart
<1>1. ASSUME NEW t \in Running, NEW n, SrRead(t, n) \/ SrWrite(t, n) PROVE ~Sits
  <2>1. \E p \in {"sr_get", "sr_put"} : Goto(t, p)
    BY <1>1 DEF SrRead, SrWrite, SrStarts
  <2>. QED BY <1>0, <2>1, NotSits
<1>2. ASSUME pc' = pc PROVE ~Sits
  BY <1>2 DEF Sits
<1>3. ASSUME NEW t \in Running,
             \/ SrReadEnd(t) \/ SrReadNone(t) \/ SrPutRefused(t) \/ SrPutAgain(t) \/ SrPutWaited(t)
             \/ SrWritten(t)
      PROVE  ~Sits
  <2>1. \E p \in {"run", "sr_wait", "sr_busy", "sr_put"} : Goto(t, p)
    BY <1>3 DEF SrReadEnd, SrReadNone, SrPutRefused, SrPutAgain, SrPutWaited, SrWritten, SrReturns
  <2>. QED BY <1>0, <2>1, NotSits
<1>4. ASSUME NEW t \in Running, SrWaited(t) PROVE ~Sits
  <2>1. \E p \in {"unqueue", "sr_get"} : Goto(t, p)
    BY <1>4 DEF SrWaited, WqReturn, WqUnqueue
  <2>. QED BY <1>0, <2>1, NotSits
<1>5. ASSUME NEW c, SrIdleStore(c) \/ SrIdleLength \/ SrIdleWake PROVE ~Sits
  <2>1. Idle \in Running
    BY <1>5 DEF SrIdleStore, SrIdleLength, SrIdleWake, At, Running
  <2>2. \E p \in {"sr_length", "run", "sr_wake"} : Goto(Idle, p)
    BY <1>5 DEF SrIdleStore, SrIdleLength, SrIdleWake
  <2>. QED BY <1>0, <2>1, <2>2, NotSits
<1>6. ASSUME NEW t, NEW s, SrGet(t) \/ SrPut(t) \/ SrFlush(t) \/ SrIsrReceive(s) \/ SrIsrSent PROVE ~Sits
  BY <1>2, <1>6 DEF SrGet, SrPut, SrFlush, SrIsrReceive, SrIsrSent, caller
<1>. QED BY <1>1, <1>3, <1>4, <1>5, <1>6 DEF SrNext

LEMMA SrCpUnstranded ==
  ASSUME Core, CoreStep, DetachPart, CpPart, SrNext
  PROVE  CpPart'
<1>0. "cp" \in WaitList /\ Serves("cp", {"cp_wait", "sr_write"})
  BY CompletionAssumption, CpServes
<1>1. ASSUME NEW t \in Running, SrWait(t) PROVE CpPart'
  <2>1. call[t].op \in {"sr_read"} /\ pc[t] # "again" /\ cp' = cp
    BY <1>1, InSerial DEF SrWait, At, SerialCall
  <2>2. Turns({"sr_read"})
    <3>1. CASE WqPass(t, "serial", "sr_get")
      BY <2>1, <3>1, InTurns DEF WqPass
    <3>2. CASE WqBlock(t, "serial")
      BY <2>1, <3>2, BlockTurns DEF WqBlock
    <3>. QED BY <1>1, <3>1, <3>2 DEF SrWait
  <2>. QED BY <2>1, <2>2, CpAside
<1>2. ASSUME NEW t \in Running, SrPutWait(t) PROVE CpPart'
  BY <1>2, CpSits DEF SrPutWait
<1>3. ASSUME SrIsrSent PROVE CpPart'
  <2>1. Turns({})
    BY <1>3, RestTurns DEF SrIsrSent
  <2>2. Shrinks("cp")
    BY <1>0, <2>1, AsideKeeps
  <2>3. FirstWoken("cp")
    <3>1. cp.flag => k.wait["cp"] = <<>>
      BY DEF CpPart, CpNobodyStranded
    <3>2. k' = Schedule(WakeOne(k, "cp")) \/ (k.wait["cp"] = <<>> /\ k' = k)
      BY <1>3, <3>1 DEF SrIsrSent
    <3>. QED BY <1>0, <3>2, WakesFirst
  <2>. QED BY <2>2, <2>3, CpWakes
<1>4. ASSUME ~SrIsrSent, \A t \in Running : ~SrWait(t) /\ ~SrPutWait(t) PROVE CpPart'
  <2>1. Shrinks("cp")
    BY <1>0, <1>4, SrSits, ListShrinks
  <2>2. ASSUME NEW t, SrPutAgain(t) \/ SrPutWaited(t) PROVE ~cp'.flag
    <3>1. cp' = [flag |-> FALSE, owed |-> cp.owed - 1]
      BY <2>2 DEF SrPutAgain, SrPutWaited, Answered
    <3>. QED BY <3>1
  <2>3. ASSUME NEW t, NEW n, SrRead(t, n) \/ SrWrite(t, n) PROVE cp' = cp
    BY <2>3 DEF SrRead, SrWrite, SrStarts
  <2>4. ASSUME NEW t,
             \/ SrGet(t) \/ SrReadEnd(t) \/ SrReadNone(t) \/ SrWaited(t) \/ SrFlush(t)
             \/ SrPut(t) \/ SrPutRefused(t) \/ SrWritten(t)
        PROVE  cp' = cp
    BY <2>4 DEF SrGet, SrReadEnd, SrReadNone, SrWaited, SrFlush, SrPut, SrPutRefused, SrWritten,
                SrReturns
  <2>5. ASSUME NEW s, NEW c, SrIsrReceive(s) \/ SrIdleStore(c) \/ SrIdleLength \/ SrIdleWake
        PROVE  cp' = cp
    BY <2>5 DEF SrIsrReceive, SrIdleStore, SrIdleLength, SrIdleWake
  <2>6. cp' = cp \/ ~cp'.flag
    BY <1>4, <2>2, <2>3, <2>4, <2>5 DEF SrNext
  <2>. QED BY <2>1, <2>6, CpStays
<1>. QED BY <1>1, <1>2, <1>3, <1>4

-----------------------------------------------------------------------------
EvCalls == {"ev_recv"} \cup OnOps

\* Who waits for an event wants what the call says, and that has not come
EvPart ==
  \A u \in Thread : Contains(k.wait["ev"], u) => ~Satisfied(call[u].arg.want, call[u].arg.all, ev)

LEMMA EvMeans ==
  ASSUME Core, EvPart
  PROVE  EvNobodySatisfiedWaits
<1>1. k.wait["ev"] \in Seq(Thread)
  BY EventAssumption, KernelFunctions DEF Core
<1>2. \A u \in ToSet(k.wait["ev"]) : u \in Thread /\ Contains(k.wait["ev"], u)
  BY <1>1, LenProperties, ElementOfSeq DEF ToSet, Contains
<1>. QED BY <1>2 DEF EvPart, EvNobodySatisfiedWaits

LEMMA EvServes == Serves("ev", EvCalls)
<1>1. "ev" \in WaitList
  BY EventAssumption
<1>2. \A op : <<"ev", op>> \in WaitPairs => op \in EvCalls
  BY PairsAre DEF EvCalls
<1>. QED BY <1>1, <1>2 DEF Serves

\* Who goes on waiting wants what it wanted
LEMMA WishStays ==
  ASSUME Core, CoreStep, NEW w \in WaitList, NEW u \in Thread,
         Contains(k.wait[w], u), Contains(k'.wait[w], u)
  PROVE  call'[u] = call[u]
<1>1. k.stat[u] = "suspend" /\ k'.stat[u] = "suspend"
  BY WaiterSuspended DEF CoreStep, Core, RunningPart
<1>2. u = k.cur => pc[u] = "schedule"
  BY <1>1 DEF Core, RunningPart, WaitingPart
<1>3. CallKept(u)
  BY <1>2 DEF CoreStep, FlowPlaces
<1>. QED BY <1>1, <1>3 DEF CallKept

LEMMA EvStays ==
  ASSUME Core, CoreStep, EvPart, Shrinks("ev"), ev' \subseteq ev
  PROVE  EvPart'
<1> SUFFICES ASSUME NEW u \in Thread, Contains(k'.wait["ev"], u)
             PROVE  ~Satisfied(call'[u].arg.want, call'[u].arg.all, ev')
  BY DEF EvPart
<1>1. Contains(k.wait["ev"], u) /\ "ev" \in WaitList
  BY EventAssumption DEF Shrinks
<1>2. call'[u] = call[u] /\ ~Satisfied(call[u].arg.want, call[u].arg.all, ev)
  BY <1>1, WishStays DEF EvPart
<1>. QED BY <1>2 DEF Satisfied

LEMMA EvAside ==
  ASSUME Core, CoreStep, EvPart, ev' = ev, NEW F, Turns(F), F \cap EvCalls = {}
  PROVE  EvPart'
<1>1. Shrinks("ev")
  BY EvServes, AsideKeeps
<1>. QED BY <1>1, EvStays

\* One comes to wait whose bits are not there
LEMMA EvSits ==
  ASSUME Core, CoreStep, EvPart, ev' = ev, NEW t \in Running, NEW c, WaitOn(t, c, "ev"),
         ~Satisfied(c.arg.want, c.arg.all, ev)
  PROVE  EvPart'
<1> SUFFICES ASSUME NEW u \in Thread, Contains(k'.wait["ev"], u)
             PROVE  ~Satisfied(call'[u].arg.want, call'[u].arg.all, ev')
  BY DEF EvPart
<1>0. "ev" \in WaitList
  BY EventAssumption
<1>1. CASE Contains(k.wait["ev"], u)
  <2>1. call'[u] = call[u] /\ ~Satisfied(call[u].arg.want, call[u].arg.all, ev)
    BY <1>0, <1>1, WishStays DEF EvPart
  <2>. QED BY <2>1 DEF Satisfied
<1>2. CASE ~Contains(k.wait["ev"], u)
  <2>1. u = t
    BY <1>0, <1>2 DEF CoreStep, FlowLists, Blocked, Running
  <2>2. call'[u] = c
    BY <2>1 DEF WaitOn, Block, Core, PlacePart
  <2>. QED BY <2>2
<1>. QED BY <1>1, <1>2

\* rt_event_send leaves nobody whose bits are there
LEMMA EvSends ==
  ASSUME Core, CoreStep, NEW set, NEW s, s = EvPass(set), call' = s.call, ev' = s.set,
         k' = s.k \/ k' = Schedule(s.k)
  PROVE  EvPart'
<1> SUFFICES ASSUME NEW u \in Thread, Contains(k'.wait["ev"], u)
             PROVE  ~Satisfied(call'[u].arg.want, call'[u].arg.all, ev')
  BY DEF EvPart
<1>1. Wakes(k, s.k) /\ k'.stat = s.k.stat /\ k'.wait = s.k.wait /\ "ev" \in WaitList
  BY EvPassKeeps, EventAssumption
<1>2. k'.stat[u] # "ready"
  BY <1>1, KernelFunctions DEF CoreStep, Core
<1>3. Contains(k.wait["ev"], u)
  BY <1>1 DEF Wakes
<1>4. s \in Passing(set) /\ Looked(s, u)
  BY <1>3, PassStays
<1>5. s.call[u] = call[u] /\ ~Satisfied(call[u].arg.want, call[u].arg.all, s.set)
  BY <1>1, <1>2, <1>4 DEF Passing, Looked
<1>. QED BY <1>5

LEMMA EvUnstranded ==
  ASSUME Core, CoreStep, DetachPart, EvPart, EvNext
  PROVE  EvPart'
<1>0. "ev" \in WaitList /\ Serves("ev", EvCalls)
  BY EventAssumption, EvServes
<1>1. ASSUME k' = k, ev' \subseteq ev PROVE EvPart'
  BY <1>1, EvStays DEF Shrinks
<1>2. ASSUME NEW t \in Running, NEW c, EvRecv(t, c) \/ EvRecvRefused(t, c) PROVE EvPart'
  BY <1>1, <1>2 DEF EvRecv, EvRecvRefused, Refuse
<1>3. ASSUME NEW t \in Running, NEW c, EvRecvWait(t, c) PROVE EvPart'
  BY <1>3, EvSits DEF EvRecvWait
<1>4. ASSUME NEW t \in Running, NEW set, EvSend(t, set) PROVE EvPart'
  <2>1. PICK s : s = EvPass(set)
    OBVIOUS
  <2>. QED BY <1>4, <2>1, EvSends DEF EvSend
<1>5. ASSUME NEW set, EvIsrSend(set) PROVE EvPart'
  <2>1. PICK s : s = EvPass(set)
    OBVIOUS
  <2>2. k' = s.k \/ k' = Schedule(s.k)
    BY <1>5, <2>1 DEF EvIsrSend
  <2>. QED BY <1>5, <2>1, <2>2, EvSends DEF EvIsrSend
<1>6. ASSUME NEW t, EvReceived(t) \/ EvFail(t) PROVE EvPart'
  BY <1>1, <1>6 DEF EvReceived, EvFail, Fail
<1>7. ASSUME NEW t \in Running, EvReset(t) PROVE EvPart'
  <2>1. NoneClosed(k) /\ Wakes(k, k)
    BY NothingWakes DEF Core, RunningPart
  <2>2. k'.wait["ev"] = <<>>
    BY <1>0, <1>7, <2>1, WakeAllWakes DEF EvReset
  <2>. QED BY <2>2, EmptyList DEF EvPart
<1>8. ASSUME NEW t, EvDetach(t) PROVE EvPart'
  BY <1>1, <1>8 DEF EvDetach, Detach
<1>. QED BY <1>2, <1>3, <1>4, <1>5, <1>6, <1>7, <1>8 DEF EvNext

\* The client's steps: but for a report's rt_event_send and a wait they leave the kernel alone
LEMMA OnEvUnstranded ==
  ASSUME Core, CoreStep, EvPart, OnNext
  PROVE  EvPart'
<1>1. ASSUME k' = k, ev' \subseteq ev PROVE EvPart'
  BY <1>1, EvStays DEF Shrinks
<1>2. CASE CisSend
  <2>1. PICK s : s = EvPass(cis.sending)
    OBVIOUS
  <2>2. k' = s.k \/ k' = Schedule(s.k)
    BY <1>2, <2>1 DEF CisSend
  <2>. QED BY <1>2, <2>1, <2>2, EvSends DEF CisSend
<1>3. CASE UNCHANGED <<ev, caller>>
  BY <1>1, <1>3 DEF caller
<1>4. ASSUME NEW t \in Running, OnRecvWait(t) PROVE EvPart'
  BY <1>4, EvSits DEF OnRecvWait
<1>5. ASSUME NEW t, NEW op, NEW far, OnOpenFails(t, op, far) PROVE k' = k
  BY <1>5 DEF OnOpenFails, OnGoes, OnReturns
<1>6. ASSUME NEW t, NEW op, NEW r, NEW bits,
             OnStart(t) \/ OnOpen(t, op) \/ OnClose(t, op) \/ OnRequest(t, op, r, bits)
      PROVE  k' = k /\ ev' = ev
  BY <1>5, <1>6 DEF OnStart, OnOpen, OnClose, OnRequest, OnGoes, OnReturns
<1>7. ASSUME NEW t, OnObjects(t) \/ OnAsked(t) \/ OnRecv(t) \/ OnReceived(t) \/ OnDelete(t)
      PROVE  k' = k /\ ev' \subseteq ev
  BY <1>7 DEF OnObjects, OnAsked, OnRecv, OnReceived, OnDelete, OnGoes
<1>8. ASSUME NEW t,
             \/ OnTimeout(t) \/ OnRegistered(t) \/ OnObserved(t) \/ OnDiscovered(t)
             \/ OnClosed(t) \/ OnUpdated(t) \/ OnNotified(t)
      PROVE  k' = k /\ ev' = ev
  <2>1. CASE OnTimeout(t) \/ OnRegistered(t) \/ OnDiscovered(t)
    BY <1>5, <2>1 DEF OnTimeout, OnRegistered, OnDiscovered, OnGoes, OnReturns
  <2>2. CASE OnObserved(t) \/ OnClosed(t) \/ OnUpdated(t) \/ OnNotified(t)
    BY <2>2 DEF OnObserved, OnClosed, OnUpdated, OnNotified, OnGoes, OnReturns
  <2>. QED BY <1>8, <2>1, <2>2
<1>. QED BY <1>1, <1>2, <1>3, <1>4, <1>6, <1>7, <1>8 DEF OnNext, CisNext

-----------------------------------------------------------------------------
(***************************************************************************)
(* The serial device.  A reader is woken by the hook that put a byte in    *)
(* the FIFO, through the flag of the wait queue when it is not asleep yet, *)
(* and a writer by the transmitter, through the completion.                *)
(***************************************************************************)
DriverOps == {"cp_wait", "sr_read", "sr_write"}

\* Who is in such a call makes them
UsePart ==
  \A t \in Thread :
    pc[t] \in WaitPlaces /\ call[t].op \in DriverOps => call[t].op \in use.calls[t]

\* Nothing to read, or the hook of the idle thread will wake the reader for it
Fed == SrEmpty \/ pc[Idle] \in {"sr_length", "sr_wake"}

\* t is asleep in a read
Dozes(t) ==
  k.stat[t] = "suspend" /\ pc[t] \in {"schedule", "again"} /\ call[t].op = "sr_read"

\* t, which alone reads
ReaderFits(t) ==
  /\ \A u : Contains(wq["serial"].nodes, u) => u = t
  /\ Dozes(t) => wq["serial"].nodes # <<>> /\ Fed
  /\ pc[t] = "sr_wait" => wq["serial"].flag \/ Fed

ReaderPart == \A t \in Thread : SrReaders = {t} => ReaderFits(t)

\* The transmitter has a byte to send while somebody waits for it
WriterPart ==
  /\ \A t \in Thread : pc[t] = "sr_busy" => sr.busy \/ cp.flag
  /\ \A t \in Thread : Contains(k.wait["cp"], t) /\ call[t].op = "sr_write" => sr.busy

SrPart == UsePart /\ ReaderPart /\ (OneWriter => WriterPart)

LEMMA SrMeans ==
  ASSUME Core, SrPart, OneWriter
  PROVE  SrNobodyStranded
<1>1. ASSUME NEW t \in SrReaders, Cardinality(SrReaders) = 1, call[t] # None,
             call[t].op = "sr_read", k.stat[t] = "suspend"
      PROVE  Fed
  <2>1. SrReaders = {t} /\ t \in Thread
    <3>1. t \in Thread /\ SrReaders \in SUBSET Thread
      BY DEF SrReaders
    <3>2. IsFiniteSet(SrReaders)
      BY <3>1, KernelAssumption, FS_Subset
    <3>3. PICK u : SrReaders = {u}
      BY <1>1, <3>2, FS_Singleton
    <3>. QED BY <3>1, <3>3
  <2>2. pc[t] \in {"schedule", "again"}
    <3>1. pc[t] \in {"schedule", "again", "post", "run"}
      BY <1>1, <2>1 DEF Core, RunningPart
    <3>. QED BY <1>1, <2>1, <3>1 DEF Core, PlacePart, CallFits
  <2>. QED BY <1>1, <2>1, <2>2 DEF SrPart, ReaderPart, ReaderFits, Dozes
<1>2. ASSUME NEW t \in ToSet(k.wait["cp"]), call[t].op = "sr_write" PROVE sr.busy
  <2>1. k.wait["cp"] \in Seq(Thread)
    BY CompletionAssumption, KernelFunctions DEF Core
  <2>2. t \in Thread /\ Contains(k.wait["cp"], t)
    BY <2>1, LenProperties, ElementOfSeq DEF ToSet, Contains
  <2>. QED BY <1>2, <2>2 DEF SrPart, WriterPart
<1>. QED BY <1>1, <1>2 DEF SrNobodyStranded, Fed

-----------------------------------------------------------------------------
\* The call of another thread, or of one that does not move, is the one it was in
LEMMA SameCall ==
  ASSUME Core, CoreStep, NEW t \in Thread, t # Idle, t # k.cur \/ pc[t] = "schedule"
  PROVE  call'[t] = call[t] \/ call'[t].op = call[t].op
BY DEF CoreStep, FlowPlaces, CallKept

\* Who dozes in a read after a step dozed before, unless it sits down
LEMMA DozedBefore ==
  ASSUME Core, CoreStep, NEW t \in Thread, Dozes(t)',
         t # k.cur \/ pc'[t] = pc[t] \/ (pc[t] = "schedule" /\ pc'[t] = "again")
  PROVE  Dozes(t)
<1>1. t # Idle
  BY DEF CoreStep, Core, PlacePart, Dozes
<1>2. CASE t # k.cur
  <2>1. pc'[t] = pc[t]
    BY <1>1, <1>2 DEF CoreStep, FlowPlaces
  <2>2. k.stat[t] = "suspend"
    BY <1>2 DEF CoreStep, FlowStates, Blocked, Dozes
  <2>3. call[t].op = "sr_read"
    BY <1>1, <1>2, SameCall DEF Dozes
  <2>. QED BY <2>1, <2>2, <2>3 DEF Dozes
<1>3. CASE t = k.cur
  <2>1. k.stat[t] = "suspend"
    BY <1>3 DEF CoreStep, FlowStates, Blocked, Dozes
  <2>2. pc[t] = "schedule"
    BY <1>3, <2>1 DEF Core, RunningPart, Dozes
  <2>3. call[t].op = "sr_read"
    BY <1>1, <2>2, SameCall DEF Dozes
  <2>. QED BY <2>1, <2>2, <2>3 DEF Dozes
<1>. QED BY <1>2, <1>3

\* Who is on a suspend list and was on it is in the call it was in
LEMMA SameWait ==
  ASSUME Core, CoreStep, NEW w \in WaitList, NEW t \in Thread, Contains(k.wait[w], t)
  PROVE  call'[t] = call[t] \/ call'[t].op = call[t].op
<1>1. pc[t] \in {"schedule", "again"} /\ k.stat[t] # "ready"
  BY KernelFunctions DEF Core, WaitingPart
<1>2. t # Idle
  BY <1>1 DEF Core, PlacePart
<1>3. t = k.cur => pc[t] = "schedule"
  BY <1>1 DEF Core, RunningPart
<1>. QED BY <1>2, <1>3, SameCall

\* The calls in use stay those in use
LEMMA UseStays ==
  ASSUME Core, CoreStep, UsePart, NEW F, Turns(F),
         pc'[k.cur] \in WaitPlaces /\ call'[k.cur].op \in F \cap DriverOps
           => call'[k.cur].op \in use.calls[k.cur]
  PROVE  UsePart'
<1> SUFFICES ASSUME NEW t \in Thread, pc'[t] \in WaitPlaces, call'[t].op \in DriverOps
             PROVE  call'[t].op \in use'.calls[t]
  BY DEF UsePart
<1>1. use' = use
  BY DEF CoreStep, FlowPlaces
<1>2. t # Idle
  BY DEF CoreStep, Core, PlacePart, WaitPlaces
<1>3. ASSUME pc[t] \in WaitPlaces, call'[t] = call[t] \/ call'[t].op = call[t].op
      PROVE  call'[t].op \in use.calls[t]
  BY <1>3 DEF UsePart
<1>4. CASE t # k.cur
  <2>1. pc'[t] = pc[t]
    BY <1>2, <1>4 DEF CoreStep, FlowPlaces
  <2>. QED BY <1>1, <1>2, <1>3, <1>4, <2>1, SameCall
<1>5. CASE t = k.cur
  <2>1. CASE /\ pc'[t] = pc[t] \/ (pc[t] = "schedule" /\ pc'[t] = "again")
             /\ CallKept(t)
    <3>1. pc[t] \in WaitPlaces
      BY <2>1 DEF WaitPlaces
    <3>. QED BY <1>1, <1>3, <2>1, <3>1 DEF CallKept
  <2>2. CASE call'[t].op \in F
    BY <1>1, <1>5, <2>2
  <2>. QED BY <1>5, <2>1, <2>2 DEF Turns, Joins
<1>. QED BY <1>4, <1>5

-----------------------------------------------------------------------------
\* The steps that are no steps of a read
LEMMA ReaderAside ==
  ASSUME Core, CoreStep, ReaderPart, NEW F, Turns(F), "sr_read" \notin F,
         wq'["serial"] = wq["serial"], Fed => Fed'
  PROVE  ReaderPart'
<1> SUFFICES ASSUME NEW t \in Thread, SrReaders' = {t} PROVE ReaderFits(t)'
  BY DEF ReaderPart
<1>1. SrReaders' = SrReaders
  BY DEF CoreStep, FlowPlaces, SrReaders
<1>2. ReaderFits(t)
  BY <1>1 DEF ReaderPart
<1>3. ASSUME t = k.cur, pc'[t] \in WaitPlaces, call'[t].op = "sr_read"
      PROVE  pc'[t] = pc[t] \/ (pc[t] = "schedule" /\ pc'[t] = "again")
  BY <1>3 DEF Turns, Joins
<1>4. ASSUME Dozes(t)' PROVE Dozes(t)
  <2>1. pc'[t] \in WaitPlaces /\ call'[t].op = "sr_read"
    BY <1>4 DEF Dozes, WaitPlaces
  <2>. QED BY <1>3, <1>4, <2>1, DozedBefore
<1>5. ASSUME pc'[t] = "sr_wait" PROVE pc[t] = "sr_wait"
  <2>1. pc'[t] \in WaitPlaces /\ t # Idle
    BY <1>5 DEF WaitPlaces, CoreStep, Core, PlacePart
  <2>2. call'[t].op = "sr_read"
    <3>1. call'[t] \in SerialCall({"sr_read"})
      BY <1>5 DEF CoreStep, Core, PlacePart, CallFits, SerialCall
    <3>. QED BY <3>1 DEF SerialCall
  <2>3. CASE t = k.cur
    BY <1>3, <1>5, <2>1, <2>2, <2>3
  <2>4. CASE t # k.cur
    BY <1>5, <2>1, <2>4 DEF CoreStep, FlowPlaces
  <2>. QED BY <2>3, <2>4
<1>. QED BY <1>2, <1>4, <1>5 DEF ReaderFits

-----------------------------------------------------------------------------
\* What is left of a list without its first, or without one in it, was in the list
LEMMA TailWas ==
  ASSUME NEW S, NEW s \in Seq(S), s # <<>>, NEW u, Contains(Tail(s), u)
  PROVE  Contains(s, u)
<1>1. /\ Tail(s) \in Seq(S) /\ Len(Tail(s)) = Len(s) - 1 /\ Len(s) \in Nat
      /\ \A i \in 1..Len(Tail(s)) : Tail(s)[i] = s[i + 1]
  BY HeadTailProperties, LenProperties
<1>2. PICK i \in 1..Len(Tail(s)) : Tail(s)[i] = u
  BY DEF Contains
<1>3. i + 1 \in 1..Len(s) /\ s[i + 1] = u
  BY <1>1, <1>2
<1>. QED BY <1>3 DEF Contains

LEMMA RemovedWas ==
  ASSUME NEW S, NEW s \in Seq(S), NEW t, NEW u, Contains(RemoveFirst(s, t), u)
  PROVE  Contains(s, u)
<1>1. CASE ~Contains(s, t)
  BY <1>1, RemoveFirstList
<1>2. CASE Contains(s, t)
  <2> DEFINE r == RemoveFirst(s, t)
  <2>1. Contains(r, u)
    OBVIOUS
  <2> HIDE DEF r
  <2>2. PICK n \in 1..Len(s) :
          /\ r \in Seq(S) /\ Len(r) = Len(s) - 1
          /\ \A i \in 1..(n - 1) : r[i] = s[i]
          /\ \A i \in n..(Len(s) - 1) : r[i] = s[i + 1]
    <3>1. PICK n \in 1..Len(s) :
            /\ s[n] = t
            /\ r \in Seq(S)
            /\ Len(r) = Len(s) - 1
            /\ \A i \in 1..(n - 1) : r[i] = s[i]
            /\ \A i \in n..(Len(s) - 1) : r[i] = s[i + 1]
      BY <1>2, RemoveFirstItems DEF r
    <3>. QED BY <3>1
  <2>3. PICK i \in 1..Len(r) : r[i] = u
    BY <2>1 DEF Contains
  <2>4. Len(s) \in Nat
    BY LenProperties
  <2>5. CASE i < n
    <3>1. i \in 1..Len(s) /\ s[i] = u
      BY <2>2, <2>3, <2>4, <2>5
    <3>. QED BY <3>1 DEF Contains
  <2>6. CASE ~(i < n)
    <3>1. i + 1 \in 1..Len(s) /\ s[i + 1] = u
      BY <2>2, <2>3, <2>4, <2>6
    <3>. QED BY <3>1 DEF Contains
  <2>. QED BY <2>5, <2>6
<1>. QED BY <1>1, <1>2

\* rt_wqueue_wakeup leaves the first of the queue awake
LEMMA HeadResumed ==
  ASSUME Core, WqPart, NEW q \in WaitQueueName, wq[q].nodes # <<>>,
         k' = Schedule(WqResumed(k, q))
  PROVE  k'.stat[Head(wq[q].nodes)] # "suspend"
<1>1. PICK h : h = Head(wq[q].nodes)
  OBVIOUS
<1>2. h \in Thread
  <2>1. wq[q].nodes \in Seq(Thread)
    BY DEF WqPart
  <2>. QED BY <1>1, <2>1
<1>3. PICK z : z = Resume(k, h)
  OBVIOUS
<1>4. WqResumed(k, q) = z
  BY <1>1, <1>3 DEF WqResumed
<1>5. KernelInv(z, {}) /\ z.stat[h] # "suspend"
  <2>1. CASE k.stat[h] = "suspend"
    <3>1. KernelInv(z, {}) /\ Woken(k, z, h)
      BY <1>2, <1>3, <2>1, ResumeKeeps DEF Core
    <3>2. k.stat \in [Thread -> Stat] /\ z.stat = [k.stat EXCEPT ![h] = "ready"]
      BY <3>1, KernelFunctions DEF Woken, Core
    <3>3. z.stat[h] = "ready"
      BY <1>2, <3>2
    <3>. QED BY <3>1, <3>3
  <2>2. CASE k.stat[h] # "suspend"
    BY <1>3, <2>2 DEF Resume, Core
  <2>. QED BY <2>1, <2>2
<1>6. PICK y : y = Schedule(z)
  OBVIOUS
<1>7. y.stat = z.stat
  <2>1. y = [z EXCEPT !.cur = y.cur]
    BY <1>5, <1>6, ScheduleKeeps
  <2>. QED BY <1>5, <2>1 DEF KernelInv, KernelType
<1>. QED BY <1>1, <1>4, <1>5, <1>6, <1>7

\* serial_fops_rx_ind, of a driver or in the hook
LEMMA ReaderWoken ==
  ASSUME Core, CoreStep, WqPart, ReaderPart,
         wq' = [wq EXCEPT !["serial"] = WqWoken("serial")],
         k' = IF wq["serial"].nodes # <<>> THEN Schedule(WqResumed(k, "serial")) ELSE k,
         \A u \in Thread : u # Idle => pc'[u] = pc[u]
  PROVE  ReaderPart'
<1> SUFFICES ASSUME NEW t \in Thread, SrReaders' = {t} PROVE ReaderFits(t)'
  BY DEF ReaderPart
<1>1. SrReaders' = SrReaders
  BY DEF CoreStep, FlowPlaces, SrReaders
<1>2. ReaderFits(t)
  BY <1>1 DEF ReaderPart
<1>3. "serial" \in WaitQueueName
  BY SerialAssumption
<1>4. PICK q : q = wq["serial"].nodes
  OBVIOUS
<1>5. q \in Seq(Thread)
  BY <1>3, <1>4 DEF WqPart
<1>6. wq'["serial"].flag /\ wq'["serial"].nodes = IF q = <<>> THEN <<>> ELSE Tail(q)
  BY <1>3, <1>4 DEF WqPart, WqWoken
<1>7. \A u : Contains(wq'["serial"].nodes, u) => Contains(q, u)
  BY <1>5, <1>6, TailWas
<1>8. ~Dozes(t)'
  <2> SUFFICES ASSUME Dozes(t)' PROVE FALSE
    OBVIOUS
  <2>1. pc'[t] = pc[t]
    BY DEF CoreStep, Core, PlacePart, Dozes
  <2>2. Dozes(t)
    BY <2>1, DozedBefore
  <2>3. q # <<>>
    BY <1>2, <1>4, <2>2 DEF ReaderFits
  <2>4. Contains(q, Head(q))
    BY <1>5, <2>3, HeadList
  <2>5. Head(q) = t
    BY <1>2, <1>4, <2>4 DEF ReaderFits
  <2>6. k' = Schedule(WqResumed(k, "serial"))
    BY <1>4, <2>3
  <2>. QED BY <1>3, <1>4, <2>3, <2>5, <2>6, HeadResumed DEF Dozes
<1>. QED BY <1>2, <1>4, <1>6, <1>7, <1>8 DEF ReaderFits

\* The running thread goes on, and comes to wait only when there is nothing to read
LEMMA ReaderOn ==
  ASSUME Core, CoreStep, ReaderPart, wq'["serial"] = wq["serial"], Fed => Fed',
         pc'[k.cur] \notin {"schedule", "again"} \/ pc'[k.cur] = pc[k.cur],
         pc'[k.cur] = "sr_wait" => pc[k.cur] = "sr_wait" \/ Fed'
  PROVE  ReaderPart'
<1> SUFFICES ASSUME NEW t \in Thread, SrReaders' = {t} PROVE ReaderFits(t)'
  BY DEF ReaderPart
<1>1. SrReaders' = SrReaders
  BY DEF CoreStep, FlowPlaces, SrReaders
<1>2. ReaderFits(t)
  BY <1>1 DEF ReaderPart
<1>3. ASSUME Dozes(t)' PROVE Dozes(t)
  <2>1. t # k.cur \/ pc'[t] = pc[t]
    BY <1>3 DEF Dozes
  <2>. QED BY <1>3, <2>1, DozedBefore
<1>4. ASSUME pc'[t] = "sr_wait" PROVE pc[t] = "sr_wait" \/ Fed'
  <2>1. t # Idle
    BY <1>4 DEF CoreStep, Core, PlacePart
  <2>. QED BY <1>4, <2>1 DEF CoreStep, FlowPlaces
<1>. QED BY <1>2, <1>3, <1>4 DEF ReaderFits

\* The reader waits, in rt_wqueue_wait
LEMMA ReaderWaits ==
  ASSUME Core, CoreStep, WqPart, UsePart, ReaderPart,
         NEW r \in Running, SrWait(r) \/ SrWaited(r)
  PROVE  ReaderPart'
<1> SUFFICES ASSUME NEW t \in Thread, SrReaders' = {t} PROVE ReaderFits(t)'
  BY DEF ReaderPart
<1>1. SrReaders = {t}
  BY DEF CoreStep, FlowPlaces, SrReaders
<1>2. ReaderFits(t)
  BY <1>1 DEF ReaderPart
<1>3. "serial" \in WaitQueueName /\ pc \in [Thread -> AllLabels]
  BY SerialAssumption DEF Core, PlacePart
<1>4. r = t /\ t # Idle
  <2>1. r \in Thread /\ r # Idle /\ call[r].op = "sr_read" /\ pc[r] \in WaitPlaces
    BY InSerial, KernelFunctions
    DEF SrWait, SrWaited, WqReturn, WqUnqueue, At, SerialCall, WaitPlaces, Running, Core
  <2>2. r \in SrReaders
    BY <2>1 DEF UsePart, DriverOps, SrReaders
  <2>. QED BY <1>1, <2>1, <2>2
<1>5. PICK q : q = wq["serial"].nodes
  OBVIOUS
<1>6. q \in Seq(Thread)
  BY <1>3, <1>5 DEF WqPart
<1>7. sr' = sr
  BY DEF SrWait, SrWaited, serial
<1>8. CASE WqPass(t, "serial", "sr_get") \/ WqReturn(t, "serial")
  <2>1. wq'["serial"].nodes = q
    BY <1>3, <1>5, <1>8 DEF WqPass, WqReturn, WqPart
  <2>2. pc'[t] \in {"sr_get", "unqueue"}
    BY <1>3, <1>8 DEF WqPass, WqReturn, Goto
  <2>. QED BY <1>2, <1>5, <2>1, <2>2 DEF ReaderFits, Dozes
<1>9. CASE WqUnqueue(t, "serial", "sr_get")
  <2>1. wq'["serial"].nodes = RemoveFirst(q, t)
    BY <1>3, <1>5, <1>9 DEF WqUnqueue, WqPart
  <2>2. pc'[t] = "sr_get"
    BY <1>3, <1>9 DEF WqUnqueue, Goto
  <2>3. \A u : Contains(wq'["serial"].nodes, u) => u = t
    BY <1>2, <1>5, <1>6, <2>1, RemovedWas DEF ReaderFits
  <2>. QED BY <2>2, <2>3 DEF ReaderFits, Dozes
<1>10. CASE WqBlock(t, "serial") /\ pc[t] = "sr_wait"
  <2>1. wq'["serial"].nodes = Append(q, t)
    BY <1>3, <1>5, <1>10 DEF WqBlock, WqPart
  <2>2. pc'[t] = "schedule" /\ pc'[Idle] = pc[Idle]
    BY <1>3, <1>4, <1>10, KernelAssumption DEF WqBlock, Block, Goto
  <2>3. Fed
    BY <1>2, <1>10 DEF WqBlock, ReaderFits
  <2>4. Fed'
    BY <1>7, <2>2, <2>3 DEF Fed, SrEmpty
  <2>5. wq'["serial"].nodes # <<>> /\ \A u : Contains(wq'["serial"].nodes, u) => u = t
    <3>1. Append(q, t) # <<>> /\ \A u : Contains(Append(q, t), u) <=> Contains(q, u) \/ u = t
      BY <1>6, AppendList
    <3>. QED BY <1>2, <1>5, <2>1, <3>1 DEF ReaderFits
  <2>. QED BY <2>2, <2>4, <2>5 DEF ReaderFits
<1>. QED BY <1>4, <1>8, <1>9, <1>10 DEF SrWait, SrWaited, At

\* put_index is get_index only in an empty FIFO
LEMMA FullHolds ==
  ASSUME FifoHolds(sr, unread), sr.put = sr.get
  PROVE  SrEmpty
<1>1. sr.put \in Nat /\ sr.get \in Nat
  BY SrSizes DEF FifoHolds, Shows, SrState
<1>2. Off(SrSize, sr.put, sr.get) = 0
  BY <1>1 DEF Off
<1>. QED BY <1>2 DEF FifoHolds, Shows, SrEmpty

\* The hook of the idle thread, of whichever step it is part
LEMMA IdleReader ==
  ASSUME Core, CoreStep, WqPart, FifoHolds(sr, unread), ReaderPart, IdleRuns
  PROVE  ReaderPart'
<1>0. pc \in [Thread -> AllLabels] /\ k.cur \in Thread /\ Idle \in Thread
  BY KernelFunctions, KernelAssumption DEF Core, PlacePart
<1>1. CASE SrIdleWake
  <2>1. \A u \in Thread : u # Idle => pc'[u] = pc[u]
    BY <1>0, <1>1 DEF SrIdleWake, Goto
  <2>. QED BY <1>1, <2>1, ReaderWoken DEF SrIdleWake
<1>2. ASSUME NEW c, SrIdleStore(c) PROVE ReaderPart'
  <2>1. k.cur = Idle /\ pc'[Idle] = "sr_length" /\ wq' = wq
    BY <1>0, <1>2 DEF SrIdleStore, At, Goto
  <2>. QED BY <2>1, ReaderOn DEF Fed
<1>3. CASE SrIdleLength
  <2>1. k.cur = Idle /\ wq' = wq /\ sr' = sr
    BY <1>3 DEF SrIdleLength, At, serial
  <2>2. CASE sr.put = sr.get
    <3>1. pc'[Idle] = "run"
      BY <1>0, <1>3, <2>2 DEF SrIdleLength, Goto
    <3>2. Fed'
      BY <2>1, <2>2, FullHolds DEF Fed, SrEmpty
    <3>. QED BY <2>1, <3>1, <3>2, ReaderOn
  <2>3. CASE sr.put # sr.get
    <3>1. pc'[Idle] = "sr_wake"
      BY <1>0, <1>3, <2>3 DEF SrIdleLength, Goto
    <3>. QED BY <2>1, <3>1, ReaderOn DEF Fed
  <2>. QED BY <2>2, <2>3
<1>. QED BY <1>1, <1>2, <1>3 DEF IdleRuns

LEMMA SrReader ==
  ASSUME Core, CoreStep, WqPart, FifoHolds(sr, unread), UsePart, ReaderPart, SrNext
  PROVE  ReaderPart'
<1>0. pc \in [Thread -> AllLabels] /\ k.cur \in Thread /\ Idle \in Thread
  BY KernelFunctions, KernelAssumption DEF Core, PlacePart
<1>1. ASSUME NEW t \in Running, NEW n, SrRead(t, n) \/ SrWrite(t, n) PROVE ReaderPart'
  <2>1. t = k.cur /\ t # Idle /\ sr' = sr /\ wq' = wq
    BY <1>1, StartsFree DEF SrRead, SrWrite, SrStarts, serial, Running
  <2>2. PICK p \in {"sr_get", "sr_put"} : Goto(t, p)
    BY <1>1 DEF SrRead, SrWrite, SrStarts
  <2>3. pc'[t] = p /\ pc'[Idle] = pc[Idle]
    BY <1>0, <2>1, <2>2 DEF Goto
  <2>4. Fed => Fed'
    BY <2>1, <2>3 DEF Fed, SrEmpty
  <2>. QED BY <2>1, <2>3, <2>4, ReaderOn
<1>2. ASSUME NEW t \in Running, SrGet(t) PROVE ReaderPart'
  <2>1. pc' = pc /\ wq' = wq
    BY <1>2 DEF SrGet
  <2>2. Fed => Fed'
    BY <1>2, <2>1 DEF Fed, SrGet
  <2>. QED BY <2>1, <2>2, ReaderOn
<1>3. ASSUME NEW t \in Running, SrReadNone(t) PROVE ReaderPart'
  <2>1. t = k.cur /\ pc'[t] = "sr_wait" /\ wq' = wq /\ sr' = sr /\ SrEmpty
    BY <1>0, <1>3 DEF SrReadNone, Goto, serial, Running
  <2>2. Fed'
    BY <2>1 DEF Fed, SrEmpty
  <2>. QED BY <2>1, <2>2, ReaderOn
<1>4. ASSUME NEW t \in Running,
             SrReadEnd(t) \/ SrPutRefused(t) \/ SrPutAgain(t) \/ SrPutWaited(t) \/ SrWritten(t)
      PROVE  ReaderPart'
  <2>1. t = k.cur /\ wq' = wq /\ sr' = sr
    BY <1>4 DEF SrReadEnd, SrPutRefused, SrPutAgain, SrPutWaited, SrWritten, SrReturns, serial, Running
  <2>2. PICK p \in {"run", "sr_busy", "sr_put"} : Goto(t, p)
    BY <1>4 DEF SrReadEnd, SrPutRefused, SrPutAgain, SrPutWaited, SrWritten, SrReturns
  <2>3. t # Idle
    BY <1>4 DEF SrReadEnd, SrPutRefused, SrPutAgain, SrPutWaited, SrWritten, At, Core, PlacePart
  <2>4. pc'[t] = p /\ pc'[Idle] = pc[Idle]
    BY <1>0, <2>1, <2>2, <2>3 DEF Goto
  <2>5. Fed => Fed'
    BY <2>1, <2>4 DEF Fed, SrEmpty
  <2>. QED BY <2>1, <2>4, <2>5, ReaderOn
<1>5. ASSUME NEW t, SrFlush(t) PROVE ReaderPart'
  <2>1. pc' = pc /\ wq' = wq
    BY <1>5 DEF SrFlush, caller
  <2>2. SrEmpty'
    <3>1. sr \in SrState /\ sr' = [sr EXCEPT !.put = 0, !.get = 0, !.full = FALSE]
      BY <1>5 DEF SrFlush, FifoHolds, Shows
    <3>. QED BY <3>1 DEF SrEmpty, SrState
  <2>. QED BY <2>1, <2>2, ReaderOn DEF Fed
<1>6. ASSUME NEW t, SrPut(t) \/ SrIsrSent PROVE ReaderPart'
  <2>1. pc' = pc /\ wq' = wq
    BY <1>6 DEF SrPut, SrIsrSent
  <2>2. sr'.put = sr.put /\ sr'.get = sr.get /\ sr'.full = sr.full
    <3>1. sr \in SrState /\ \E v : sr' = [sr EXCEPT !.busy = v]
      BY <1>6 DEF SrPut, SrIsrSent, FifoHolds, Shows
    <3>. QED BY <3>1 DEF SrState
  <2>3. Fed => Fed'
    BY <2>1, <2>2 DEF Fed, SrEmpty
  <2>. QED BY <2>1, <2>3, ReaderOn
<1>7. ASSUME NEW t \in Running, SrPutWait(t) PROVE ReaderPart'
  <2>1. call[t].op \in {"sr_write"} /\ pc[t] # "again" /\ t # Idle /\ sr' = sr /\ wq' = wq
    BY <1>7, InSerial DEF SrPutWait, At, SerialCall, serial
  <2>2. Turns({"sr_write"})
    BY <1>7, <2>1, BlockTurns DEF SrPutWait
  <2>3. pc'[Idle] = pc[Idle]
    BY <1>0, <1>7, <2>1 DEF SrPutWait, Block, Goto
  <2>4. Fed => Fed'
    BY <2>1, <2>3 DEF Fed, SrEmpty
  <2>. QED BY <2>1, <2>2, <2>4, ReaderAside
<1>8. ASSUME NEW s, SrIsrReceive(s) PROVE ReaderPart'
  BY <1>8, ReaderWoken DEF SrIsrReceive
<1>9. ASSUME NEW c, SrIdleStore(c) \/ SrIdleLength \/ SrIdleWake PROVE ReaderPart'
  BY <1>9, IdleReader DEF IdleRuns
<1>. QED BY <1>1, <1>2, <1>3, <1>4, <1>5, <1>6, <1>7, <1>8, <1>9, ReaderWaits DEF SrNext

-----------------------------------------------------------------------------
\* Who begins such a call makes it
LEMMA SrUses ==
  ASSUME Core, UsePart, SrNext, pc'[k.cur] \in WaitPlaces, call'[k.cur].op \in DriverOps
  PROVE  call'[k.cur].op \in use.calls[k.cur]
<1> DEFINE u == k.cur
<1>0. u \in Thread /\ pc \in [Thread -> AllLabels] /\ DOMAIN call = Thread
  BY KernelFunctions DEF Core, PlacePart
<1>1. ASSUME pc[u] \in WaitPlaces, call'[u] = call[u] \/ call'[u].op = call[u].op
      PROVE  call'[u].op \in use.calls[u]
  BY <1>0, <1>1 DEF UsePart
<1>2. ASSUME NEW op, NEW n, NEW p, SrStarts(u, op, n, p) PROVE call'[u].op \in use.calls[u]
  <2>1. call'[u] = SrCall(op, n) /\ op \in use.calls[u]
    BY <1>0, <1>2 DEF SrStarts, Starts
  <2>. QED BY <2>1 DEF SrCall
<1>3. CASE SrGet(u) \/ SrPut(u)
  <2>1. pc[u] \in WaitPlaces
    BY <1>3 DEF SrGet, SrPut, At, WaitPlaces
  <2>2. call[u] \in SerialCall({"sr_read", "sr_write"})
    BY <1>0, <1>3 DEF SrGet, SrPut, At, Core, PlacePart, CallFits, SerialCall
  <2>3. PICK c, d : c = call[u] /\ d = call'[u]
    OBVIOUS
  <2>4. d = [c EXCEPT !.arg = @ - 1, !.some = TRUE] \/ d = [c EXCEPT !.arg = @ - 1]
    BY <1>0, <1>3, <2>3 DEF SrGet, SrPut
  <2>5. d.op = c.op
    BY <2>2, <2>3, <2>4 DEF SerialCall
  <2>. QED BY <1>1, <2>1, <2>3, <2>5
<1>4. CASE SrReadNone(u) \/ SrWait(u) \/ SrWaited(u) \/ SrPutRefused(u) \/ SrPutAgain(u)
           \/ SrPutWait(u) \/ SrPutWaited(u)
  <2>1. pc[u] \in WaitPlaces
    BY <1>4 DEF SrReadNone, SrWait, SrWaited, WqReturn, WqUnqueue, SrPutRefused, SrPutAgain,
                SrPutWait, SrPutWaited, At, WaitPlaces
  <2>2. call'[u] = call[u]
    BY <1>0, <1>4 DEF SrReadNone, SrWait, SrWaited, WqPass, WqBlock, WqReturn, WqUnqueue,
                      SrPutRefused, SrPutAgain, SrPutWait, SrPutWaited, Block
  <2>. QED BY <1>1, <2>1, <2>2
<1>5. CASE SrReadEnd(u) \/ SrWritten(u)
  BY <1>0, <1>5 DEF SrReadEnd, SrWritten, SrReturns, Goto, WaitPlaces
<1>6. CASE pc' = pc /\ call' = call
  BY <1>1, <1>6
<1>7. ASSUME NEW c, SrIdleStore(c) \/ SrIdleLength \/ SrIdleWake PROVE FALSE
  <2>1. u = Idle
    BY <1>7 DEF SrIdleStore, SrIdleLength, SrIdleWake, At
  <2>. QED BY <1>0, <1>7, <2>1 DEF SrIdleStore, SrIdleLength, SrIdleWake, Goto, WaitPlaces
<1>8. ASSUME NEW s, SrFlush(u) \/ SrIsrReceive(s) \/ SrIsrSent PROVE pc' = pc /\ call' = call
  BY <1>8 DEF SrFlush, SrIsrReceive, SrIsrSent, caller
<1>. QED BY <1>2, <1>3, <1>4, <1>5, <1>6, <1>7, <1>8 DEF SrNext, Running, SrRead, SrWrite

LEMMA CpUses ==
  ASSUME Core, DetachPart, UsePart, CpNext, pc'[k.cur] \in WaitPlaces,
         call'[k.cur].op \in {"cp_wait"}
  PROVE  call'[k.cur].op \in use.calls[k.cur]
<1> DEFINE u == k.cur
<1>0. u \in Thread /\ pc \in [Thread -> AllLabels] /\ DOMAIN call = Thread
  BY KernelFunctions DEF Core, PlacePart
<1>1. ASSUME NEW c \in WaitDone, CpWait(u, c) PROVE call'[u].op \in use.calls[u]
  <2>1. call'[u] = c /\ c.op \in use.calls[u]
    BY <1>0, <1>1 DEF CpWait, Block, Enters, Starts
  <2>. QED BY <2>1
<1>2. ASSUME NEW c, NEW woke, NEW v,
             \/ CpWaitDone(u, c) \/ CpWaitRefused(u, c) \/ CpReturn(u) \/ CpDoneTest(u) \/ CpDone(u)
      PROVE  FALSE
  <2>1. PICK p \in {"run", "post", "ret", "done"} : Goto(u, p)
    BY <1>2 DEF CpWaitDone, CpWaitRefused, CpReturn, CpDoneTest, CpDone, Finish, Refuse
  <2>. QED BY <1>0, <2>1 DEF Goto, WaitPlaces
<1>3. CASE CpIsrDone
  BY <1>0, <1>3 DEF CpIsrDone, UsePart, DriverOps
<1>. QED BY <1>1, <1>2, <1>3 DEF CpNext, Running

-----------------------------------------------------------------------------
\* The steps of other calls than a write leave the waiting writer as it is
LEMMA SentAside ==
  ASSUME Core, CoreStep, WriterPart, NEW F, Turns(F), "sr_write" \notin F,
         sr.busy => sr'.busy,
         NEW t \in Thread, Contains(k'.wait["cp"], t), call'[t].op = "sr_write"
  PROVE  sr'.busy
<1>0. "cp" \in WaitList
  BY CompletionAssumption
<1>1. CASE Contains(k.wait["cp"], t)
  <2>1. call[t].op = "sr_write"
    BY <1>0, <1>1, SameWait
  <2>. QED BY <1>1, <2>1 DEF WriterPart
<1>2. CASE ~Contains(k.wait["cp"], t)
  <2>1. t = k.cur /\ pc[t] # "schedule" /\ pc'[t] = "schedule"
    BY <1>0, <1>2 DEF CoreStep, FlowLists, Blocked
  <2>. QED BY <2>1 DEF Turns, Joins, WaitPlaces
<1>. QED BY <1>1, <1>2

\* ... and the writer before the completion, but for the one that waits in its place
LEMMA BusyBefore ==
  ASSUME Core, CoreStep, NEW F, Turns(F), "sr_write" \notin F, NEW t \in Thread, pc'[t] = "sr_busy"
  PROVE  pc[t] = "sr_busy"
<1>1. t # Idle /\ pc'[t] \in WaitPlaces
  BY DEF CoreStep, Core, PlacePart, WaitPlaces
<1>2. call'[t].op = "sr_write"
  <2>1. call'[t] \in SerialCall({"sr_write"})
    BY DEF CoreStep, Core, PlacePart, CallFits, SerialCall
  <2>. QED BY <2>1 DEF SerialCall
<1>3. CASE t = k.cur
  BY <1>1, <1>2, <1>3 DEF Turns, Joins
<1>4. CASE t # k.cur
  BY <1>1, <1>4 DEF CoreStep, FlowPlaces
<1>. QED BY <1>3, <1>4

LEMMA WriterAside ==
  ASSUME Core, CoreStep, WriterPart, NEW F, Turns(F), "sr_write" \notin F,
         sr.busy => sr'.busy, cp.flag => cp'.flag
  PROVE  WriterPart'
<1>1. \A t \in Thread : pc'[t] = "sr_busy" => sr'.busy \/ cp'.flag
  BY BusyBefore DEF WriterPart
<1>2. \A t \in Thread : Contains(k'.wait["cp"], t) /\ call'[t].op = "sr_write" => sr'.busy
  BY SentAside
<1>. QED BY <1>1, <1>2 DEF WriterPart

\* At the completion, or in a call that waits there, is one thread
LEMMA OneAtCompletion ==
  ASSUME Core, UsePart, OneWriter, NEW s \in Thread, NEW t \in Thread,
         NEW op \in CpCalls, op \in use.calls[s], pc[t] = "sr_busy"
  PROVE  s = t
<1>1. call[t] \in SerialCall({"sr_write"}) /\ use \in Uses
  BY DEF Core, PlacePart, CallFits, SerialCall
<1>2. call[t].op = "sr_write" /\ pc[t] \in WaitPlaces
  BY <1>1 DEF SerialCall, WaitPlaces
<1>3. "sr_write" \in use.calls[t]
  BY <1>2 DEF UsePart, DriverOps
<1>. QED BY <1>1, <1>3 DEF OneWriter, WritesAlone, CpCalls

LEMMA CpWriter ==
  ASSUME Core, CoreStep, DetachPart, UsePart, WriterPart, OneWriter, CpNext, sr' = sr
  PROVE  WriterPart'
<1>1. Turns({"cp_wait"})
  BY CpTurns
<1>2. CASE cp.flag => cp'.flag
  BY <1>1, <1>2, WriterAside
<1>3. ASSUME NEW u \in Running, NEW c \in WaitDone, CpWaitDone(u, c) \/ CpReturn(u)
      PROVE  \A t \in Thread : pc'[t] # "sr_busy"
  <2> SUFFICES ASSUME NEW t \in Thread, pc'[t] = "sr_busy" PROVE FALSE
    OBVIOUS
  <2>1. pc[t] = "sr_busy"
    BY <1>1, BusyBefore
  <2>2. u \in Thread /\ pc[u] # "sr_busy"
    BY <1>3, PlaceTypes DEF CpWaitDone, CpReturn, Enters, Starts, At
  <2>3. "cp_wait" \in use.calls[u]
    <3>1. CASE CpWaitDone(u, c)
      BY <3>1, WaitsDone DEF CpWaitDone, Enters, Starts
    <3>2. CASE CpReturn(u)
      BY <2>2, <3>2 DEF CpReturn, At, UsePart, WaitPlaces, DriverOps
    <3>. QED BY <1>3, <3>1, <3>2
  <2>4. u = t
    BY <2>1, <2>2, <2>3, OneAtCompletion DEF CpCalls
  <2>. QED BY <2>1, <2>2, <2>4
<1>4. ASSUME NEW u, NEW c,
             CpWait(u, c) \/ CpWaitRefused(u, c) \/ CpDoneTest(u) \/ CpDone(u) \/ CpIsrDone
      PROVE  cp.flag => cp'.flag
  BY <1>4 DEF CpWait, CpWaitRefused, CpDoneTest, CpDone, CpIsrDone, Completed
<1>5. \A t \in Thread : Contains(k'.wait["cp"], t) /\ call'[t].op = "sr_write" => sr'.busy
  BY <1>1, SentAside
<1>6. ASSUME NEW u \in Running, CpReturn(u) PROVE \A t \in Thread : pc'[t] # "sr_busy"
  <2> SUFFICES ASSUME NEW t \in Thread, pc'[t] = "sr_busy" PROVE FALSE
    OBVIOUS
  <2>1. pc[t] = "sr_busy"
    BY <1>1, BusyBefore
  <2>2. u \in Thread /\ pc[u] # "sr_busy" /\ "cp_wait" \in use.calls[u]
    BY <1>6, PlaceTypes DEF CpReturn, At, UsePart, WaitPlaces, DriverOps
  <2>3. u = t
    BY <2>1, <2>2, OneAtCompletion DEF CpCalls
  <2>. QED BY <2>1, <2>2, <2>3
<1>7. ASSUME \A t \in Thread : pc'[t] # "sr_busy" PROVE WriterPart'
  BY <1>5, <1>7 DEF WriterPart
<1>. QED BY <1>2, <1>3, <1>4, <1>6, <1>7 DEF CpNext

\* Nobody comes to wait, neither before the completion nor on its list
LEMMA WriterOn ==
  ASSUME Core, CoreStep, WriterPart, ~Sits, sr.busy => sr'.busy,
         pc'[k.cur] # "sr_busy" \/ pc'[k.cur] = pc[k.cur],
         \A t \in Thread : pc[t] = "sr_busy" /\ pc'[t] = "sr_busy" /\ cp.flag => cp'.flag
  PROVE  WriterPart'
<1>0. "cp" \in WaitList
  BY CompletionAssumption
<1>1. ASSUME NEW t \in Thread, pc'[t] = "sr_busy" PROVE sr'.busy \/ cp'.flag
  <2>1. t # Idle
    BY <1>1 DEF CoreStep, Core, PlacePart
  <2>2. pc[t] = "sr_busy"
    BY <1>1, <2>1 DEF CoreStep, FlowPlaces
  <2>. QED BY <1>1, <2>2 DEF WriterPart
<1>2. ASSUME NEW t \in Thread, Contains(k'.wait["cp"], t), call'[t].op = "sr_write" PROVE sr'.busy
  <2>1. Contains(k.wait["cp"], t)
    BY <1>0, <1>2, ListShrinks DEF Shrinks
  <2>2. call[t].op = "sr_write"
    BY <1>0, <1>2, <2>1, SameWait
  <2>. QED BY <2>1, <2>2 DEF WriterPart
<1>. QED BY <1>1, <1>2 DEF WriterPart

\* rt_hw_serial_isr leaves what is sent alone
LEMMA BusyStays ==
  ASSUME NEW r, NEW u, FifoHolds(r, u), NEW s \in Seq(SrByte)
  PROVE  FoldLeft(SrStored, r, s).busy = r.busy
<1> DEFINE n == Len(s)
           Y == {e \in SrState : e.busy = r.busy}
           F == [i \in 1..n |-> [e \in Y |-> SrStored(e, s[i])]]
           Run(h) == h = [a \in SUBSET (DOMAIN s) |->
                            IF a = {} THEN r
                            ELSE SrStored(h[a \ {Max(a)}], s[Max(a)])]
           h == CHOOSE h : Run(h)
<1>1. n \in Nat /\ DOMAIN s = 1..n /\ \A i \in 1..n : s[i] \in SrByte
  BY LenProperties, ElementOfSeq
<1>2. FoldLeft(SrStored, r, s) = h[DOMAIN s]
  BY DEF FoldLeft, MapThenFoldSet
<1> HIDE DEF n
<1>3. r \in Y
  BY DEF FifoHolds, Shows
<1>4. ASSUME NEW e \in Y, NEW c \in SrByte PROVE SrStored(e, c) \in Y
  <2>1. \A i \in 0..(SrSize - 1) : NextIndex(i) \in 0..(SrSize - 1)
    BY SrSizes DEF NextIndex
  <2>2. e.put \in 0..(SrSize - 1) /\ e.get \in 0..(SrSize - 1)
    BY DEF SrState
  <2>3. PICK b : b = [e.buf EXCEPT ![e.put] = c]
    OBVIOUS
  <2>4. b \in [0..(SrSize - 1) -> SrByte \cup {None}]
    BY <2>3 DEF SrState
  <2>5. PICK p \in 0..(SrSize - 1) : p = NextIndex(e.put)
    BY <2>1, <2>2
  <2>6. PICK g \in 0..(SrSize - 1) : g = IF p = e.get THEN NextIndex(e.get) ELSE e.get
    BY <2>1, <2>2
  <2>7. SrStored(e, c) = [e EXCEPT !.buf = b, !.put = p, !.full = e.full \/ p = e.get, !.get = g]
    BY <2>3, <2>5, <2>6 DEF SrStored, SrState
  <2>8. (e.full \/ p = e.get) \in BOOLEAN
    BY DEF SrState
  <2>9. SrStored(e, c) \in SrState /\ SrStored(e, c).busy = e.busy
    BY <2>4, <2>7, <2>8 DEF SrState
  <2>. QED BY <2>9
<1> HIDE DEF Y
<1>5. F \in [1..n -> [Y -> Y]]
  BY <1>1, <1>4
<1>6. PICK g \in [SUBSET (1..n) -> Y] : Follows(g, F, r, n)
  <2> HIDE DEF F, h, Run
  <2>1. n \in Nat
    BY <1>1
  <2>. QED BY <2>1, <1>3, <1>5, FoldExists
<1>7. ASSUME NEW a \in SUBSET (1..n), a # {}
      PROVE  Max(a) \in 1..n /\ a \ {Max(a)} \in SUBSET (1..n)
  BY <1>1, <1>7, MaxIndex
<1>8. ASSUME NEW a \in SUBSET (1..n)
      PROVE  g[a] = IF a = {} THEN r ELSE SrStored(g[a \ {Max(a)}], s[Max(a)])
  <2>1. CASE a = {}
    BY <1>6, <2>1 DEF Follows
  <2>2. CASE a # {}
    <3>1. g[a] = F[Max(a)][g[a \ {Max(a)}]]
      <4> HIDE DEF F
      <4>. QED BY <2>2, <1>6 DEF Follows
    <3>2. Max(a) \in 1..n /\ g[a \ {Max(a)}] \in Y
      BY <2>2, <1>6, <1>7
    <3>. QED BY <2>2, <3>1, <3>2
  <2>. QED BY <2>1, <2>2
<1>9. Run(g)
  BY <1>1, <1>6, <1>8
<1>10. Run(h)
  <2> HIDE DEF Run
  <2>. QED BY <1>9
<1> HIDE DEF h
<1> DEFINE B == {i \in 0..n : h[1..i] \in Y}
<1>11. 0 \in B
  <2>1. 1..0 = {} /\ {} \in SUBSET (DOMAIN s)
    OBVIOUS
  <2>2. h[{}] = r
    BY <1>10, <2>1
  <2>. QED BY <1>1, <1>3, <2>1, <2>2
<1>12. ASSUME NEW m \in 1..n, m - 1 \in B PROVE m \in B
  <2>1. 1..m \in SUBSET (1..n) /\ 1..m # {} /\ (1..m) \ {m} = 1..(m - 1) /\ Max(1..m) = m
    BY <1>1, LastOf
  <2>2. m \in Nat
    BY <1>1
  <2>3. h[1..m] = SrStored(h[1..(m - 1)], s[m])
    BY <1>1, <1>10, <2>1, <2>2
  <2>4. PICK e : e = h[1..(m - 1)]
    OBVIOUS
  <2>5. SrStored(e, s[m]) \in Y
    BY <1>1, <1>4, <1>12, <2>4
  <2>. QED BY <1>1, <2>3, <2>4, <2>5
<1>13. n \in B
  <2> HIDE DEF B
  <2>. QED BY <1>1, <1>11, <1>12, UpTo
<1>. QED BY <1>1, <1>2, <1>13 DEF Y

LEMMA SrWriter ==
  ASSUME Core, CoreStep, DetachPart, FifoHolds(sr, unread), CpPart, UsePart, WriterPart, OneWriter,
         SrNext
  PROVE  WriterPart'
<1>0. /\ pc \in [Thread -> AllLabels] /\ k.cur \in Thread /\ "cp" \in WaitList
      /\ sr \in SrState
  BY KernelFunctions, CompletionAssumption DEF Core, PlacePart, FifoHolds, Shows
<1>1. ASSUME sr'.busy PROVE WriterPart'
  BY <1>1 DEF WriterPart
<1>2. CASE SrIsrSent
  <2>1. Turns({})
    BY <1>2, RestTurns DEF SrIsrSent
  <2>2. Shrinks("cp")
    BY <2>1, CpServes, AsideKeeps
  <2>3. FirstWoken("cp")
    <3>1. cp.flag => k.wait["cp"] = <<>>
      BY DEF CpPart, CpNobodyStranded
    <3>2. k' = Schedule(WakeOne(k, "cp")) \/ (k.wait["cp"] = <<>> /\ k' = k)
      BY <1>2, <3>1 DEF SrIsrSent
    <3>. QED BY <1>0, <3>2, WakesFirst
  <2>4. k'.wait["cp"] = <<>>
    BY <2>2, <2>3, CpWakes
  <2>5. cp'.flag
    BY <1>2 DEF SrIsrSent, Completed
  <2>. QED BY <2>4, <2>5, EmptyList DEF WriterPart
<1>3. ASSUME NEW u \in Running, SrPutWait(u) PROVE WriterPart'
  <2>1. u = k.cur /\ u \in Thread /\ pc[u] = "sr_busy" /\ ~cp.flag /\ sr' = sr
    BY <1>0, <1>3 DEF SrPutWait, At, Running, serial
  <2>. QED BY <1>1, <2>1 DEF WriterPart
<1>4. ASSUME NEW u, SrPut(u) \/ SrPutRefused(u) PROVE WriterPart'
  <2>1. sr'.busy
    BY <1>0, <1>4 DEF SrPut, SrPutRefused, SrState, serial
  <2>. QED BY <1>1, <2>1
<1>5. ASSUME NEW u \in Running, SrPutAgain(u) \/ SrPutWaited(u) PROVE WriterPart'
  <2>1. u = k.cur /\ pc[u] \in WaitPlaces /\ sr' = sr /\ Goto(u, "sr_put")
    BY <1>5 DEF SrPutAgain, SrPutWaited, At, Running, WaitPlaces, serial
  <2>2. pc'[u] = "sr_put"
    BY <1>0, <2>1 DEF Goto
  <2>3. call[u].op = "sr_write"
    BY <1>5, InSerial DEF SrPutAgain, SrPutWaited, At, SerialCall
  <2>4. "sr_write" \in use.calls[u]
    BY <1>0, <2>1, <2>3 DEF UsePart, DriverOps
  <2>5. \A t \in Thread : pc[t] = "sr_busy" => t = u
    BY <1>0, <2>1, <2>4, OneAtCompletion DEF CpCalls
  <2>6. ~Sits
    BY <2>1, <2>2 DEF Sits
  <2>. QED BY <2>1, <2>2, <2>5, <2>6, WriterOn
<1>6. ASSUME NEW u \in Running, SrWait(u) PROVE WriterPart'
  <2>1. call[u].op \in {"sr_read"} /\ pc[u] # "again" /\ cp' = cp /\ sr' = sr
    BY <1>6, InSerial DEF SrWait, At, SerialCall, serial
  <2>2. Turns({"sr_read"})
    <3>1. CASE WqPass(u, "serial", "sr_get")
      BY <2>1, <3>1, InTurns DEF WqPass
    <3>2. CASE WqBlock(u, "serial")
      BY <2>1, <3>2, BlockTurns DEF WqBlock
    <3>. QED BY <1>6, <3>1, <3>2 DEF SrWait
  <2>. QED BY <2>1, <2>2, WriterAside
<1>7. ASSUME ~SrIsrSent,
             \A u \in Running : /\ ~SrWait(u) /\ ~SrPutWait(u) /\ ~SrPut(u)
                                /\ ~SrPutRefused(u) /\ ~SrPutAgain(u) /\ ~SrPutWaited(u)
      PROVE  WriterPart'
  <2>1. ~Sits
    BY <1>7, SrSits
  <2>2. ASSUME NEW t \in Running, NEW n, SrRead(t, n) \/ SrWrite(t, n) PROVE WriterPart'
    <3>1. PICK p \in {"sr_get", "sr_put"} : Goto(t, p)
      BY <2>2 DEF SrRead, SrWrite, SrStarts
    <3>2. pc'[k.cur] # "sr_busy"
      BY <1>0, <3>1 DEF Goto, Running
    <3>3. sr' = sr /\ cp' = cp
      BY <2>2 DEF SrRead, SrWrite, SrStarts, serial
    <3>. QED BY <2>1, <3>2, <3>3, WriterOn
  <2>3. ASSUME NEW t \in Running, SrReadEnd(t) \/ SrReadNone(t) \/ SrWaited(t) \/ SrWritten(t)
        PROVE  WriterPart'
    <3>1. PICK p \in {"run", "sr_wait", "unqueue", "sr_get"} : Goto(t, p)
      BY <2>3 DEF SrReadEnd, SrReadNone, SrWaited, SrWritten, SrReturns, WqReturn, WqUnqueue
    <3>2. pc'[k.cur] # "sr_busy"
      BY <1>0, <3>1 DEF Goto, Running
    <3>3. sr' = sr /\ cp' = cp
      BY <2>3 DEF SrReadEnd, SrReadNone, SrWaited, SrWritten, SrReturns, serial
    <3>. QED BY <2>1, <3>2, <3>3, WriterOn
  <2>4. ASSUME NEW t, SrGet(t) \/ SrFlush(t) PROVE WriterPart'
    <3>1. pc' = pc /\ cp' = cp
      BY <2>4 DEF SrGet, SrFlush, caller
    <3>2. sr'.busy = sr.busy
      BY <1>0, <2>4 DEF SrGet, SrFlush, SrState
    <3>. QED BY <2>1, <3>1, <3>2, WriterOn
  <2>5. ASSUME NEW s \in Seq(SrByte), SrIsrReceive(s) PROVE WriterPart'
    <3>1. pc' = pc /\ cp' = cp
      BY <2>5 DEF SrIsrReceive
    <3>2. sr'.busy = sr.busy
      BY <2>5, BusyStays DEF SrIsrReceive
    <3>. QED BY <2>1, <3>1, <3>2, WriterOn
  <2>6. ASSUME NEW c, SrIdleStore(c) \/ SrIdleLength \/ SrIdleWake PROVE WriterPart'
    <3>1. PICK p \in {"run", "sr_length", "sr_wake"} : Goto(Idle, p) /\ k.cur = Idle
      BY <2>6 DEF SrIdleStore, SrIdleLength, SrIdleWake, At
    <3>2. pc'[k.cur] # "sr_busy" /\ cp' = cp
      BY <1>0, <2>6, <3>1 DEF Goto, SrIdleStore, SrIdleLength, SrIdleWake
    <3>3. sr'.busy = sr.busy
      <4>1. CASE sr' = SrStored(sr, c)
        BY <1>0, <4>1 DEF SrStored, SrState
      <4>. QED BY <2>6, <4>1 DEF SrIdleStore, SrIdleLength, SrIdleWake, serial
    <3>. QED BY <2>1, <3>2, <3>3, WriterOn
  <2>7. ASSUME NEW n \in SrFound, NEW s \in [1..n -> SrByte] PROVE s \in Seq(SrByte)
    BY SerialAssumption
  <2>. QED BY <1>7, <2>2, <2>3, <2>4, <2>5, <2>6, <2>7 DEF SrNext
<1>. QED BY <1>2, <1>3, <1>4, <1>5, <1>6, <1>7

-----------------------------------------------------------------------------
\* A pipe has wait queues of its own
LEMMA PpAside ==
  ASSUME WqPart, PpNext
  PROVE  wq'["serial"] = wq["serial"]
<1>1. DOMAIN wq = WaitQueueName /\ "serial" \in WaitQueueName
  BY SerialAssumption DEF WqPart
<1>2. ASSUME NEW t, PpClose(t) PROVE wq'["serial"] = wq["serial"]
  <2>1. PICK h : h = HungUp(pp')
    OBVIOUS
  <2>2. "serial" \notin h
    BY <2>1 DEF HungUp
  <2>3. wq' = [q \in WaitQueueName |-> IF q \in h THEN WqWoken(q) ELSE wq[q]]
    BY <1>1, <1>2, <2>1 DEF PpClose
  <2>. QED BY <1>1, <2>2, <2>3
<1>3. ASSUME NEW t, PpWait(t) \/ PpWaited(t) \/ PpSignal(t) \/ PpRouse(t) \/ PpLast(t)
      PROVE  wq'["serial"] = wq["serial"]
  <2>1. PICK q, e : q # "serial" /\ wq' = [wq EXCEPT ![q] = e]
    <3>1. Own(t) # "serial" /\ Other(t) # "serial"
      BY DEF Own, Other
    <3>2. \A q : wq' = [wq EXCEPT ![q].nodes = Append(@, t)]
                => wq' = [wq EXCEPT ![q] = [wq[q] EXCEPT !.nodes = Append(wq[q].nodes, t)]]
      OBVIOUS
    <3>. QED BY <1>3, <3>1, <3>2 DEF PpWait, PpWaited, PpSignal, PpRouse, PpLast, Wakeup,
                                     WqPass, WqBlock, WqReturn, WqUnqueue
  <2>. QED BY <1>1, <2>1
<1>4. ASSUME NEW t,
             \/ \E op \in PpOp, n \in Burst : PpCall(t, op, n)
             \/ PpLock(t) \/ PpLockWait(t) \/ PpLocked(t) \/ PpOpen(t)
             \/ PpReadEnd(t) \/ PpReadSome(t) \/ PpReadNone(t)
             \/ PpWriteEnd(t) \/ PpWriteSome(t) \/ PpRelease(t) \/ PpUnlock(t)
      PROVE  wq' = wq
  BY <1>4 DEF PpCall, PpLock, PpLockWait, PpLocked, PpOpen, PpReadEnd, PpReadSome, PpReadNone,
              PpWriteEnd, PpWriteSome, PpRelease, PpUnlock, Unlock, pipe
<1>. QED BY <1>2, <1>3, <1>4 DEF PpNext

\* What a step of another part leaves of the serial device
SrStill(F) == sr' = sr /\ wq'["serial"] = wq["serial"] /\ F \cap {"sr_read", "sr_write"} = {}

LEMMA SrAside ==
  ASSUME Core, CoreStep, DetachPart, WqPart, FifoHolds(sr, unread), SrPart, NEW F, Turns(F), SrStill(F),
         CpNext \/ (cp' = cp /\ F \cap {"cp_wait", "sr_write"} = {})
  PROVE  SrPart'
<1>1. UsePart'
  <2>1. CASE CpNext
    BY <2>1, CpUses, UseStays DEF SrPart, SrStill, DriverOps
  <2>2. CASE cp' = cp /\ F \cap {"cp_wait", "sr_write"} = {}
    <3>1. F \cap DriverOps = {}
      BY <2>2 DEF SrStill, DriverOps
    <3>. QED BY <3>1, UseStays DEF SrPart
  <2>. QED BY <2>1, <2>2
<1>2. ReaderPart'
  <2>1. CASE IdleRuns
    BY <2>1, IdleReader DEF SrPart
  <2>2. CASE pc'[Idle] = pc[Idle]
    <3>1. Fed => Fed'
      BY <2>2 DEF Fed, SrEmpty, SrStill
    <3>2. "sr_read" \notin F
      BY DEF SrStill
    <3>. QED BY <3>1, <3>2, ReaderAside DEF SrPart, SrStill
  <2>. QED BY <2>1, <2>2 DEF CoreStep, FlowPlaces
<1>3. ASSUME OneWriter PROVE WriterPart'
  <2>1. CASE CpNext
    BY <1>3, <2>1, CpWriter DEF SrPart, SrStill
  <2>2. CASE cp' = cp
    <3>1. "sr_write" \notin F
      BY DEF SrStill
    <3>. QED BY <1>3, <2>2, <3>1, WriterAside DEF SrPart, SrStill
  <2>. QED BY <2>1, <2>2
<1>. QED BY <1>1, <1>2, <1>3 DEF SrPart, OneWriter, WritesAlone

LEMMA SrStays ==
  ASSUME Core, CoreStep, DetachPart, WqPart, FifoHolds(sr, unread), SrPart, CpPart, NEW F, Turns(F),
         SrNext
  PROVE  SrPart'
<1>1. UsePart'
  BY SrUses, UseStays DEF SrPart
<1>2. ReaderPart'
  BY SrReader DEF SrPart
<1>3. ASSUME OneWriter PROVE WriterPart'
  BY <1>3, SrWriter DEF SrPart
<1>. QED BY <1>1, <1>2, <1>3 DEF SrPart, OneWriter, WritesAlone

LEMMA SrBegins ==
  ASSUME CallerInit(Object), \A q \in WaitQueueName : wq[q].nodes = <<>>, k.wait["cp"] = <<>>
  PROVE  SrPart
<1>1. pc = [t \in Thread |-> "run"] /\ "serial" \in WaitQueueName
  BY SerialAssumption DEF CallerInit
<1>2. UsePart
  BY <1>1 DEF UsePart, WaitPlaces
<1>3. ReaderPart
  <2>1. \A u : ~Contains(wq["serial"].nodes, u)
    BY <1>1, EmptyList
  <2>2. \A t \in Thread : ~Dozes(t)
    BY <1>1 DEF Dozes
  <2>. QED BY <1>1, <2>1, <2>2 DEF ReaderPart, ReaderFits
<1>4. WriterPart
  <2>1. \A u : ~Contains(k.wait["cp"], u)
    BY EmptyList
  <2>. QED BY <1>1, <2>1 DEF WriterPart
<1>. QED BY <1>2, <1>3, <1>4 DEF SrPart

-----------------------------------------------------------------------------
(***************************************************************************)
(* The invariant, over all objects: what each of them promises, what that  *)
(* rests on, and the queues' own invariant, which says what is in them.    *)
(***************************************************************************)
StrandInv ==
  /\ QueuesInv /\ ErrPart /\ DetachPart
  /\ MbNobodyStranded /\ MqNobodyStranded
  /\ MpPart /\ MpNobodyStranded
  /\ DqSupplied /\ CpPart /\ EvPart /\ SrPart

LEMMA BootLists == \A w \in WaitList : BootKernel.wait[w] = <<>>
<1> DEFINE b == [cur   |-> Idle,
                 stat  |-> [t \in Thread |-> IF Booted(t) THEN "ready" ELSE "init"],
                 prio  |-> InitPrio,
                 ready |-> Boot,
                 table |-> BootTable,
                 group |-> {Row(p) : p \in BootTable},
                 wait  |-> [w \in WaitList |-> <<>>],
                 timer |-> [t \in Thread |-> FALSE],
                 err   |-> [t \in Thread |-> "EOK"],
                 lock  |-> 0]
<1>1. b.wait = [w \in WaitList |-> <<>>] /\ BootKernel = Schedule(b)
  BY DEF BootKernel
<1>2. Schedule(b).wait = b.wait
  BY DEF Schedule
<1>. QED BY <1>1, <1>2

LEMMA StrandStarts == Init => StrandInv
<1> SUFFICES ASSUME Init PROVE StrandInv
  OBVIOUS
<1>1. QueuesInv /\ \A w \in WaitList : k.wait[w] = <<>>
  BY QueuesStart, BootLists DEF Init, CallerInit
<1>2. \A u : ~Contains(<<>>, u)
  BY EmptyList
<1>3. /\ "mb.recv" \in WaitList /\ "mb.send" \in WaitList /\ "mq" \in WaitList
      /\ "ev" \in WaitList /\ "mp" \in WaitList /\ "cp" \in WaitList
      /\ "dq.pop" \in WaitList /\ "dq.push" \in WaitList
  BY MailboxAssumption, MessageQueueAssumption, EventAssumption, MemPoolAssumption,
     CompletionAssumption, DataQueueAssumption
<1>4. ErrPart /\ EvPart
  BY <1>1, <1>2, <1>3 DEF ErrPart, EvPart
<1>5. DetachPart
  BY DEF Init, CallerInit, DetachPart, DetachFits
<1>6. MbNobodyStranded /\ MqNobodyStranded /\ DqSupplied
  BY <1>1, <1>3 DEF MbNobodyStranded, MqNobodyStranded, DqSupplied, Supplied
<1>7. CpPart
  BY <1>1, <1>3 DEF CpPart, CpNobodyStranded
<1>8. MpPart /\ MpNobodyStranded
  BY <1>1, <1>3, MpStarts DEF Init, MpInit, MpNobodyStranded
<1>9. SrPart
  <2>1. \A q \in WaitQueueName : wq[q].nodes = <<>>
    BY DEF Init, WqInit
  <2>. QED BY <1>1, <1>3, <2>1, SrBegins DEF Init
<1>. QED BY <1>1, <1>4, <1>5, <1>6, <1>7, <1>8, <1>9 DEF StrandInv

(***************************************************************************)
(* The steps, by the calls they are steps of: what a step leaves alone it  *)
(* is no step of a call that waits for.                                    *)
(***************************************************************************)
Leaving(F) ==
  /\ MbNext \/ (mb' = mb /\ F \cap {"mb_send", "mb_recv"} = {})
  /\ MqNext \/ (mq' = mq /\ F \cap {"mq_recv"} = {})
  /\ MpNext \/ (mp' = mp /\ F \cap {"mp_alloc"} = {})
  /\ DqNext \/ (dq' = dq /\ F \cap {"dq_push", "dq_pop"} = {})
  /\ CpNext \/ SrNext \/ (cp' = cp /\ F \cap {"cp_wait", "sr_write"} = {})
  /\ EvNext \/ OnNext \/ (ev' = ev /\ F \cap EvCalls = {})
  /\ SrNext \/ SrStill(F)

LEMMA StepTurns ==
  ASSUME Core, DetachPart, WqPart, [Next]_vars
  PROVE  \E F : Turns(F) /\ Leaving(F)
<1>1. ASSUME Turns({}), UNCHANGED <<mb, mq, ev, mp, dq, cp, wq, sr>> PROVE \E F : Turns(F) /\ Leaving(F)
  BY <1>1 DEF Leaving, SrStill
<1>2. CASE CallerStep /\ UNCHANGED <<mb, mq, ev, mp, dq, cp, wq, sr>>
  BY <1>1, <1>2, CallerTurns
<1>3. CASE UNCHANGED vars
  BY <1>1, <1>3, RestTurns DEF vars, caller, pipe, serial
<1>4. CASE MbNext /\ UNCHANGED <<mq, ev, mp, dq, cp, wq, sr>>
  <2>1. Leaving({"mb_send", "mb_recv"})
    BY <1>4 DEF Leaving, SrStill, EvCalls, OnOps
  <2>. QED BY <1>4, <2>1, MbTurns
<1>5. CASE MqNext /\ UNCHANGED <<mb, ev, mp, dq, cp, wq, sr>>
  <2>1. Leaving({"mq_recv"})
    BY <1>5 DEF Leaving, SrStill, EvCalls, OnOps
  <2>. QED BY <1>5, <2>1, MqTurns
<1>6. CASE EvNext /\ UNCHANGED <<mb, mq, mp, dq, cp, wq, sr>>
  <2>1. Leaving({"ev_recv"})
    BY <1>6 DEF Leaving, SrStill
  <2>. QED BY <1>6, <2>1, EvTurns
<1>7. CASE MpNext /\ UNCHANGED <<mb, mq, ev, dq, cp, wq, sr>>
  <2>1. Leaving({"mp_alloc"})
    BY <1>7 DEF Leaving, SrStill, EvCalls, OnOps
  <2>. QED BY <1>7, <2>1, MpTurns
<1>8. CASE DqNext /\ UNCHANGED <<mb, mq, ev, mp, cp, wq, sr>>
  <2>1. Leaving({"dq_push", "dq_pop"})
    BY <1>8 DEF Leaving, SrStill, EvCalls, OnOps
  <2>. QED BY <1>8, <2>1, DqTurns
<1>9. CASE CpNext /\ UNCHANGED <<mb, mq, ev, mp, dq, wq, sr>>
  <2>1. Leaving({"cp_wait"})
    BY <1>9 DEF Leaving, SrStill, EvCalls, OnOps
  <2>. QED BY <1>9, <2>1, CpTurns
<1>10. CASE PpNext /\ UNCHANGED <<mb, mq, ev, mp, dq, cp, sr>>
  <2>1. Leaving(PpOp)
    BY <1>10, PpAside DEF Leaving, SrStill, EvCalls, OnOps, PpOp
  <2>. QED BY <1>10, <2>1, PpTurns
<1>11. CASE WkNext /\ UNCHANGED <<mb, mq, ev, mp, dq, cp, wq, sr>>
  <2>1. Leaving({"wk_work"})
    BY <1>11 DEF Leaving, SrStill, EvCalls, OnOps
  <2>. QED BY <1>11, <2>1, WkTurns
<1>12. CASE (HpNext \/ RbNext \/ RbbNext) /\ UNCHANGED <<mb, mq, ev, mp, dq, cp, wq, sr>>
  BY <1>1, <1>12, HpTurns, RbTurns
<1>13. CASE OnNext /\ UNCHANGED <<mb, mq, mp, dq, cp, wq, sr>>
  <2>1. Leaving(OnOps)
    BY <1>13 DEF Leaving, SrStill, OnOps
  <2>. QED BY <1>13, <2>1, OnTurns
<1>14. CASE SrNext /\ UNCHANGED <<mb, mq, ev, mp, dq>>
  <2>1. Leaving({"sr_read", "sr_write"})
    BY <1>14 DEF Leaving, SrStill, EvCalls, OnOps
  <2>. QED BY <1>14, <2>1, SrTurns
<1>. QED BY <1>2, <1>3, <1>4, <1>5, <1>6, <1>7, <1>8, <1>9, <1>10, <1>11, <1>12, <1>13, <1>14
     DEF Next, pipe, serial

LEMMA StrandStays ==
  ASSUME StrandInv, [Next]_vars
  PROVE  StrandInv'
<1>1. /\ Core /\ CoreStep /\ QueuesInv' /\ ErrPart /\ DetachPart
      /\ MbPart /\ MqPart /\ DqPart /\ WqPart /\ FifoHolds(sr, unread)
  BY QueuesStep, CoreSteps DEF StrandInv, QueuesInv, IInv, BuffersHold
<1>2. PICK F : Turns(F) /\ Leaving(F)
  BY <1>1, StepTurns
<1>3. ErrPart' /\ DetachPart'
  BY <1>1, <1>2, ErrStays, DetachStays
<1>4. MbNobodyStranded'
  BY <1>1, <1>2, MbUnstranded, MbAside DEF Leaving, StrandInv
<1>5. MqNobodyStranded'
  BY <1>1, <1>2, MqUnstranded, MqAside DEF Leaving, StrandInv
<1>6. MpPart' /\ MpNobodyStranded'
  <2>1. CASE MpNext
    BY <1>1, <2>1, MpUnstranded DEF StrandInv
  <2>2. CASE mp' = mp /\ F \cap {"mp_alloc"} = {}
    <3>1. MpPart'
      BY <2>2 DEF StrandInv, MpPart, MpState
    <3>. QED BY <1>1, <1>2, <2>2, <3>1, MpAside DEF StrandInv
  <2>. QED BY <1>2, <2>1, <2>2 DEF Leaving
<1>7. DqSupplied'
  BY <1>1, <1>2, DqUnstranded, DqAside DEF Leaving, StrandInv
<1>8. CpPart'
  BY <1>1, <1>2, CpUnstranded, SrCpUnstranded, CpAside DEF Leaving, StrandInv
<1>9. EvPart'
  BY <1>1, <1>2, EvUnstranded, OnEvUnstranded, EvAside DEF Leaving, StrandInv
<1>10. SrPart'
  <2>1. CASE SrNext
    BY <1>1, <1>2, <2>1, SrStays DEF StrandInv
  <2>2. CASE SrStill(F) /\ ~SrNext
    BY <1>1, <1>2, <2>2, SrAside DEF Leaving, StrandInv
  <2>. QED BY <1>2, <2>1, <2>2 DEF Leaving
<1>. QED BY <1>1, <1>3, <1>4, <1>5, <1>6, <1>7, <1>8, <1>9, <1>10 DEF StrandInv

\* The invariant of the objects holds in every reachable state: what each holds, the
\* errors of those who wait, the lists a detach empties, and that nobody is stranded
THEOREM StrandKeep == Spec => []StrandInv
<1>1. StrandInv /\ [Next]_vars => StrandInv'
  BY StrandStays
<1>. QED BY <1>1, StrandStarts, PTL DEF Spec

LEMMA StrandMeans ==
  ASSUME StrandInv
  PROVE  /\ MbNobodyStranded /\ MqNobodyStranded /\ MpNobodyStranded /\ CpNobodyStranded
         /\ DqNobodyStranded /\ EvNobodySatisfiedWaits
<1>1. Core /\ DqPart
  BY DEF StrandInv, QueuesInv, IInv
<1>. QED BY <1>1, DqMeans, EvMeans DEF StrandInv, CpPart

\* rt_mb_send_wait and its handler form wake one receiver for each word, and rt_mb_recv one
\* sender for each place: with a thread in a suspend list of the mailbox, woken threads are
\* on their way to every word, or every free place, across timeouts, resets and detaches
THEOREM MailTaken == Spec => []MbNobodyStranded
<1>1. StrandInv => MbNobodyStranded
  BY StrandMeans
<1>. QED BY <1>1, StrandKeep, PTL

\* rt_mq_send and rt_mq_urgent count a message only when it is linked, and wake one receiver
\* for it: nobody waits beside a message that no woken thread is on its way to take
THEOREM MessagesTaken == Spec => []MqNobodyStranded
<1>1. StrandInv => MqNobodyStranded
  BY StrandMeans
<1>. QED BY <1>1, StrandKeep, PTL

\* rt_event_send goes through the whole list and wakes whoever has what it wants, and
\* rt_event_recv tests before it waits: nobody waits for flags that are set
THEOREM EventsSeen == Spec => []EvNobodySatisfiedWaits
<1>1. StrandInv => EvNobodySatisfiedWaits
  BY StrandMeans
<1>. QED BY <1>1, StrandKeep, PTL

\* rt_mp_free wakes by suspend_thread_count, which a wait that times out leaves too high and
\* nothing leaves too low: nobody waits beside a free block that no woken thread will take
THEOREM BlocksTaken == Spec => []MpNobodyStranded
<1>1. StrandInv => MpNobodyStranded
  BY StrandMeans
<1>. QED BY <1>1, StrandKeep, PTL

\* rt_data_queue_push wakes a popper and rt_data_queue_pop, at the low-water mark, a pusher:
\* nobody waits to pop beside data that no woken thread will take, and poppers and pushers
\* sleep at once only if some thread is on its way
THEOREM DataTaken == Spec => []DqNobodyStranded
<1>1. StrandInv => DqNobodyStranded
  BY StrandMeans
<1>. QED BY <1>1, StrandKeep, PTL

\* rt_completion_done sets the flag and wakes in one, rt_completion_wait clears it before it
\* waits: nobody waits for a completion whose flag is set, a writer to a serial device neither
THEOREM DoneSeen == Spec => []CpNobodyStranded
<1>1. StrandInv => CpNobodyStranded
  BY StrandMeans
<1>. QED BY <1>1, StrandKeep, PTL

\* serial_fops_rx_ind wakes the reader through the flag when it does not sleep yet, and the
\* transmitter its writer through the completion: with all the above, no thread sleeps beside
\* what it waits for.  One thread at most waits for the completion, as rt_completion_wait
\* asserts: of two writers one may take the other's.
THEOREM NobodyLeft ==
  ASSUME OneWriter
  PROVE  Spec => []NobodyStranded
<1>1. StrandInv => NobodyStranded
  <2> SUFFICES ASSUME StrandInv PROVE NobodyStranded
    OBVIOUS
  <2>1. Core
    BY DEF StrandInv, QueuesInv, IInv
  <2>2. SrNobodyStranded
    BY <2>1, SrMeans DEF StrandInv
  <2>. QED BY <2>2, StrandMeans DEF NobodyStranded
<1>. QED BY <1>1, StrandKeep, PTL
=============================================================================
