---------------------------- MODULE MessageQueue ----------------------------
(***************************************************************************)
(* The message queues of ipc.c: blocks of a pool linked into a queue and a *)
(* free list.  A message is copied into its block, and out of it, with     *)
(* interrupts enabled while the block is on neither list.                  *)
(***************************************************************************)
EXTENDS Caller

CONSTANTS
  Message,  \* the messages sent
  MqBlock     \* the message blocks of the pool, a sequence without repetitions

MqBlocks == {MqBlock[i] : i \in 1..Len(MqBlock)}

ASSUME MessageQueueAssumption ==
  /\ MqBlock \in Seq(MqBlocks) /\ Distinct(MqBlock) /\ MqBlock # <<>>
  /\ None \notin Message \cup MqBlocks \cup [from : {"mq"}, value : Message]
  /\ "mq" \in WaitList

VARIABLES
  mq,   \* the queue: msg_queue_head, _tail, _free, entry; next and data of each block
  hand  \* the block a thread copies into or out of

\* rt_mq_init: each block is put before the ones already free
MqInit ==
  /\ mq = [head |-> None, tail |-> None, free |-> Last(MqBlock), entry |-> 0,
           next |-> [b \in MqBlocks |-> LET i == CHOOSE j \in 1..Len(MqBlock) : MqBlock[j] = b
                                      IN  IF i = 1 THEN None ELSE MqBlock[i - 1]],
           data |-> [b \in MqBlocks |-> None]]
  /\ hand = [t \in Thread |-> None]

SendMessage == [op : {"mq_send", "mq_urgent"}, arg : Message, time : {"none"}]
RecvMessage == Calls({"mq_recv"}, {None})

-----------------------------------------------------------------------------
\* The free list without its first block
Grabbed == [mq EXCEPT !.free = mq.next[@]]

\* q with b, holding v, behind the last message
Linked(q, b, v) ==
  LET next == IF q.tail # None THEN [q.next EXCEPT ![q.tail] = b, ![b] = None]
                               ELSE [q.next EXCEPT ![b] = None]
  IN  [q EXCEPT !.next = next, !.data[b] = v, !.tail = b, !.entry = @ + 1,
                !.head = IF @ = None THEN b ELSE @]

BadLinkedFirst(q, b, v) ==
  [q EXCEPT !.next[b] = q.head, !.data[b] = v, !.head = b, !.entry = @ + 1]

\* ... before the first
LinkedFirst(q, b, v) ==
  [q EXCEPT !.next[b] = q.head, !.data[b] = v, !.head = b, !.entry = @ + 1,
            !.tail = IF @ = None THEN b ELSE @]

Insert(q, op, b, v) == IF op = "mq_urgent" THEN LinkedFirst(q, b, v) ELSE Linked(q, b, v)

\* q without its first message
Unlinked(q) ==
  [q EXCEPT !.head = q.next[@], !.entry = @ - 1,
            !.tail = IF @ = q.head THEN None ELSE @]

Released(q, b) == [q EXCEPT !.next[b] = q.free, !.free = b]

\* rt_mq_send and rt_mq_urgent: take a block; with none they return -RT_EFULL
MqSend(t, c) ==
  /\ Starts(t, c.op, "mq")
  /\ mq.free # None
  /\ mq' = Grabbed
  /\ hand' = [hand EXCEPT ![t] = mq.free]
  /\ call' = [call EXCEPT ![t] = c]
  /\ Goto(t, "link")
  /\ UNCHANGED <<k, got, alive, use>>

\* ... copy the message and link the block
MqLink(t) ==
  /\ At(t, "link")
  /\ mq' = Insert(mq, call[t].op, hand[t], call[t].arg)
  /\ hand' = [hand EXCEPT ![t] = None]
  /\ k' = WakeOne(k, "mq")
  /\ Finish(t, k.wait["mq"] # <<>>, None)

\* rt_mq_send in an interrupt handler
MqIsrSend(v) ==
  /\ "mq_send" \in use.handler /\ "mq" \in alive
  /\ mq.free # None
  /\ mq' = Linked(Grabbed, mq.free, v)
  /\ k' = IF k.wait["mq"] # <<>> THEN Schedule(WakeOne(k, "mq")) ELSE k
  /\ UNCHANGED <<pc, call, got, alive, use, hand>>

BadMqRecv(t, c) ==
  /\ Tests(t, c, "mq")
  /\ mq.entry # 0
  /\ mq' = Released(Unlinked(mq), mq.head)
  /\ hand' = [hand EXCEPT ![t] = mq.head]
  /\ call' = [call EXCEPT ![t] = c]
  /\ Goto(t, "copy")
  /\ UNCHANGED <<k, got, alive, use>>

\* rt_mq_recv: take the first message off the queue
MqRecv(t, c) ==
  /\ Tests(t, c, "mq")
  /\ mq.entry # 0
  /\ mq' = Unlinked(mq)
  /\ hand' = [hand EXCEPT ![t] = mq.head]
  /\ call' = [call EXCEPT ![t] = c]
  /\ Goto(t, "copy")
  /\ UNCHANGED <<k, got, alive, use>>

\* ... copy it and give the block back
MqCopy(t) ==
  /\ At(t, "copy")
  /\ mq' = Released(mq, hand[t])
  /\ hand' = [hand EXCEPT ![t] = None]
  /\ UNCHANGED k
  /\ Finish(t, FALSE, [from |-> "mq", value |-> mq.data[hand[t]]])

MqRecvWait(t, c) ==
  /\ Tests(t, c, "mq")
  /\ mq.entry = 0 /\ c.time # "none"
  /\ WaitOn(t, c, "mq")
  /\ UNCHANGED <<mq, hand>>

MqRecvRefused(t, c) ==
  /\ Tests(t, c, "mq")
  /\ mq.entry = 0 /\ c.time = "none"
  /\ Refuse(t)
  /\ UNCHANGED <<mq, hand>>

MqFail(t) ==
  /\ Failed(t) /\ call[t].op = "mq_recv"
  /\ Fail(t)
  /\ UNCHANGED <<mq, hand>>

-----------------------------------------------------------------------------
\* The blocks of q from b on, following next
Chain(q, b) ==
  LET at[i \in 0..Len(MqBlock)] ==
        IF i = 0 THEN b ELSE IF at[i - 1] = None THEN None ELSE q.next[at[i - 1]]
  IN  [i \in {j \in 1..Len(MqBlock) : at[j - 1] # None} |-> at[i - 1]]

\* rt_mq_control(RT_IPC_CMD_RESET): the messages' blocks go to the free list one by one
MqReset(t) ==
  /\ Starts(t, "mq_reset", "mq")
  /\ k' = WakeAllFailed(k, "mq")
  /\ LET q == FoldLeft(Released, mq, Chain(mq, mq.head))
     IN  mq' = [q EXCEPT !.head = None, !.tail = None, !.entry = 0]
  /\ Goto(t, "post")
  /\ UNCHANGED <<call, got, alive, use, hand>>

\* rt_mq_detach, rt_mq_delete
MqDetach(t) == Detach(t, "mq_detach", "mq", <<"mq">>) /\ UNCHANGED <<mq, hand>>

MqNext ==
  \/ \E t \in Running :
       \/ \E c \in SendMessage : MqSend(t, c)
       \/ \E c \in RecvMessage : MqRecv(t, c) \/ MqRecvWait(t, c) \/ MqRecvRefused(t, c)
       \/ MqLink(t) \/ MqCopy(t) \/ MqFail(t) \/ MqReset(t) \/ MqDetach(t)
  \/ \E v \in Message : MqIsrSend(v)

-----------------------------------------------------------------------------
MqType ==
  /\ mq.head \in MqBlocks \cup {None} /\ mq.tail \in MqBlocks \cup {None}
  /\ mq.free \in MqBlocks \cup {None} /\ mq.entry \in 0..Len(MqBlock)
  /\ mq.next \in [MqBlocks -> MqBlocks \cup {None}]
  /\ mq.data \in [MqBlocks -> Message \cup {None}]
  /\ hand \in [Thread -> MqBlocks \cup {None}]
  /\ \A t \in Thread : hand[t] # None <=> pc[t] \in {"link", "copy"}

InHand == {hand[t] : t \in Thread} \ {None}

\* rt_mq_send, rt_mq_urgent and rt_mq_recv enable interrupts around the copy, with the
\* block on no list: all the same every block is in the queue, free, or in the hands of
\* one thread, and msg_queue_tail and entry are those of the queue
MqBlocksConserved ==
  LET waiting == Chain(mq, mq.head)
      free == Chain(mq, mq.free)
  IN  /\ Distinct(waiting \o free)
      /\ ToSet(waiting \o free) \cap InHand = {}
      /\ ToSet(waiting \o free) \cup InHand = MqBlocks
      /\ \A t, u \in Thread : t # u /\ hand[t] # None => hand[t] # hand[u]
      /\ mq.entry = Len(waiting)
      /\ mq.tail = IF waiting = <<>> THEN None ELSE Last(waiting)

\* rt_mq_send and rt_mq_urgent wake one receiver for each message
MqNobodyStranded == k.wait["mq"] # <<>> => mq.entry <= Cardinality(Underway({"mq_recv"}))

MqContents == [i \in 1..mq.entry |-> mq.data[Chain(mq, mq.head)[i]]]

MqTaken ==
  [t \in Thread |-> IF pc[t] = "copy" THEN mq.data[hand[t]] ELSE Taken("mq")[t]]

MqQueue == INSTANCE AbstractQueue
  WITH Actor <- Thread, Item <- Message, Nothing <- None, Capacity <- Len(MqBlock),
       Ways <- {"urgent", "reset"}, queue <- MqContents, taken <- MqTaken
=============================================================================
