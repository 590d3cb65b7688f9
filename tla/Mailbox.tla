------------------------------- MODULE Mailbox -------------------------------
(***************************************************************************)
(* The mailboxes of ipc.c: a ring of words with two suspend lists, one of  *)
(* receivers that found it empty and one of senders that found it full.    *)
(***************************************************************************)
EXTENDS Caller

CONSTANTS
  Mail,    \* the values sent
  MbSize   \* mb->size

ASSUME MailboxAssumption ==
  /\ MbSize \in Nat \ {0} /\ MbSize < 2^16
  /\ None \notin Mail \cup [from : {"mb"}, value : Mail]
  /\ {"mb.recv", "mb.send"} \subseteq WaitList

VARIABLE mb  \* the mailbox: pool, in_offset, out_offset, entry

MbInit ==
  mb = [pool |-> [i \in 0..(MbSize - 1) |-> None], in |-> 0, out |-> 0, entry |-> 0]

SendMail == Calls({"mb_send"}, Mail)
RecvMail == Calls({"mb_recv"}, {None})

BadAdvance(i) == IF i + 1 > MbSize THEN 0 ELSE i + 1

\* ++ offset; if (offset >= mb->size) offset = 0
Advance(i) == IF i + 1 >= MbSize THEN 0 ELSE i + 1

\* The mailbox with v behind the others
Stored(v) ==
  [mb EXCEPT !.pool[mb.in] = v, !.in = Advance(@), !.entry = @ + 1]

\* rt_mb_send_wait, rt_mb_send
MbSend(t, c) ==
  /\ Tests(t, c, "mb")
  /\ mb.entry # MbSize
  /\ mb' = Stored(c.arg)
  /\ k' = WakeOne(k, "mb.recv")
  /\ Finish(t, k.wait["mb.recv"] # <<>>, None)

MbSendWait(t, c) ==
  /\ Tests(t, c, "mb")
  /\ mb.entry = MbSize /\ c.time # "none"
  /\ WaitOn(t, c, "mb.send")
  /\ UNCHANGED mb

MbSendRefused(t, c) ==
  /\ Tests(t, c, "mb")
  /\ mb.entry = MbSize /\ c.time = "none"
  /\ Refuse(t)
  /\ UNCHANGED mb

\* rt_mb_send in an interrupt handler
MbIsrSend(v) ==
  /\ "mb_send" \in use.handler /\ "mb" \in alive
  /\ mb.entry # MbSize
  /\ mb' = Stored(v)
  /\ k' = IF k.wait["mb.recv"] # <<>> THEN Schedule(WakeOne(k, "mb.recv")) ELSE k
  /\ UNCHANGED <<pc, call, got, alive, use>>

\* rt_mb_recv
MbRecv(t, c) ==
  /\ Tests(t, c, "mb")
  /\ mb.entry # 0
  /\ mb' = [mb EXCEPT !.out = Advance(@), !.entry = @ - 1]
  /\ k' = WakeOne(k, "mb.send")
  /\ Finish(t, k.wait["mb.send"] # <<>>, [from |-> "mb", value |-> mb.pool[mb.out]])

MbRecvWait(t, c) ==
  /\ Tests(t, c, "mb")
  /\ mb.entry = 0 /\ c.time # "none"
  /\ WaitOn(t, c, "mb.recv")
  /\ UNCHANGED mb

MbRecvRefused(t, c) ==
  /\ Tests(t, c, "mb")
  /\ mb.entry = 0 /\ c.time = "none"
  /\ Refuse(t)
  /\ UNCHANGED mb

\* A send or receive that a timeout, a reset or a detach ended
MbFail(t) ==
  /\ Failed(t) /\ call[t].op \in {"mb_send", "mb_recv"}
  /\ Fail(t)
  /\ UNCHANGED mb

\* rt_mb_control(RT_IPC_CMD_RESET): the pool keeps its words
MbReset(t) ==
  /\ Starts(t, "mb_reset", "mb")
  /\ k' = WakeAllFailed(WakeAllFailed(k, "mb.recv"), "mb.send")
  /\ mb' = [mb EXCEPT !.entry = 0, !.in = 0, !.out = 0]
  /\ Goto(t, "post")
  /\ UNCHANGED <<call, got, alive, use>>

\* rt_mb_detach, rt_mb_delete
MbDetach(t) == Detach(t, "mb_detach", "mb", <<"mb.recv", "mb.send">>) /\ UNCHANGED mb

MbNext ==
  \/ \E t \in Running :
       \/ \E c \in SendMail : MbSend(t, c) \/ MbSendWait(t, c) \/ MbSendRefused(t, c)
       \/ \E c \in RecvMail : MbRecv(t, c) \/ MbRecvWait(t, c) \/ MbRecvRefused(t, c)
       \/ MbFail(t) \/ MbReset(t) \/ MbDetach(t)
  \/ \E v \in Mail : MbIsrSend(v)

-----------------------------------------------------------------------------
MbType ==
  /\ mb.pool \in [0..(MbSize - 1) -> Mail \cup {None}]
  /\ mb.in \in 0..(MbSize - 1) /\ mb.out \in 0..(MbSize - 1)
  /\ mb.entry \in 0..MbSize

\* The words between the two offsets
MbContents == [i \in 1..mb.entry |-> mb.pool[(mb.out + i - 1) % MbSize]]

\* rt_mb_send_wait wakes one receiver and rt_mb_recv one sender for each word: a thread
\* is in a suspend list only if woken threads will take every word, or every free place
MbNobodyStranded ==
  /\ k.wait["mb.recv"] # <<>> => mb.entry <= Cardinality(Underway({"mb_recv"}))
  /\ k.wait["mb.send"] # <<>> => MbSize - mb.entry <= Cardinality(Underway({"mb_send"}))

MbQueue == INSTANCE AbstractQueue
  WITH Actor <- Thread, Item <- Mail, Nothing <- None, Capacity <- MbSize,
       Ways <- {"reset"}, queue <- MbContents, taken <- Taken("mb")
=============================================================================
