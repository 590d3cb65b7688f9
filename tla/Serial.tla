-------------------------------- MODULE Serial --------------------------------
(***************************************************************************)
(* A serial device that is open with RT_DEVICE_FLAG_INT_RX (serial.c): a   *)
(* handler puts what it receives in a FIFO, dropping the oldest byte when  *)
(* it is full, and wakes the reader, who comes through DFS                 *)
(* (serial_fops_read).  On the MT2625 (drv_usart.c) the handler is a hook  *)
(* of the idle thread, which any thread may preempt; with other drivers it *)
(* is an interrupt.  With RT_DEVICE_FLAG_INT_TX a writer whom the          *)
(* transmitter refuses waits for a completion.  The hardware is external:  *)
(* it has bytes when it likes, takes one at a time to send and interrupts  *)
(* when it is sent.  RT_SERIAL_USING_DMA is off.  Opening and closing are  *)
(* left out, so the FIFO is there throughout.                              *)
(***************************************************************************)
EXTENDS Completion, WaitQueue

CONSTANTS
  SrSize,   \* config.bufsz, RT_SERIAL_RB_BUFSZ
  SrByte,   \* the bytes received
  SrCount,  \* the lengths of a read and a write
  SrFound   \* how many bytes an interrupt finds

ASSUME SerialAssumption ==
  /\ SrSize \in Nat \ {0, 1} /\ SrCount \cup SrFound \subseteq Nat \ {0}
  /\ None \notin SrByte /\ "serial" \in WaitQueueName

VARIABLES
  sr,     \* buffer, put_index, get_index, is_full; busy: the transmitter has a byte
  unread  \* history: the bytes received and neither read nor dropped, oldest first

serial == <<sr, unread>>

SrInit ==
  /\ sr = [buf |-> [i \in 0..(SrSize - 1) |-> None], put |-> 0, get |-> 0, full |-> FALSE,
           busy |-> FALSE]
  /\ unread = <<>>

NextIndex(i) == IF i + 1 >= SrSize THEN 0 ELSE i + 1

SrEmpty == sr.get = sr.put /\ ~sr.full

SrCall(op, n) == [op |-> op, arg |-> n, time |-> "forever", some |-> FALSE]

\* t calls op with a length n and goes to p
SrStarts(t, op, n, p) ==
  /\ Starts(t, op, "sr")
  /\ call' = [call EXCEPT ![t] = SrCall(op, n)]
  /\ Goto(t, p)
  /\ UNCHANGED <<k, got, alive, use, cp, wq, serial>>

SrReturns(t) ==
  /\ call' = [call EXCEPT ![t] = None]
  /\ Goto(t, "run")
  /\ UNCHANGED <<k, got, alive, use, cp, wq, serial>>

-----------------------------------------------------------------------------
BadSrStored(r, c) ==
  LET put == NextIndex(r.put)
  IN  [r EXCEPT !.buf[r.put] = c, !.put = put, !.full = @ \/ put = r.get]

\* rt_hw_serial_isr on a byte: when put_index reaches get_index the oldest goes
SrStored(r, c) ==
  LET put == NextIndex(r.put)
  IN  [r EXCEPT !.buf[r.put] = c, !.put = put, !.full = @ \/ put = r.get,
                !.get = IF put = @ THEN NextIndex(@) ELSE @]

SrLast(s) == SubSeq(s, Max({1, Len(s) - SrSize + 2}), Len(s))

\* RT_SERIAL_EVENT_RX_IND with the bytes s: then serial_fops_rx_ind wakes the reader
SrIsrReceive(s) ==
  /\ "sr_rx" \in use.handler
  /\ sr' = FoldLeft(SrStored, sr, s)
  /\ unread' = SrLast(unread \o s)
  /\ wq' = [wq EXCEPT !["serial"] = WqWoken("serial")]
  /\ k' = IF wq["serial"].nodes # <<>> THEN Schedule(WqResumed(k, "serial")) ELSE k
  /\ UNCHANGED <<pc, call, got, alive, use, cp>>

\* The same in mt2625_uart0_idle_rx, a hook the idle thread runs in every round: a byte ...
SrIdleStore(c) ==
  /\ "sr_idle" \in use.handler
  /\ At(Idle, "run") \/ At(Idle, "sr_length")
  /\ sr' = SrStored(sr, c)
  /\ unread' = SrLast(Append(unread, c))
  /\ Goto(Idle, "sr_length")
  /\ UNCHANGED <<k, call, got, alive, use, cp, wq>>

\* ... or no more, or none at all: rx_length
SrIdleLength ==
  /\ "sr_idle" \in use.handler
  /\ At(Idle, "run") \/ At(Idle, "sr_length")
  /\ Goto(Idle, IF sr.put = sr.get THEN "run" ELSE "sr_wake")
  /\ UNCHANGED <<k, call, got, alive, use, cp, wq, serial>>

SrIdleWake ==
  /\ At(Idle, "sr_wake")
  /\ wq' = [wq EXCEPT !["serial"] = WqWoken("serial")]
  /\ k' = IF wq["serial"].nodes # <<>> THEN Schedule(WqResumed(k, "serial")) ELSE k
  /\ Goto(Idle, "run")
  /\ UNCHANGED <<call, got, alive, use, cp, serial>>

\* serial_fops_read and _serial_int_rx in it, byte by byte
SrRead(t, n) == SrStarts(t, "sr_read", n, "sr_get")

SrGet(t) ==
  /\ At(t, "sr_get") /\ call[t].arg > 0 /\ ~SrEmpty
  /\ sr' = [sr EXCEPT !.get = NextIndex(@), !.full = FALSE]
  /\ unread' = Tail(unread)
  /\ call' = [call EXCEPT ![t].arg = @ - 1, ![t].some = TRUE]
  /\ UNCHANGED <<k, pc, got, alive, use, cp, wq>>

SrReadEnd(t) ==
  /\ At(t, "sr_get") /\ call[t].some /\ (call[t].arg = 0 \/ SrEmpty)
  /\ SrReturns(t)

\* ... no byte: rt_wqueue_wait
SrReadNone(t) ==
  /\ At(t, "sr_get") /\ ~call[t].some /\ SrEmpty
  /\ Goto(t, "sr_wait")
  /\ UNCHANGED <<k, call, got, alive, use, cp, wq, serial>>

SrWait(t) ==
  /\ At(t, "sr_wait")
  /\ WqPass(t, "serial", "sr_get") \/ WqBlock(t, "serial")
  /\ UNCHANGED <<cp, serial>>

SrWaited(t) ==
  /\ call[t] # None /\ call[t].op = "sr_read"
  /\ WqReturn(t, "serial") \/ WqUnqueue(t, "serial", "sr_get")
  /\ UNCHANGED <<cp, serial>>

\* rt_serial_control(TCFLSH), _tc_flush of the input
SrFlush(t) ==
  /\ Starts(t, "sr_flush", "sr")
  /\ sr' = [sr EXCEPT !.put = 0, !.get = 0, !.full = FALSE]
  /\ unread' = <<>>
  /\ UNCHANGED <<caller, cp, wq>>

-----------------------------------------------------------------------------
\* _serial_int_tx, byte by byte: the transmitter takes it or putc returns -1
SrWrite(t, n) == SrStarts(t, "sr_write", n, "sr_put")

SrPut(t) ==
  /\ At(t, "sr_put") /\ call[t].arg > 0 /\ ~sr.busy
  /\ sr' = [sr EXCEPT !.busy = TRUE]
  /\ call' = [call EXCEPT ![t].arg = @ - 1]
  /\ UNCHANGED <<k, pc, got, alive, use, cp, wq, unread>>

SrPutRefused(t) ==
  /\ At(t, "sr_put") /\ call[t].arg > 0 /\ sr.busy
  /\ Goto(t, "sr_busy")
  /\ UNCHANGED <<k, call, got, alive, use, cp, wq, serial>>

Answered == cp' = [flag |-> FALSE, owed |-> cp.owed - 1]

\* ... rt_completion_wait
SrPutAgain(t) ==
  /\ At(t, "sr_busy") /\ cp.flag
  /\ Answered
  /\ Goto(t, "sr_put")
  /\ UNCHANGED <<k, call, got, alive, use, wq, serial>>

SrPutWait(t) ==
  /\ At(t, "sr_busy") /\ ~cp.flag /\ k.wait["cp"] = <<>>
  /\ Block(t, call[t], ListSuspend([k EXCEPT !.err[t] = "EOK"], "cp", t, "FIFO"))
  /\ UNCHANGED <<cp, wq, serial>>

SrPutWaited(t) ==
  /\ At(t, "again") /\ call[t].op = "sr_write"
  /\ Answered
  /\ Goto(t, "sr_put")
  /\ UNCHANGED <<k, call, got, alive, use, wq, serial>>

SrWritten(t) == At(t, "sr_put") /\ call[t].arg = 0 /\ SrReturns(t)

\* RT_SERIAL_EVENT_TX_DONE: rt_completion_done
SrIsrSent ==
  /\ sr.busy
  /\ sr' = [sr EXCEPT !.busy = FALSE]
  /\ cp' = Completed
  /\ k' = IF ~cp.flag /\ k.wait["cp"] # <<>> THEN Schedule(WakeOne(k, "cp")) ELSE k
  /\ UNCHANGED <<pc, call, got, alive, use, wq, unread>>

SrNext ==
  \/ \E t \in Running :
       \/ \E n \in SrCount : SrRead(t, n) \/ SrWrite(t, n)
       \/ SrGet(t) \/ SrReadEnd(t) \/ SrReadNone(t) \/ SrWait(t) \/ SrWaited(t)
       \/ SrFlush(t)
       \/ SrPut(t) \/ SrPutRefused(t) \/ SrPutAgain(t) \/ SrPutWait(t) \/ SrPutWaited(t)
       \/ SrWritten(t)
  \/ \E n \in SrFound : \E s \in [1..n -> SrByte] : SrIsrReceive(s)
  \/ SrIsrSent
  \/ (\E c \in SrByte : SrIdleStore(c)) \/ SrIdleLength \/ SrIdleWake

-----------------------------------------------------------------------------
SrType ==
  /\ sr.put \in 0..(SrSize - 1) /\ sr.get \in 0..(SrSize - 1) /\ sr.full \in BOOLEAN
  /\ sr.busy \in BOOLEAN /\ unread \in Seq(SrByte)

\* The bytes from get_index to put_index
SrContents == [i \in 1..((sr.put - sr.get) % SrSize) |-> sr.buf[(sr.get + i - 1) % SrSize]]

\* rt_hw_serial_isr and _serial_int_rx: what is to be read are the last bytes received, in
\* order, one less than the FIFO holds at most; and is_full is set only with bytes to read
SrKeepsBytes == SrContents = unread /\ (sr.full => unread # <<>>)

SrReaders == {t \in Thread : "sr_read" \in use.calls[t]}

\* The completion is for one: rt_completion_wait asserts that its list is empty
CpCalls == {"cp_wait", "sr_write"}

WritesAlone(u) ==
  \A s, t \in Thread : u.calls[s] \cap CpCalls # {} /\ u.calls[t] \cap CpCalls # {} => s = t

OneWriter == \A u \in Uses : WritesAlone(u)

\* A single reader is not asleep beside a byte, unless the hook that put it there is on its
\* way to wake the reader, nor the writer beside an idle transmitter, wherever between the
\* test and the wait the handler comes
SrNobodyStranded ==
  /\ \A t \in SrReaders :
       Cardinality(SrReaders) = 1 /\ call[t] # None /\ call[t].op = "sr_read"
         /\ k.stat[t] = "suspend"
         => SrEmpty \/ pc[Idle] \in {"sr_length", "sr_wake"}
  /\ \A t \in ToSet(k.wait["cp"]) : call[t].op = "sr_write" => sr.busy
=============================================================================
