# TLA+ models of RT-Thread for the MT2625

The repository is a port of the RT-Thread 3.x real-time kernel (single core,
preemptive, 256 priorities) to the MT2625 NB-IoT chip. The specifications here
are about the part that is RT-Thread's own logic: threads and scheduling, the
blocking objects of `ipc.c`, timers, memory pools and the heap, the driver-level IPC of
`components/drivers/src`, and the port's OneNET cloud client. Paths below are under
`src/rt-thread/` unless they begin with `src/`.

## 1. Inventory

| component | source | state | operations | what is hard, and what makes it correct |
|---|---|---|---|---|
| scheduler | `src/scheduler.c`, `src/kservice.c` (`__rt_ffs`) | `rt_thread_priority_table` (256 lists), the two-level bitmap (`rt_thread_ready_priority_group`, `rt_thread_ready_table`), `rt_current_thread`, `rt_scheduler_lock_nest` | `rt_schedule`, insert/remove thread, enter/exit critical, start | bitmap and lists are updated by hand in step; interrupts make threads ready while the scheduler is locked. *The most urgent ready thread runs; a thread is queued exactly once.* |
| threads | `src/thread.c` | `stat`, priorities, `error`, `tlist`, thread timer, time slice | startup, suspend, resume, sleep, yield, control, delete/detach, exit, timeout | calls enable interrupts half way; the timeout races with every wake-up. *A timer runs only while its thread is suspended; a deleted thread cannot come back.* |
| idle, defunct list | `src/idle.c` | `rt_thread_defunct` | reap | frees memory of threads that other code may still reach. *Nothing refers to a freed thread, every ended thread is reaped.* |
| system tick | `src/clock.c` | `rt_tick`, `remaining_tick` | `rt_tick_increase` | wraps at 2^32. *Round robin among equals.* |
| semaphore | `src/ipc.c` 195-530 | `value` (16 bits), suspend list | init/create, take, trytake, release, control, detach, delete | timeout against hand-over, detach against timeout. *No permit lost, nobody waits beside a permit, wake order.* |
| mutex | `src/ipc.c` 532-910 | `value`, `owner`, `original_priority`, `hold`, suspend list | take, release, detach, delete | recursive, handed over to a thread that does not run yet, priority inheritance. *Mutual exclusion, no unbounded inversion, priority given back.* |
| event | `src/ipc.c` 912-1290 | `set`, suspend list with each waiter's mask | send, recv, control, detach | one send wakes several waiters and clears bits for each. *A waiter wakes when its condition holds.* |
| mailbox, message queue | `src/ipc.c` 1292-2344 | ring of mails, lists of blocks, one or two suspend lists | send, send_wait, urgent, recv, control, detach | wake and retry with the rest of the time; copies with interrupts enabled. *No message lost, duplicated or reordered.* |
| timers | `src/timer.c` | hard and soft timer lists, `ACTIVATED`, the timer thread | start, stop, control, check | unlink and relink in two critical sections; callbacks that stop or restart timers; lost wake-up of the timer thread. *An active timer is linked once and fires once.* |
| memory pool | `src/mempool.c` | free block list, suspend list | alloc, free, delete | retry after a wake-up. *A block has one owner.* |
| heaps | `src/mem.c`, `src/memheap.c` (`src/slab.c` not selected) | block list in the heap | malloc, realloc, free | splitting and joining. *Blocks tile the heap, no two free neighbours.* |
| driver IPC | `components/drivers/src/{completion,dataqueue,waitqueue,workqueue,pipe}.c` | flags, 16-bit ring indices, work list | wait/done, push/pop, wakeup/wait, submit/cancel | tests with interrupts enabled before suspending. *No lost wake-up.* |
| ring buffers | `components/drivers/src/ring{buffer,blk_buf}.c` | indices with mirror bits | put, put_force, putchar_force, get, reset; blocks alloc, put, get, free | wrap and overflow. *No byte lost, doubled or reordered, but those the function says it discards; blocks in use do not overlap.* |
| serial device | `components/drivers/serial/serial.c`, `src/drivers/drv_usart.c` | receive FIFO (`put_index`, `get_index`, `is_full`), the device's wait queue, the transmit completion | read, write, flush; receive and sent events from an interrupt or, on the MT2625, a hook of the idle thread | the handler comes between the reader's test and its wait. *What is read are the last bytes received, in order; nobody sleeps beside a byte.* |
| power manager | `src/drivers/drv_pm.c`, `components/drivers/pm` | sleep locks, tick compensation | request, release, enter sleep | not built (`RT_USING_PM` is not set) |
| OneNET client | `src/ports/onenet/nb_onenet.c` | `onenet_device_table` (status, counts, `initstep`), the event `onenet_event` | open, close, update, notify, quick start, delete; callbacks of the vendor's CIS library | an answer may come after its wait has timed out. *A call returns success only for the platform's answer to that call.* |
| objects, devices | `src/object.c`, `src/device.c` | registries, `ref_count` | init, find, open, close | bookkeeping |
| signals, kernel services, board drivers, cloud and modem ports | `src/signal.c`, `src/components.c`, `src/irq.c`, `src/drivers` | - | - | signals are off in the configuration; the rest is initialisation, register access or glue to binary libraries |

**How they interact.** Everything blocks the same way: with interrupts
disabled the caller is suspended (`rt_thread_suspend` removes it from its ready
list and stops its timer), its `tlist` goes on the object's suspend list, its
thread timer is started if a time was given, interrupts are enabled, and
`rt_schedule` gives the processor away. Whoever wakes it puts it back on a
ready list; which of permit, timeout or reset woke it is read from
`thread->error` once it runs again. The concurrency to check is therefore
single-core: threads preempt one another, and interrupts come wherever they are
enabled. In the models **one step is what runs between disabling and enabling
interrupts**; a function that enables interrupts half way is several steps.

`PROJECT.json` lists the hazards found while reading, each at its line, with
the properties that watch over it and, where they stop short of it, a note of what no property covers.

## 2. The modules

| module | models |
|---|---|
| `RtKernel` | operators on a kernel state `k`: ready lists, bitmap, `rt_schedule`, suspend, resume, timeout, yield, priority change, the suspend lists of `ipc.c`, and the predicates that say the state is well formed |
| `Scheduler` | threads and scheduling as a state machine over `RtKernel` |
| `Semaphore` | one semaphore with its users and interrupt handlers, over `RtKernel` |
| `AbstractSemaphore` | what a counting semaphore promises |
| `Mutex` | the mutexes and their users, over `RtKernel` |
| `Timer` | hard and soft timers, `rt_timer_check` in the tick interrupt, the timer thread |
| `AbstractTimers` | what the hard timers promise: a function runs at its tick, no earlier and no later |
| `Caller` | a thread inside a blocking call of one of the objects below: test, wait, wake, test again, return; timeouts, detach, sleep |
| `Mailbox`, `MessageQueue`, `Event` | `rt_mb_*`, `rt_mq_*`, `rt_event_*` of `ipc.c`, over `Caller` |
| `MemPool`, `SmallMem` | `rt_mp_*` of `mempool.c`; `rt_malloc`, `rt_realloc`, `rt_free` of `mem.c` |
| `DataQueue`, `Completion`, `WorkQueue` | the files of these names in `components/drivers/src` |
| `RingBuffer`, `WaitQueue`, `Pipe` | the ring, the wait queue, and the pipe that is built of two wait queues, a ring and a mutex |
| `Serial`, `RingBlock` | reception and transmission of `serial.c`, over `WaitQueue` and `Completion`; the blocks of `ringblk_buf.c` |
| `OneNet` | the OneNET client, over `Event`, with the CIS library as its environment |
| `AbstractQueue` | what a bounded queue with a front door promises; mailbox, message queue and data queue implement it |
| `Services` | all of these objects over one kernel |
| `SchedulerMC`, `SemaphoreMC`, `MutexMC`, `TimerMC`, `ServicesMC` | constants for TLC |
| `RtKernel_proofs`, `Semaphore_proofs`, `Mutex_proofs`, `Scheduler_proofs`, `Services_proofs`, `Queues_proofs`, `Drivers_proofs`, `Timer_proofs` | theorems |

**Correspondence.** `k.ready[p]` is the list `rt_thread_priority_table[p]`, `k.table`
the set of priorities whose bit is set in `rt_thread_ready_table`, `k.group` the
bits of the group word, `k.wait[w]` the suspend list of object `w` (or
`rt_thread_defunct`), `k.timer[t]` whether `t`'s thread timer is linked,
`k.lock` the nesting of `rt_enter_critical`. `pc[t]` says where a thread is inside a
call in which interrupts are enabled, also while it is preempted; a thread can
step only if it is `k.cur`. The names of actions are those of the functions:
`Sleep` is `rt_thread_sleep` to its `rt_schedule`, `TakeBlock`,
`TakeSchedule`, `TakeReturn` are the three parts of an `rt_sem_take` that waits,
`DeleteUnlink`, `DeleteTimer`, `DeleteClose`, `DeleteBury` the four critical
sections of `rt_thread_delete`, `Detach`, `DetachTest`, `DetachWake`,
`DetachObject` the loop of `rt_ipc_list_resume_all` and what follows it, `ExitCritical` and
`ExitUnlocked` an `rt_exit_critical` with the scheduler locked and with the nesting at 0 already.

`Timer` stands on its own: of the kernel it needs only whether the timer thread is
suspended. `m.list` are `rt_timer_list` and `rt_soft_timer_list`, `m.active` is
`RT_TIMER_FLAG_ACTIVATED`, `m.deadline` is `timeout_tick`; ticks are numbers modulo
`TickRange` and are compared by their difference as in the code. `StartUnlink`,
`StartDeadline`, `StartInsert` and `StartWake` are the parts of `rt_timer_start`,
`StopTest`, `StopUnlink` and `StopClear` those of `rt_timer_stop`; `Start` and `Stop` are the
same functions called with interrupts disabled. `CheckFire`, `CheckCallback` and
`CheckDone` are the loop of `rt_timer_check`; `Look` to `Sleep` are
`rt_thread_timer_entry`, `CheckSoft` to `SoftDone` are `rt_soft_timer_check`, whose `n` may
point to a timer that is on no list. The timer thread's sleep is the hard timer
`Delay`, whose function is `rt_thread_timeout`.

The **services** share `Caller`: `pc[t]` is where thread `t` is inside a call that has interrupts
enabled, `call[t]` the call and what is left of its time, `got[t]` what it is about to
return. A waiting function of the kernel is a loop: `MbSendWait` puts the
thread on its list, `CallSchedule` gives the processor away, and `pc[t] = "again"` is
the test that follows the wake-up, at which the thread either stores its mail, waits again with the rest
of its time (`Remaining`: something, or nothing), or returns the error that woke it. What the real
function does with interrupts disabled is one action; what it does afterwards is the
next one, such as `MqSend` (take a free block) and `MqLink` (copy, then link it), `WkSubmit`
and `WkResume`, `HpGrow`, `HpGrowMalloc` and `HpGrowFree`.

| module | state | in the code |
|---|---|---|
| `Mailbox` | `mb`: pool, offsets, entry | `mb->msg_pool`, `in_offset`, `out_offset`, `entry` |
| `MessageQueue` | `mq`: head, tail, free, entry, blocks; `hand` | `msg_queue_head`, `_tail`, `_free`, `entry`; the local `msg` of a thread that copies |
| `Event` | `ev` | `event->set`; `thread->event_set` is in `call[t].arg` |
| `MemPool` | `mp`: free blocks, count, blocks held | `block_list`, `suspend_thread_count` |
| `DataQueue` | `dq`: ring, both indices | `queue`, `put_index`, `get_index` (16 bits) |
| `Completion` | `cp` | `completion->flag` |
| `RingBuffer`, `WaitQueue`, `Pipe` | `ring`, `wq`, `pp` | indices and mirrors; `RT_WQ_FLAG_WAKEUP` and `waiting_list`; `readers`, `writers`, `lock` |
| `WorkQueue` | `wk`: list, current, pending | `work_list`, `work_current`, `RT_WORK_STATE_PENDING` |
| `SmallMem` | `heap`: headers by offset, `lfree` | `struct heap_mem`, `lfree` |
| `Serial` | `sr`: FIFO and its indices, whether the transmitter has a byte; `unread` | `struct rt_serial_rx_fifo`; the device's registers |
| `RingBlock` | `rbb`: descriptors, list | `blk_set`, `blk_list` |
| `OneNet` | `on`, `cis` | `onenet_device_table`; what the library owes |

`OneNet` has the application's calls as threads' steps and the library's callbacks as steps of their
own: the assignments of a callback (`CisProgress`, `CisRegistered`, `CisObserve`, ...) and then
`CisSend`, the `rt_event_send` at its end, because a thread may run between them. The library is
binary; it is modelled as the code relies on it: it takes or refuses a request, answers each
request it took once, at any time, asks once for each object after it reported a registration, and may report at
any time that the platform has ended one.

**Abstractions.** Ticks are not counted in the IPC modules: an armed thread timer
may expire in any later state in which interrupts are enabled, which includes
every order of expiries a clock produces. `Scheduler` counts the time slice.
Hooks, the stack check, debugging output and the object registry have no
influence on the state modelled. An object is used only while `alive`; threads
that entered a call before are followed to its end. `sem->value` has its
16-bit width (`ValueRange`). Deleting a list head that is read as a thread
(`rt_ipc_list_resume_all` on a list that became empty) has no meaning in the
model: `DetachWake` is not enabled there, and run `semaphore_detach` is about it.

In the services: the `rt_schedule` of a handler, and of the pipe's lock and wake-ups, is part of the step
that ends in it; the pipe's lock is a mutex without inheritance (its users are
of equal priority); data that `rt_realloc` copies is not followed; a resume of a list
head, which `rt_mp_free`'s stale count leads to, is taken as refused; what `mem.c` does under `heap_sem`
is one step, as nobody else comes near the heap meanwhile; a receive interrupt is one step, the idle thread's hook is a step for
each byte, and bytes are read one at a time (`SrGet`). `kept`, `cp.owed`, `wk.missed`,
`heap.held`, `unread` and `seen` are histories that only properties read. In `OneNet`, fields that nothing reads
are left out, and a registered device is not registered again by the library.

Four actions are one step where the code enables interrupts once in between:

* `StartWake` (`timer.c:402`-406) and `WkResume` (`workqueue.c:116`) call `rt_thread_resume`, which tests the state before it
  disables interrupts (`thread.c:698`). That window is the subject of `Scheduler` and its run `scheduler_wake_sleeper`, and is left out here.
* `SoftFire` steps `n` and takes the timer off its list (`timer.c:597`-600). Those who start and stop timers
  are less urgent than the timer thread, so only the tick interrupt could come between, and it is not concerned with the soft list.
* `WkCancelAll` (`workqueue.c:380`-386) unlinks all works; the scheduler is locked meanwhile, and a handler that submits
  a work in the middle of it is left out.

**Callers.** The kernel does not protect a thread from every pair of concurrent
calls on it: two threads that start, resume or delete the same third one, or
one that deletes a thread whose sleep is about to end. `Scheduler`'s constant
`Calls` says who calls what, and `WellBehaved` states the pairs that must not
happen. The two passing runs use values of `Calls` for which it holds; run
`scheduler_wake_sleeper` uses one, taken from `timer.c`, for which it does not.

In `Timer` the threads that start and stop timers are less urgent than the timer thread,
as its default priority 0 intends, and timer functions do not block. A timer is started
and stopped by one thread, or by the function of one timer, and by its own function
(constant `Uses`; `OneUser` says it, and TLC checks it of the uses it is given). Two contexts that start the same timer at once do link it twice, and a
one-shot timer that restarts itself in its own function can no longer be stopped; both are
listed as hazards and are outside `Uses`. A periodic timer of 0 ticks would keep
`rt_timer_check` in its loop for ever and is outside `Times`.

**Definitions named `Bad...`** are not part of the model. Each is the definition
it stands next to with one plausible programming fault; the `mutants` of
`PROJECT.json` say which property notices it.

## 3. The runs

| run | question | bounds | distinct states |
|---|---|---|---|
| `scheduler_life` | do lists, bitmap, timers and the running thread stay consistent when threads are started, suspended, resumed, put to sleep, reprioritised, deleted, ended and reaped, with ticks and critical sections in between? | 4 threads, priorities 7, 8, 255; slice 2; lock nesting 2 | 1.2 million |
| `scheduler_share` | does each ready thread of one priority get its turn; is every ended thread reaped? (liveness) | 4 threads, three of one priority | 34 thousand |
| `scheduler_wake_sleeper` | is what `rt_thread_resume` queues always a suspended thread? **No.** | one resumes, one sleeps | - |
| `semaphore` | permits conserved, nobody waits beside a permit, wake order, `AbstractSemaphore` implemented | 3 users (two of one priority) and handlers; FIFO and PRIO; value up to 2 | 155 thousand |
| `semaphore_live` | a timed take returns; every FIFO waiter is served | as above, no reset or detach, value up to 1 | 26 thousand |
| `semaphore_detach` | does the loop that wakes all waiters always find one? **No.** | as `semaphore` | - |
| `mutex` | exclusion, hand-over, inheritance, priority restored; can a busy thread of middle priority keep the most urgent one waiting? (liveness) | 3 users of different priority, one PRIO mutex, depth 2 | 72 thousand |
| `mutex_nested_priority` | has a thread that owns nothing its own priority, with two mutexes? **No.** | 2 users, 2 mutexes | - |
| `timer` | are the lists in order while the tick wraps, is `ACTIVATED` right, does each hard timer run at its tick (`AbstractTimers`), does the timer thread not oversleep, does each soft timer run? | 3 hard timers with the thread's own, 2 soft; 12 ticks in a turn; times 1 and 2; one tick of delay; three uses of the timers | 261 thousand |
| `timer_stopped` | is a soft timer that was stopped never run? **No.** | two soft timers | - |
| `services` | does a thread sleep beside what it waits for; are queues in order (`AbstractQueue`), blocks conserved, bits handed out once, completions counted, pipes and serial device awake, buffers and heap sound, works not forgotten, cloud answers matched? | an urgent and two equal threads, handlers; 33 scenarios | 402 thousand |
| `workqueue_no_work` | does the work thread find a work when it is resumed? **No.** | two submitters | - |

**Why the bounds are enough.** Priorities 7 and 8 lie in different rows of the
bitmap and 255 is the last bit of the last row, so clearing a bit without
clearing its row, and the reverse, both happen. Three waiters give a list
a head, a middle and a tail, two of one priority make FIFO order inside a
priority visible, and removal from the middle happens by timeout. A mutex
depth of 2 distinguishes nested from last release. `MaxValue`, `MaxHold`,
`MaxOwned`, `MaxLock` and `InitTick` are the only bounds on counters, and each is a
guard named in its module (`MaxOwned` limits how many mutexes one thread holds at a
time, `MaxLock` nesting of critical sections).

In `timer`, 12 ticks make a turn, which is the least that leaves `RT_TICK_MAX / 2` = 5 above the
longest time plus the delays (`n + 2 * MaxLate < Half`); the run goes through many
turns, so every timeout occurs on both sides of the wrap. `MaxLate` stands
for "much less than 2^31 ticks": a thread that is preempted for longer than that
inside `rt_timer_start` would see its timer compare as not due. What a timer
on no list had for a timeout is forgotten at the next tick unless something may
still read it.

**Bounds of `services`.** An initial state picks one of the 33 scenarios of `MCUses`: which operations
each of the threads `hi` (priority 3), `a` and `b` (20) calls, again and again, what interrupt handlers do,
whether lists are FIFO or PRIO, and whether calls do not wait, wait for a time, or for ever. Most scenarios are about one object,
with callers of both sides above and below one another; three let the same threads wait in several objects.
What is large in the code has its least interesting size: a mailbox, a data queue and a message queue
of 2 (full, empty and wrapped), 2 pool blocks for three allocators, a ring of 3 bytes and pipe writes of
2 (more than fits behind a rest), a serial FIFO of 3 with reads and writes of 2 (full, dropping and wrapped,
and a read that ends with one byte), a buffer of 6 words for up to 3 blocks of 2 and 3 (behind the tail, around the end, and no place), 2 works, 2 event bits beside the client's, a heap of 21 words with
headers and least blocks of 3, and requests for 3, 5 and 8 words (the block fits exactly, splits, or leaves too little to split). `MaxPended`
and `MaxPush` stop the count of waiters that a timeout leaves behind and `put_index` at 4; `MaxOwed` lets
the CIS library owe one answer of each kind, `Objects` are the 2 objects it asks for, and `MaxTroubled`
ends a series of calls that begin with answers outstanding after the first; `left` lets such a call begin with one
answer, bit or count outstanding where the client is closed, with none (`Calm`) elsewhere. Stored values are symmetric
(`Symmetry`): no definition tells `v1` from `v2`. Threads may all wait for one another there,
so that deadlock is not checked.

`scheduler_life` finds deadlocks as well: the idle thread always runs and the tick
always comes, so a state without a successor would be an error of the
model or the code. `mutex_nested_priority` and `semaphore_detach` allow states
in which the applications wait for each other.

**Fairness.** In `semaphore_live` a thread that is dispatched again and again goes on with the call it
is in (strong fairness of `Continue`, because interrupts and preemption disable
its step in between). In `scheduler_share` weak fairness of `Continue` is enough, which only
says that the running thread gets on with its call while nothing takes the processor from it; only the idle thread's loop, which anybody may preempt, is strongly fair. In `mutex`, where there are no handlers, it is enough that the running
thread goes on with the call it is in (weak fairness of *some* thread's `Continue`) and that an owner that can release
again and again does so, the nested and the last time, without which no mutex is ever
free. Nothing else forces an application to *make* a call. The tick interrupt keeps coming, an armed timer is due one day, a
handler that woke somebody reaches its `rt_schedule`. `TimedTakeReturns` claims
only what a preemptive fixed-priority scheduler gives: it is about the most urgent thread; so is
`NoUnboundedInversion`.
`FifoWaiterServed` assumes that handlers keep releasing to waiters, `DefunctReaped` that
idle keeps getting the processor. `services` states no liveness: its safety properties say of each wait
who is about to end it.

### What the runs found

1. **`rt_thread_resume` acts on a stale test** (`thread.c:698`). The state is
   tested with interrupts enabled. A thread whose sleep ends between the test and
   `rt_hw_interrupt_disable` is inserted a second time although it
   is ready. `rt_timer_start` makes this call on the timer thread, which sleeps with a
   timeout. All callers in `ipc.c` hold interrupts disabled, which is why the IPC
   models are not affected.
2. **`rt_ipc_list_resume_all` acts on a stale test** (`ipc.c:161`). It is the
   same window: the last waiter may time out between the emptiness test and the
   critical section, which then takes the list head for a thread.
   `rt_ipc_list_resume_all` called with interrupts disabled (`rt_sem_control`) is safe.
3. **Nested mutexes** (`ipc.c:832`). `original_priority` is recorded when the mutex
   is taken and may itself be inherited. Two mutexes released in the order they
   were taken leave a thread with the inherited priority and no mutex.

4. **A stopped soft timer runs** (`timer.c:597`). `rt_soft_timer_check` has moved `n` to the next
   timer before it runs a timeout function. If the function stops that timer, `n`
   is on no list and points to itself; its function is run although it was stopped, and
   again and again.

5. **The work thread runs a work that is not there** (`workqueue.c:70`). A submitter links its work, enables
   interrupts and only then resumes the work thread. Preempted in between, it resumes a thread that has done this work and
   suspended itself on an empty list again; the thread takes the list head for a work.

Further cases were met and are left aside in the properties, by a named
condition: a soft timer whose timeout is `RT_TICK_MAX` reads as an empty list, so that
the timer thread suspends itself (`timer.c:647`; `NoneAtTickMax`), and an interrupt
handler that starts a soft timer between the timer thread's test and its
`rt_thread_suspend` does not wake it (`timer.c:646`; callers are threads). Of the services:

* a work submitted between the work thread's test and its suspension finds it ready and is left until the next submission
  (`workqueue.c:61`; `WkSound` says that this is the only way), and `rt_workqueue_cancel_all_work` leaves the flags of the works it unlinks,
  so that they are refused as busy from then on (`workqueue.c:383`);
* a forced put into a ring buffer that overflows while both indices are in the same mirror flips both mirrors, and
  the full buffer reads as empty (`ringbuffer.c:136`-143), although "it will discard the old data" only (96). The history
  `kept.bytes` follows the comment and `kept.emptied` notes the case: `RbKeepsBytes`, a part of `BuffersSound`, claims nothing of the ring from
  then until it is reset;
* an opener of a serial device replaces `open_flag` (`serial.c:582`): one without `RT_DEVICE_FLAG_INT_RX` turns the reads of
  those before it into polling, and the FIFO they had is not freed; `Serial` leaves opening and closing out;
* `rt_rbb_blk_queue_get` takes blocks off `blk_list` while they are in use (`ringblk_buf.c:414`), so that an allocation no longer sees them;
  `rt_rbb_blk_alloc` does not compare its size with that of an empty buffer (`ringblk_buf.c:208`-216), and `rt_rbb_destroy`
  reads the object it has freed (98-100). `RingBlock` leaves queues out and asks for sizes that fit;
* `rt_realloc` that shrinks a block may leave `lfree` behind the hole it makes (`mem.c:458`-485; `LfreeLowest` excludes its users);
* after 65536 pushes the data queue's indices no longer tell that it is full (`dataqueue.c:66`);
* `nb_onenet_notify_with_ack` does not look at what `rt_event_recv` returned, and a notification that timed out returns success
  (`src/ports/onenet/nb_onenet.c:1049`); a call made while answers to a timed-out one are outstanding takes
  them for its own, since nothing clears bits, counts or `initstep` between calls (797, 252, 938). `OnAnswersMatch` is about calls that begin with nothing
  outstanding and do not time out;
* `nb_onenet_open` compares the word it received with each failure by itself (802). If `event_bootstrap_fail` and
  `event_connect_fail` are both there when it gets to run, it is equal to neither and the open goes on as if registered. A later registration then completes it and leaves
  `event_reg_success` in the event. `OnAnswersMatch` still says of such a call (`mistaken`) that it returns success only if a registration was
  reported, and not that it leaves nothing behind. TLC finds the violation if this exclusion, or that of the ring buffer, is dropped: both
  cases occur in the run.

What `NobodyStranded` says is narrower than its name in three places: several pushers of a data queue may sleep beside free places (a pop wakes
one at most, and none above the low water mark; excluded is that pushers and poppers all sleep); of a pool's `suspend_thread_count`, that it is never
too low, while a timeout does leave it too high; and the serial device is for a single reader.

## 4. The proofs

`RtKernel_proofs` proves, for all threads, priorities in 0..255, lists and initial
ready lists, what each operator of `RtKernel` does to a well-formed kernel
state (`KernelInv`): `Schedule`, `Suspend`, `Resume`, `Timeout`, `Rotate`,
`ChangePriority`, `ListSuspend`, `ResumeFailed`, `BootKernel`.
Theorem `HighestIsMostUrgent`: if the bitmap agrees with the lists, two
applications of `__rt_ffs` return the most urgent priority that has a ready
thread. The argument is that rows order priorities (`p \div 8`).

`Semaphore_proofs` proves for the specification `Semaphore!Spec`, from the assumptions
named in the modules:

* `Consistent`: the inductive invariant `IInv` holds in every reachable state;
* `TypeCorrect`: `TypeOK`, which contains `KernelInv`;
* `NobodyWaitsInVain`: `NoWaiterWhileAvailable`;
* `NoPermitLost`: `PermitsConserved`, if `MaxValue < ValueRange`, that is if
  `sem->value` does not wrap. Without this assumption it is false: the counter is
  increased without a test (`ipc.c:459`).

`NoWaiterWhileAvailable` and `PermitsConserved` are not inductive. A release hands
its permit to the head of the list, and that permit is counted as `Granted` only if
the thread is inside its take (`pc` "schedule" or "return") and its `error` is
`RT_EOK`; and it leaves the suspend list only if its state is "suspend", which holds
only while the lists are well formed. So `IInv` is the conjunction of

* `KernelPart`: the kernel lists, bitmap and timers are exact (`KernelInv`), without
  which head and membership say nothing about `stat`; the scheduler is not locked and
  no thread is closed;
* `TypePart`: the types of the remaining variables;
* `RunningPart`: the running thread is ready unless it is about to call
  `rt_schedule`, so that a thread that makes a call is ready;
* `WaitingPart`: a thread in the suspend list is inside `rt_sem_take`, with no error;
* `NoWaiterWhileAvailable` itself.

`PermitsConserved` is then shown to be preserved by each step from `IInv`.

Each action has its lemma (`TakeNowKeeps`, `TakeBlockKeeps`, `ReleaseKeeps`,
`ErrorWakesKeep`, `ExpireKeeps`, ...) and `StepKeeps` combines them;
the kernel operators are used only through the lemmas of `RtKernel_proofs`.

The module goes on from there to the order of wake-ups and to the abstract
semaphore. The history `arrived` and the suspend list have the same threads, each once
(`OrderPart`), and of two of equal turn the one that arrived first stands first: `Before(s, t, u)`
says so without indices, and each list operation has a lemma about it. Hence `TurnsKept`
(`WakeOrder`). With `InsidePart` (a suspended thread inside `rt_sem_take` is on the list) every
action is shown to be one step of `AbstractSemaphore` or to leave its variables alone:
`Implements` is `ImplementsSemaphore`, again if `MaxValue < ValueRange`.

`Mutex_proofs` proves `TypeCorrect`, `OnlyOwnerHolds` (`MutualExclusion`) and `WaitedForIsOwned`
(`OwnedWhileWaitedFor`) for any number of mutexes, nested or not. What makes them
inductive is that the history `held` counts what each thread took and did not give back and
`Handed` the one that was made owner and does not run yet; their sum is `hold` for the owner and 0 for the rest.
`PriorityComesBack` (`PriorityRestored`) and `OwnerIsUrgent` (`OwnerInherits`) have the
hypothesis `NotNested`: no thread takes a mutex while it owns another. Without it they are
false of the code, as the run `mutex_nested_priority` shows; the hypothesis is what the other
mutex run checks them under too. `OwnerIsUrgent` is about PRIO lists, where the head is the most urgent waiter.

`Scheduler_proofs` is about the thread calls under `WellBehaved`, the discipline the module states (section 3: without
it `rt_thread_resume` races, run `scheduler_wake_sleeper`). Its invariant says, besides
`KernelInv` with the threads that are on no list on purpose (`Limbo`), where each thread in the middle of
`rt_thread_resume` (`Resumes`) or `rt_thread_delete` (`Deletes`) is and that nobody else
works on its target; that a buried thread is closed and stays so (`FreedPart`); and
`HighestRuns`. From it follow the five state properties of `Scheduler` and two action properties: `LockKeepsProcessor`
(`CriticalKeepsProcessor`) and `TurnIsKept` (`TurnKept`), the latter by a lemma per kernel operator on what it does
to the heads of the ready lists (`HeadsKept`).

`Services_proofs` begins with the buffers by themselves: the three driver buffers are right for every capacity, and then come the lemmas about
chains of message blocks and rings that `Queues_proofs` uses. An index with its
mirror bit is a place on a lap of twice the size (`Lap`), so the length is a difference on that lap;
`RingHolds` says which byte of the history lies where, and each operation has its lemma. The FIFO of the serial device is
the same with one lap (`Shows`, `FifoHolds`); the loop of `rt_hw_serial_isr` over received bytes
is a fold, and what it does is proved by taking the least number of bytes after which it would fail
(`Loops`, at the end of `RtKernel_proofs`), the one form of induction that works without the library's theorems. In
the ring of blocks, `Layout` says that walking the list of blocks meets their spans in cyclic order with one
wrap at most; an allocation lands in a gap of it (`BlocksMean`).

For the ring buffer the invariant is `RingSound`: the ring holds some sequence of bytes always, and `kept.bytes` until a forced put
has flipped both mirrors (`kept.emptied`). So the puts and gets after such a one are proved consistent with what the ring then holds,
and only the theorem's claim about `kept` ends there.

It goes on to prove, for the composition of all blocking objects, `Consistent`: `IInv` is an invariant, where `Core` is

* `KernelInv` of the one kernel under all objects, with `RunningPart` and `LockPart` (the scheduler is locked only inside a reset);
* `PlacePart`: a thread's place in the code and its call fit;
* `WaitingPart`: a thread on a suspend list is in a call that waits there. This is what makes `KernelInv` inductive: a
  resume is done to the head of a list, and that thread must be one whose call can go on.

The other two conjuncts are `WqPart` (threads on the wait queues of pipe and serial device) and `BuffersHold`. The steps that
calls are made of (wake one, wake all, suspend, retry, time out, detach) have a lemma each, and every action of every object is shown to
be made of them. The theorems are `CallersSound`, `WaitersWait` and `BuffersKeepBytes`
(`BuffersSound`).

`Queues_proofs` proves `BlocksConserved` (`MqBlocksConserved`) and `QueuesImplement` (`QueuesInOrder`): the mailbox, the
message queue and the data queue, called by any number of threads and handlers between all the other
objects' steps, each implement `AbstractQueue`. Its invariant `QueuesInv` is `IInv` with

* `MqPart`: there are two lists of different blocks, chained by `next`, one from `msg_queue_head` to `msg_queue_tail` and
  one from `msg_queue_free`; they and the hands of the copying threads share out all blocks (`BlocksIn`), and a
  block that waits or is copied out holds a message. This is what `MqBlocksConserved` needs to be inductive: that
  no chain runs into another says nothing about the next link, so the lists themselves are named, and `ChainList` shows
  that walking `next` finds them;
* `MbPart` and `DqPart`: the ring from the out offset on holds the words that wait, and the in offset is the place after
  them (`InRing`); the data queue's growing indices are reduced by `NthGrows`;
* `GotPart`: a thread that carries a value is about to return it.

Each step of a queue's own functions is then a put, a get, a clear, a handler's get or nothing. A step of any other object
leaves the queue's fields alone, but may be the one in which a call returns with its value, a `Deliver`: `Apart` says so, one lemma
per object. A message is taken by the step that unlinks its block, while it is copied out later, with interrupts enabled;
so `MqTaken` reads the block until then and the value afterwards. The proofs assume of the constants that `None` is none
of the values sent (a model value in the runs) and that `put_index` stays below `MaxPush`, the bound in the guards.

Its second half is about `NobodyStranded`: no thread sleeps beside what it waits for. Its conjuncts
for the mailbox, the message queue, the pool, the data queue, the event and the completion are
`MailTaken`, `MessagesTaken`, `BlocksTaken`, `DataTaken`, `EventsSeen` and `DoneSeen`, without any hypothesis; `NobodyLeft` adds
the serial device and is `NobodyStranded` itself. `StrandInv` is `QueuesInv` with

* `ErrPart`: who waits on a suspend list has `RT_EOK` in `thread->error` until somebody resumes it with something else. Hence a thread
  woken by a send takes the path of the woken one, and not of the one that timed out;
* `DetachPart`: a thread inside `rt_mp_detach` empties the pool's list and no other;
* supply: for each list, the threads that were woken and have not yet run are at least as many as the units a sleeper
  could take (`MbNobodyStranded` and its like, `DqSupplied` for the two lists of the data queue, where a pop wakes
  a pusher only at the low-water mark). `Turns(F)` says of a step which calls a woken thread may leave by it, `Leaving(F)` that then the
  object of these calls takes the step itself; all other steps keep the count of the woken;
* `MpPart`: free blocks are different, are those that nobody holds, and `suspend_thread_count` is within its bound;
* `CpPart`: one waiter at most, and none beside a set flag; `EvPart`: no waiter's flags are satisfied;
* `SrPart`: a thread is in a driver call only if it may make that call (`UsePart`); where one thread alone reads, it is asleep
  only on its wait queue and with the FIFO empty, or with the hook of the idle thread on its way to wake it (`ReaderPart`); a writer waits only while the
  transmitter is busy, or has the flag of its end before it (`WriterPart`).

`NobodyLeft` has the hypothesis `OneWriter`: in no use do two threads wait for the one completion, be it by
`rt_completion_wait` or by a write to the device. `rt_completion_wait` asserts that its list is empty (`completion.c`), so two
waiters are outside what the code promises; and with two writers the first may clear the flag that was the second's, which then waits
beside an idle transmitter. `ServicesMC` makes TLC evaluate the hypothesis on the uses of the runs.

`Drivers_proofs` begins with `HeapStaysSound` (`HeapSound`). `HeapInv` is about one set, the blocks in the hands of the threads: those in
`heap.held`, and those an `rt_realloc` that moves its block carries (`Moving`), each in one place only (`HandsApart`).

* `HpHeap`: every header has a next one, the least above it, and each header's `prev` is the header whose `next` it is. This, and
  not only the `prev` of what `next` leads to, is what `plug_holes` needs when it merges backward;
* `HpUses`: the used headers are the blocks, one each, with room for what was asked;
* `HpMerged`: of two neighbours one is used; `HpLowest`: `lfree` is free or the end and, but for uses with `rt_realloc`
  (`Loose`, section 3), no hole is below it. A shrinking `rt_realloc` does leave one there, so for its uses
  the theorem claims nothing about holes below `lfree`.

What `Join`, `Split`, `plug_holes`, a fit and a free do to each header is stated without the heap's history and proved once each
(`JoinRight`, `SplitSound`, `PlugSound`, `AllocatedSound`, `FreeSound`, `ShrinkSound`); between allocating, copying and
freeing, an `rt_realloc` relies on no more than that its two blocks are in its hands. That the other objects' steps never
enter or leave the middle of an `rt_realloc` is a lemma per object (`Aloof`).

The module goes on to the work queue: `WorkQueueKept` (`WkSound`). `WkInv` has

* `WkFlagsAgree`, the half of `WkSound` about flags, and the types of `wk`;
* `WorkFits`: at the places of `_workqueue_thread_entry` there is the work thread and nobody else, and it is nowhere
  else; a work is current only while that thread does it;
* while the work thread is suspended, or is past its test and about to suspend itself (`Drowsy`), a queued work means that a submitter is about to
  resume it or that a resume came too early (`Coming`). With the thread's suspension alone the invariant is not inductive.

That the steps of the other objects do not move the work thread comes from the same two lemmas per object, `Turns` and `Aloof`.
The assumption is that of `rt_workqueue_create`: a queue has one thread, which does nothing else, and works are submitted only where there
is one (`WorkQueueAssumption`).

`Timer_proofs` is about any number of timers, callers and ticks in a turn. Its theorems have the hypothesis `OneUser`, that no
timer has two users. Without it they are false: between the critical sections of `rt_timer_start` another
context that starts the same timer links it first, and then it is linked twice, or stopped while it is linked again (a listed
hazard). `LinkInv`, from which `TimerTypes` (`TypeOK`) and `TimerFlags` (`ActiveIffLinked`) follow, says

* `ApartPart`, `SolePart`, `ClearPart`: what a call has unlinked and is about to link is on no list, is nobody else's, and
  has its flag cleared; the timer whose function runs is on no list (`FiredPart`);
* `FlagPart`: flag and list agree but for the timers a call or their own function is about (`Busy`);
* `CallerPart`, `ThreadPart`, `DelayPart`: where callers and the timer thread are while the other runs, and that the thread's own
  timer is linked only while it is suspended.

`DueInv` is about time and needs `LinkInv` and `NoneAtTickMax` (a soft timeout of `RT_TICK_MAX` reads as an empty list, and the thread then suspends
itself over it, so that order and attendance are lost). Deadlines are
compared by their difference modulo `TickRange`, which is an order only while all of them lie within half a turn of
each other. So the invariant bounds how far from due each timer may be: a linked hard timer at most `MaxLate` ticks past it (`HardWindow`), a
soft one as much again with what the thread has slept past it (`SoftWindow`), a timer about to be linked by what a preempted
`rt_timer_start` may lose (`StartWindow`), the thread's own timer (`DelayWindow`). Under these bounds the
walk of `rt_timer_start` finds the place that keeps the list sorted (`LinkOrders`), and the difference the timer thread measures is
not a far one for a past one (`MeasureDue`). `TimerOrder` (`ListsInOrder`) and `TimerAttended` (`SoftAttended`) follow, the
latter with `AttendPart` and `SleepPart`: what the thread read before it sleeps is no later than the first soft timer, or a caller is about to wake it.
`TimerImplements` shows each step to be one of `AbstractTimers` or a stutter: the promise is that a hard timer's function
runs at the tick it is due, the most overdue first; that a timer is overdue by at most `MaxLate` when it is
set; and that what a timer function sets is not due in the same tick, so that the loop of `rt_timer_check` ends.

**Only model-checked:** all liveness (fairness and `ENABLED` are outside the proof
system's fragment), of `Timer` that is `SoftFires`; of `Services` the
types of the objects' own fields (the other conjuncts of `TypeOK`), that each `rt_completion_done` answers one wait (`CpOnePerDone`), and
the properties of the pipe and the client. What a recursive definition computes for every input is not proved either: loops are folds, and a
property of all their results is proved by a least counterexample where the step of the fold keeps it.

## 5. Plan

The modules are written. No module that a theorem would be about declares a RECURSIVE operator: lists of blocks are
folded. What is left, in this order:

1. Theorems: `Services`: the types of the pipe's and the client's fields, then `CpOnePerDone` (with one
   waiter) and `PpNobodyOversleeps`, for which the wait queues need an invariant of their own: whose node is linked, and where that thread is.
2. `memheap.c` (several pools, one semaphore each), the block queues of `ringblk_buf.c`, the reference counts of
   `rt_device_open` and `rt_device_close` and, with them, opening and closing a serial device while it is in use.
3. Delayed works (`WorkQueue` with `Timer`), wait queues with a time and `poll`, O_NONBLOCK pipes.

**Not modelled, and staying so.**

* Signals (`RT_USING_SIGNALS` is off), slab (not selected), the power manager (`RT_USING_PM` is not set), object
  names and registries.
* `rt_workqueue_cancel_work_sync` of the running work waits with interrupts disabled: what `rt_schedule` does then is
  the business of the port's context switch in assembler.
* `ril_port.c`, `system_port.c` and the board's drivers are glue between binary vendor libraries and registers.
  `ril_port.c` reads the shared result `local_ril_cmd_result` after it has released the mutex that guards it (718, 752); the response belongs to the library.
* The bulk of the repository by lines: two versions of lwIP, mbedTLS, the FAT file system with its code pages, C
  libraries, shells and GUI demos, which are third-party projects vendored here with their own verification, CPU ports in
  assembler, and headers of registers. They are neither written here nor configured into the core; the models
  keep to the kernel, its IPC and the one cloud client whose logic is in this repository.
