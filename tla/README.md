# A verification of RIOT in TLA+

This directory models the kernel of RIOT (`src/core/`), the scheduler, the
threads and the primitives that threads and interrupt handlers synchronise
with, and four of the system modules built on it: the timer multiplexer, the
semaphore, the event queues and the GNRC TCP stack. The models are checked with
TLC on small instances. What the scheduler, the threads and the mutex promise is
also proved with TLAPS, for every number of threads, priorities, pid slots and
mutexes. `PROJECT.json` lists the runs, the lines of source each definition
stands for, the hazards of the code, and the theorems.

## 1. The system

### 1.1 Its parts

RIOT runs on one core. Threads have fixed stacks and a priority (0 is the
highest); the scheduler is preemptive and tickless. Kernel functions disable
interrupts around what they do to shared state, and most of them then call
`thread_yield_higher()` or `sched_switch()` with interrupts enabled again. So
the unit of interleaving is the critical section, and handlers come in between.

| Part | State | Hard behaviour | What makes it correct |
|---|---|---|---|
| Scheduler `core/sched.c` | run queue per priority, bit cache, active thread, switch request | `_runqueue_pop()` removes the head, whoever it is; requests of handlers; waiting without an idle thread | status and run queue agree; the highest priority runs |
| CPU `cpu/cortexm_common` | PendSV pending | the switch comes later than the call | a request is never forgotten |
| Threads `core/thread.c`, `core/lib/init.c` | pid table, thread count, pid, status | reuse of stacks and pids; creation without yield | the table holds exactly the living threads; the dead stay dead |
| Mutex `core/mutex.c` | queue (`NULL`, `MUTEX_LOCKED`, or waiters), owner and original priority, cancel structures | hand-over to a waiter; cancellation racing hand-over; unlock by handlers; raised priorities | exclusion; exact queue; order of hand-over |
| Recursive mutex `core/lib/rmutex.c` | owner, count, mutex | the owner is read without the mutex; lock with a timeout | exclusion; the read is sound |
| Condition variable `core/cond.c` | wait queue | unlock and block in one call | no lost signal |
| Messages `core/msg.c`, `core/msg_bus.c` | queue and list of blocked senders of each thread, message buffers, subscriber lists | three paths to a receiver; requests and replies; termination; one post for many receivers | once and in order; no receiver waits beside a message; replies match |
| Mailbox `core/mbox.c` over `cib.h` | two counters, array, readers, writers | two wait lists; woken writers retry; counters wrap around | nothing lost; nobody waits in vain; a FIFO queue |
| Thread flags `core/thread_flags.c` | flag word of each thread | test and clear in separate critical sections | no flag missed; a wait returns what it waited for |
| Event queues `sys/event` | linked queues, owner | push and flag, pop and unlink are separate steps; timeouts | every post is handled; no wakeup lost |
| Timers `sys/ztimer` | delta list, checkpoint, alarm, users | wrap-around, late alarms, callbacks that set timers, clocks that stop | no timer fires early or is lost |
| Semaphore `sys/sema` | value, state, mutex | value and mutex change in separate steps; timeouts racing posts | no post lost; destroy releases all |
| TCP `sys/net/gnrc/.../tcp` | TCB, retransmission queue, receive buffer, timers, mailboxes of blocked calls | loss, duplication, delay, timeouts, sequence numbers that wrap | a stream in order, ended once |
| The rest of `sys/`, drivers, boards, packages | | | section 6 |

### 1.2 How they interact

Every blocking primitive changes the status of threads with
`sched_set_status()`, keeps its own list of waiting threads (linked through the
one `rq_entry` of `thread_t`, so a thread is in at most one list), and asks for
a switch. Handlers use the same functions; `sched_switch()` then only sets
`sched_context_switch_request`, which the end of the handler looks at. Condition
variables, recursive mutexes and semaphores are built on the mutex, mailboxes on
the circular buffer, event queues on thread flags, the blocking calls of TCP on
mailboxes, and every timeout on a timer whose callback cancels, unlocks or sets
a flag from a handler.

### 1.3 What is hard to test

The list with source lines is in PROJECT.json ("hazards"). In short: a handler
between a critical section and the switch that follows it; a list operation
that is right only if its caller holds the head; a cancellation or a timeout
that comes after the hand-over; a woken thread that finds the world changed; a
thread that terminates while others refer to it; two steps of one function
(push and set a flag, pop and unlink, change a value and unlock) with another
context in between; counters and clocks that wrap around; a segment that comes
late, twice or never.

## 2. The models

### 2.1 Modules

| Module | Models | Extends |
|---|---|---|
| `Sched` | `core/sched.c`, PendSV, `thread_add_to_list()`, `list_remove()` | |
| `Thread` | `core/thread.c`, `sched_task_exit()`, `kernel_init()` | `Sched` |
| `Kernel` | a booted system with a fixed set of threads | `Sched` |
| `Mutex` | `core/mutex.c` | `Kernel` |
| `Cond` | `core/cond.c`, with producers and consumers as clients | `Mutex` |
| `RMutex` | `core/lib/rmutex.c`, `ztimer_rmutex_lock_timeout()` | `Mutex` |
| `Sema` | `sys/sema/sema.c`, `ztimer_mutex_lock_timeout()` | `Mutex` |
| `Msg` | `core/msg.c`, `core/msg_bus.c` | `Kernel` |
| `Mbox` | `core/mbox.c` | `Kernel`, and the operators of `Cib` |
| `Cib` | `core/lib/include/cib.h` | |
| `Fifo` | abstract: a bounded first-in first-out queue | |
| `ThreadFlags` | `core/thread_flags.c` | `Kernel` |
| `Event` | `sys/event/event.c`, `ztimer_set_timeout_flag()` | `ThreadFlags` |
| `ZTimer` | `sys/ztimer/core.c` over `sys/ztimer/periph_timer.c` | |
| `Tcp` | `sys/net/gnrc/transport_layer/tcp/` | |
| `SchedProof` | lemmas on the operators of `Sched` | `Sched` |
| `ThreadProof` | theorems on `Thread` | `Thread`, `SchedProof` |
| `MutexProof` | theorems on `Mutex` | `Mutex`, `SchedProof` |
| `RMutexProof` | theorems on `RMutex` | `RMutex`, `MutexProof` |
| `CondProof` | theorems on `Cond` | `Cond`, `MutexProof` |
| `SemaProof` | theorems on `Sema` | `Sema`, `MutexProof` |
| `EventProof` | theorems on `ThreadFlags` and `Event` | `Event`, `SchedProof` |
| `MboxProof` | theorems on `Cib` and `Mbox` | `Mbox`, `SchedProof` |
| `MCThread`, `MCMutex`, ... | constants for TLC | |

### 2.2 How state and actions correspond to the code

*The scheduler state is one record*, `sched`, with a field for each global of
`sched.c` and for each field of `thread_t` the scheduler reads. A kernel function
is an operator from such a record to the next, named as in C
(`sched_set_status(s, t, st)`), so that an action is the composition the code
makes inside one critical section. `runqueue_pop` removes the head of the queue
of the thread's priority, as the code does, not the thread.

*One action is one critical section*, with all it calls. What a thread does
after `irq_restore()` is a separate step: `sched.call[t]` records the call it
still has to make (`thread_yield_higher()`, `sched_switch()` with a priority read
before or after, `thread_yield()`), and `SchedCall(t)` makes it. Handlers may run
in between. When a function goes on after having been blocked or after an
`irq_restore()` in its middle, a variable (`blocked`, `inside`, `at`, `phase`, `wait`)
says which statement the thread comes to next, and the continuation is an action
of its own, enabled once the thread has the CPU again.

*The CPU* is Cortex-M. `thread_yield_higher()` pends PendSV; `PendSV` runs
`sched_run()` when no handler is active. A handler is one atomic step, since it
is entered with the scheduler state of the interrupted thread and nested
handlers only repeat such steps. `Executing(t)` says that `t` has the CPU, no
PendSV is pending, and `t` has no call left: only then does it begin a new
operation. Without an idle thread (`Idle = NoThread`) `sched_run()` waits in its
own loop, with interrupts open (`sched.idle`).

*A read through a NULL `sched_active_thread`*, possible for a handler that comes
between `sched_task_exit()` and the next `sched_run()`, sets `sched.fault` and
makes the outcome of the comparison arbitrary.

*Timers.* `ZTimer` has the counter (`lower`), the clock with its delta list,
checkpoint and alarm, and the handler as a loop whose callbacks may set and
remove timers. The counter advances between any two steps, and the alarm goes
off when it meets the value armed. In `Sema`, `RMutex` and `Event` the timer of a call
with a timeout is one bit, "set", and may expire at any step while it is set:
this is what `TimerFires` and `NeverEarly` of `ZTimer` leave open to its user.

*TCP.* A call of the FSM holds `fsm_lock` and is one action: the event is applied
to the TCB by the operators of `gnrc_tcp_fsm.c`, and the packets built during the
call are appended to the network. The event loop finds the TCB of a packet under
the lock of the list and calls the FSM after it, and it makes two calls to reopen
a listening TCB; these are two steps each, between which the user may close the
TCB or put it back to LISTEN. An API call is a loop that tests, calls the
FSM and waits for a notification, each a step. A packet is its flags, numbers,
window and bytes; the network is a sequence for each direction, from which a
packet may be lost, moved to the end or doubled. Numbers are modulo `SeqMod`, and
the comparisons `LSS_32_BIT` and its relatives are signed differences of that width.

*Data is abstract.* A message is its sender, a number and a kind; the flag word
is a set of bits; lists are sequences; a byte is its connection and position.
`Cib`, `ZTimer` and `RMutex` keep counters at their width and wrap them around.

*History variables* (marked so where they are declared) are read by properties
and by guards that stand for the contract of the caller (a thread unlocks what
it locked) or for a bound, never by the modelled code itself.

### 2.3 Composition and refinement

`Cond`, `RMutex` and `Sema` run on the mutex of `Mutex`, `Event` on the flags of
`ThreadFlags`, all of them on `Sched`: a lost signal or event may be the fault of
any layer, and the mutants of these runs break several. `Mbox` indexes its array
by the operators of `Cib`, and `ImplementsFifo` is the refinement: under the mapping
`q <- msgs`, the entries between the two counters read from the array, every step
of the mailbox is a step of `Fifo` or leaves the queue alone.

## 3. The runs

Each run is `tlc -config <cfg> <module>`. All runs but `ztimer` say
`CHECK_DEADLOCK FALSE`: a system in which every thread waits or has terminated
really stops, while a clock never does.

| Run | Instance | What it shows |
|---|---|---|
| `thread` | 3 stacks, 3 priorities, 2 pid slots, no idle thread | status and run queue agree; no runnable thread of higher priority waits, unless it was created with `THREAD_CREATE_WOUT_YIELD`; the pid table is exact; nothing revives a zombie or a terminated thread; the idle loop ends |
| `mutex` | 3 threads of 2 priorities that sleep, yield and exit; a lock, used by one thread with cancelable calls; a second mutex that handlers unlock | exclusion, exact queues, hand-over by priority and then by time; the lock call of the highest-priority thread returns |
| `mutex_boost` | priority inheritance, 2 mutexes | expected violation, section 5 |
| `msg` | a receiver with a queue of 1 that also sends to itself and may terminate; a sender of its priority that sleeps, receives without a queue and is sent to by handlers; a sender of lower priority; a bus to which a thread and handlers post; 3 messages | once and in order; waiter lists exact; a request ends with its own answer; no receiver waits beside a message; the yield of a post on the bus is not missed |
| `mbox` | 2 entries, 3-bit counters near their end, 2 readers, 2 writers (one thread is both), handlers, 6 messages | every accepted message is received once; lists exact; no writer waits beside a free slot; the queue implements `Fifo` |
| `mbox_reader` | 1 entry, 1 reader, 2 writers | expected violation, section 5 |
| `cond` | 3 threads, signals and broadcasts by threads and handlers | exact queue; no lost signal |
| `rmutex` | 3 threads, a nesting counter of 2 bits, one thread with timeouts | exclusion, the assertions of `rmutex_unlock()`, soundness of the unlocked read; lock calls of the highest-priority thread return |
| `event` | 2 queues, 2 events, owner above one other thread, handlers, a timeout | flag waits block only while unmet and return what they waited for; no event and no wakeup is lost; waits that can end do end, with a timeout or without |
| `ztimer` | 2 timers, a 2-bit counter extended to 3 bits, on demand, alarm late by up to a tick, start adjustment | no timer fires early; list and checkpoints lose no tick; the clock runs exactly while used; every timer fires or is removed |
| `sema` | 3 threads, 2 of them with timeouts, handlers that post, destroy | a post is not lost beside a waiter; a destroyed semaphore releases its waiters one by one |
| `tcp` | a client and a listening server, 3 bytes, segments of up to 2, window 2, 16 sequence numbers, 2 faults | the receiver reads a prefix of what was sent; the end of the stream is not announced early; no notification is lost; what is unacknowledged is queued for retransmission |

Every property has a mutant in PROJECT.json: a plausible slip in one operator
(a bit that stays set, a test made once instead of in a loop, a list searched
from the wrong end) after which TLC finds the property violated.

### 3.1 Bounds

* Three threads of two priorities are the smallest system with a preempting
  thread and two threads that share a run queue or a wait list; the order within
  a priority and the head-of-queue question need both. `thread` uses three
  priorities so that a thread may move up and down past another.
* Two pid slots for three stacks: the table fills up and slots are reused.
* In `mutex` the threads sleep and yield inside their critical sections; without
  that two threads of one priority never wait for the mutex together. The second
  mutex is used by one thread only (`Uses`), which is enough for handlers to unlock
  with and without a waiter.
* In `msg` a queue with one entry is full after one message, so that direct
  delivery, queueing and blocking all happen within three messages (`MaxMsg`, a
  guard of the send actions). `Links` says who sends to whom: the receiver with the
  queue has both other threads as senders, so that two of them block at it, and
  handlers send to a receiver without a queue and, by the bus, to both receivers.
* The counters of `mbox` start at 6 of 8 (`Earlier`), so that six messages carry
  them past the wrap-around at every fill level.
* `rmutex` nests to the last value of its counter (`MaxNest = Refcounts - 1`); nesting
  deeper wraps it, which the code does not check (section 5).
* `ztimer`: intervals 1 and 3 lie below and beyond the half period at which the
  extended counter must be read; `MaxDelay` bounds how late a handler is, since no
  extension works when interrupts are off for half a period. Of the full-width
  clock and of longer intervals, see section 5.
* `sema`: values 0 and 2 (`UINT_MAX`) with three threads: a post may find no waiter,
  one, or more waiters than posts, and the value may overflow.
* `tcp`: with segments and a window of two the first segment fills the window, the
  third byte finds it closed, half open or open, the initial
  numbers 6 and 14 make send and acknowledge numbers cross both the signed and
  the unsigned wrap, and two faults (`MaxFaults`: losses, duplications, delays,
  timeouts and aborts together) reach a retransmission whose answer is lost as
  well. Timers fire only while fewer than `MaxInFlight` packets are under way and
  none is in the hands of an event loop, and the network doubles a packet only
  when it is alone, which keeps the network from filling with copies; a copy that
  is late all the same is a fault.
* No symmetry is used: threads differ in priority or in queue position.

### 3.2 Fairness

Weak fairness of `Kernel` says that a pending exception is taken and that code
that has the CPU goes on; the hardware guarantees it. `HighestGetsCpu` needs no
more. `LockReturns` and `RLockReturns` also assume that a thread with the CPU takes
its next step and that sleeping threads are woken, by a handler where a mutex is
a signal. They need strong fairness in two places, since a thread below the
highest priority has the CPU only now and then: such a thread that keeps running
unlocks what it has locked, as one that keeps a mutex for ever defeats any mutex;
and it yields or sleeps, on which the others of its priority depend
(`core/include/thread.h:30`). `SatisfiedWaitReturns` and `TimedWaitReturns` need only
that a thread inside a function goes on. `TimerFires` assumes that the counter
runs, that a pending interrupt is taken, and that a thread inside
`ztimer_acquire()` goes on. Nothing else is assumed about handlers, nor about
when an application thread calls the kernel. Only the highest priority is
promised progress: the scheduler starves lower ones by design.

## 4. The proofs

`tlapm` checks the eight modules named `...Proof`. The theorems hold for every set
of threads (a finite one for `Mbox`, whose proof counts them), every `NPrio > 0`,
every pid table of at least two slots, every set of mutexes, events, queues and
flags, every mailbox size and counter width, with or without an idle thread. They
rest on the assumptions on constants that are named in the modules
(`SchedAssumption`, `ThreadAssumption`, `KernelAssumption`, `MutexAssumption`,
`RMutexAssumption`, `CondAssumption`: the condition variable is used with one mutex,
in calls that are not cancelled, `SemaAssumption`: handlers may unlock the mutex of the
semaphore, `ThreadFlagsAssumption`, `EventAssumption`, `MboxAssumption`,
`PowersOfTwo`: the size of a `cib` divides the range of its counters). Some have a
hypothesis, which cannot be dropped (section 5): `~ChangeOthers`, threads change
their own priority only, for those on `Thread`; `~PriorityInheritance` for those on
`Mutex`, `RMutex`, `Cond` and `Sema`; `OwnerIsHighest` for `LinksTell`.

| Theorem | Module | States |
|---|---|---|
| `TypeCorrect` | `ThreadProof` | `Spec => []TypeOK`; `sched_num_threads` stays within the table |
| `RunqueuesExact` | `ThreadProof` | `Spec => []StatusMatchesRunqueue` |
| `RunningHead` | `ThreadProof` | `Spec => []RunningIsHead` |
| `TableExact` | `ThreadProof` | `Spec => []ThreadTableExact` |
| `HighestRuns` | `ThreadProof` | `Spec => []HighestPriorityRuns` |
| `TerminatedStays` | `ThreadProof` | `Spec => TerminatedStaysDown`, an action property |
| `Exclusion` | `MutexProof` | `Spec => []MutualExclusion` |
| `QueuesExact` | `MutexProof` | `Spec => []QueueExact` |
| `RunqueuesAgree` | `MutexProof` | `Spec => []StatusMatchesRunqueue` |
| `HandedInOrder` | `MutexProof` | `Spec => NoOvertaking`, an action property |
| `RExclusion` | `RMutexProof` | `RSpec => []OneInside` |
| `AssertionsHold` | `RMutexProof` | `RSpec => []UnlockAssertions` |
| `OwnerReads` | `RMutexProof` | `RSpec => []OwnerReadIsSound` |
| `CondQueue` | `CondProof` | `CondSpec => []CondQueueExact` |
| `SignalsKept` | `CondProof` | `CondSpec => []NoLostSignal` |
| `PostsKept` | `SemaProof` | `SemaSpec => []NoLostPost` |
| `DestroyReleases` | `SemaProof` | `SemaSpec => []DestroyPassedOn` |
| `FlagsSeen` | `EventProof` | `EventSpec => []BlockedIsUnmet` |
| `WaitsReturn` | `EventProof` | `EventSpec => ReturnsWhatItWaitedFor`, an action property |
| `EventsKept` | `EventProof` | `EventSpec => []NoLostEvent` |
| `WakeupsKept` | `EventProof` | `EventSpec => []NoLostWakeup` |
| `LinksTell` | `EventProof` | `EventSpec => []LinksExact` |
| `MboxLists` | `MboxProof` | `Spec => []ListsExact` |
| `WritersAreWoken` | `MboxProof` | `Spec => []WriterWaitsForRoom` |
| `MessagesKept` | `MboxProof` | `Spec => []NothingLost` |
| `MboxRefinesFifo` | `MboxProof` | `Spec => ImplementsFifo`, the refinement of `Fifo` |
| `InductiveInvariant`, `Inductive`, `RInductive`, `CondInductive`, `SemaInductive`, `EventInductive`, `MboxInductive` | | the inductive invariants, from which the others follow |

**The scheduler.** `SchedProof` says of each operator of `Sched` what it does to a
state with exact run queues, in terms of `Occurs` and `NoDup` for queues, `IsHead(s, t)`,
and frames (`SameButQueues`, `SameQueues`, `Quiet`). The key lemma is `PopHead`:
`_runqueue_pop()` keeps the queues exact *if the thread is the head*. `NextThread`
and `RunNext` close the circle: the thread `sched_run()` chooses is one. `AddToList`
and `RemoveFromList` say that `thread_add_to_list()` and `list_remove()` add and
remove just one thread. The invariant of the scheduler is `SchedInv`, which has three parts that
exactness alone does not give: `HeadRuns` (the thread with the CPU that is not on
its way to `thread_yield_higher()` is RUNNING and the head of its queue, so that
blocking it pops it), `ThreadCalls` (which calls a thread may have left, so that
the case distinction of `HeadRuns` is complete), and `IdleRunnable` (the idle thread
never leaves its run queue, so that `sched_run()` finds a thread).

**Threads.** The inductive invariant is

    IInv == TypeOK /\ SchedInv(sched) /\ ThreadTableExact

with one lemma for each action, which combines a lemma on the scheduler with one
of three on the table (`TableKept`, `TableEnter`, `TableLeave`); the latter count the
slots with the cardinality theorems of the library.

**Priorities.** `HighestPriorityRuns` speaks of a thread that executes application
code, and is not inductive: a thread that has woken another one has still to
call `sched_switch()`, and a handler may come first. `ThreadProof` adds

    PInv == ~noyield => NoneHigher(sched)

where `NoneHigher` follows the thread on the CPU through the call it has left: a
runnable thread is either not above it, or is at most as high as the priority
the pending `sched_switch()` compares with, or the call is a yield. The lemma
`IsrGivesWay` is the heart: a handler's `sched_switch()` compares with the
interrupted thread, and what it does not pend for is not above that thread.

**Mutexes.** Here the inductive invariant is

    IInv == MutexTypes /\ SchedInv(sched) /\ QueueExact /\ MutualExclusion
            /\ HandedOver /\ Cancelable

`HandedOver` is needed because a waiter is told that it owns the mutex only when
it runs again: a thread that is out of the queue but still inside `_block()` was
handed the mutex, or was cancelled in a call that will notice. `Cancelable` excludes
that `mutex_cancel()` takes a thread out of a call that does not notice. The queue
of a mutex is treated apart from the state (`Exact(q, h, B)`), so that the lemmas on
`_block()`, unlock and cancel are about one queue.

The order of the hand-over, `NoOvertaking`, is about the positions in a queue and
needs more:

    OInv == IInv /\ InLine /\ SeenBefore /\ WaitsUncancelled

`InLine`: a queue is sorted by priority, and among equals by who blocked first, which
the history variable `before` remembers (`SeenBefore`). The lemmas `AddToListAt` and
`RemoveFromListAt` of `SchedProof` say where each thread stands afterwards.

**Recursive mutexes.** `rmutex.c` stores the owner and the count in steps of their own,
after `mutex_lock()` and before `mutex_unlock()`, so the invariant `RInv` says of each
statement a thread can be at whether the thread holds the mutex and whether owner and
count already or still speak of it (`Place`), on top of the `IInv` of `Mutex`.

**Condition variables.** `CInv` adds to the `IInv` of `Mutex` that a thread is in the queue
of the condition variable, once, exactly while it is blocked there, that it then holds no
mutex and waits in no other queue (`InCondQueue`, `Place`), and `NoLostSignal` itself. The
loop of `_cond_signal()` changes the scheduler state once for each waiter: `Rounds` gives
the states after each round, and the least round that breaks the scheduler's invariant
is refuted (`LeastMember`), which takes the place of an induction.

**Semaphores.** The mutex of a semaphore is a signal: it is unlocked by whoever changes
the value, and a thread that comes out of `mutex_lock()` may pass it on. `SInv` says of each
statement of the wait functions which lock call the thread is in (`Place`), and who keeps
the promise to those still blocked: while the value is positive and the queue is not
empty, a thread `Carries` the unlock, as it is about to make it or is about to test the
value and then to make it (`Posted`); the same for a destroyed semaphore (`PassesOn`,
`Destroyed`). The case that needs it is a timeout: a thread whose wait is cancelled after it
was handed the mutex still carries the wakeup, and passes it on.

**Thread flags and events.** `EventInv` has `WaitOk`: from the moment a thread is inside a
wait function until it clears the flags, it is blocked or its flags are set, since
nobody else clears them. No event is lost because of `LinkedIsKept`: an event whose
link is set, which `event_post()` takes for queued, is in a queue or is the one the owner
has taken and will unlink. `Announced` closes the window between the owner's look at the
queues and its wait: an event that comes in between has set the owner's flag, or a
thread is about to. `OwnerIsHighest` says that the owner of the queues has a priority
above every other thread's, so that nobody posts between `clist_lpop()` and the reset of
the link.

**Mailboxes.** The inductive invariant is

    MInv == SchedInv(sched) /\ MTypes /\ Lists /\ InWait /\ Numbered /\ Room
            /\ Placed(...) /\ Apart(...)

`CibOk` (in `MTypes`) says that the distance of the two counters, taken modulo their
range, is at most the size; since the size is a power of two, a counter that wraps around
keeps its place in the array (`ModShift`, `PutContent`, `GetContent`). `Room` counts the
writers that were woken and have not yet run as owners of a slot. `Placed` and `Apart`
say that every accepted message is in exactly one of three places: received, in the
queue, in the buffer of a reader it was handed to. The refinement of `Fifo` follows: a
step appends to the content of the buffer, takes its first entry, or leaves it alone.

Only model-checked: the properties of `Msg`, `ZTimer` and `Tcp`, and all
liveness properties, since liveness under fairness is outside what the prover handles.
That the delta list of `ZTimer` adds up to the targets and what the fold over the
subscribers in `msg_send_bus()` computes need induction over a list, which is outside as
well.

## 5. Findings and known limits

Two runs check what the headers promise and show that the code does not keep it:

* `mutex_boost`: with priority inheritance `_block()` raises the priority of the
  owner (`core/mutex.c:86`). The owner is usually pending, and
  `sched_change_priority()` pops the head of its run queue, which may be another
  thread. That thread is then runnable by its status but on no run queue.
* `mbox_reader`: a writer woken in `_mbox_put()` puts its message into the queue
  without looking at readers that blocked meanwhile (`core/mbox.c:77`). A reader
  left waiting like that also lets a later message overtake the queued one.

The following were met while modelling, and were reproduced with TLC by changing
a constant or a property. The runs avoid them or state their properties up to
them, as said with each; the theorems have them as hypotheses where needed.

Kernel:

* `ChangeOthers = TRUE` in `MCThread.cfg`: `StatusMatchesRunqueue` fails, for the
  reason of `mutex_boost` (`core/sched.c:346`).
* `HolderKnows` in `MCMutex.cfg`: a cancellation that comes after the hand-over makes
  `mutex_lock_cancelable()` return `-ECANCELED` although the mutex is locked for the
  caller (`core/mutex.c:183`); `core/include/mutex.h:331` says that it then is not.
  The calls with a timeout inherit this. `LockReturns` is stated up to this case.
* `NoNullActiveThread` in `MCMutex.cfg`: a handler that unlocks between
  `sched_task_exit()` and the next `sched_run()` reads the status of a NULL thread
  (`core/sched.c:284`).
* `PriorityInheritance = TRUE`, one mutex: `NoPriorityInversion` fails, as
  the hand-over does not record the new owner (`core/mutex.c:213`).
* `msg_send_receive()` blocks the caller before it finds that the target is gone;
  it returns -1 and the caller runs on as `REPLY_BLOCKED` (`core/msg.c:281`).
* `cib_full()` compares as signed `int`, so a buffer of half the counter's range is
  never full (`core/lib/include/cib.h:102`).
* `mbox_size()` of a mailbox with one entry is 0 (`core/include/mbox.h:171`).
* The nesting counter of the recursive mutex is not checked against overflow
  (`core/lib/rmutex.c:113`).

Event queues and timers:

* The flag of an event that is no longer there (cancelled, taken by an earlier
  call, or in another queue of the thread) and the flag of the timeout, set
  together, are taken together; `event_wait_timeout()` then finds no event and waits
  again without a timer (`sys/event/event.c:125`), although it is to return "NULL if
  timeout expired before an event was posted" (`sys/include/event.h:405`). The first
  part of `TimedWaitReturns` fails in this case, and only in this one: it excepts the
  state in which a wait of the call has returned the flag of the timeout, the call
  is in its wait again, and neither the timer nor the flag is set
  (`TimeoutForgotten`). The second part has no exception: an event posted to the
  queue ends the call, even one that has forgotten its timeout.
* `event_get()` clears the link of the event after it has enabled interrupts
  (`sys/event/event.c:81`). A thread of higher priority than the owner, or a handler
  that cancels, could cancel and post the event in between; the run has neither.
* A clock of full width (`MaxValue = UINT - 1`): when the head of the list is set
  again and another timer becomes head, the alarm is not armed anew, and that
  timer may fire early (`sys/ztimer/core.c:196`). Intervals of half the range or
  more on an extended clock are negative differences and fire at the next
  intermediate interrupt (`sys/ztimer/core.c:449`). `MCZTimer.cfg` has neither.
* The update of the clock at the end of `ztimer_acquire()` runs with interrupts
  enabled (`sys/ztimer/core.c:82`) and may undo an alarm armed meanwhile. The model
  has this step.

TCP (`sys/net/gnrc/transport_layer/tcp/`). These are steps the model takes, and
the four properties hold beside them:

* `gnrc_tcp_accept()` tests the TCBs before it registers its mailbox; a connection
  established in between notifies nobody (`gnrc_tcp.c:566`). `NoLostNotify` is about
  the other calls.
* A listening TCB goes back to LISTEN and never reaches CLOSED, so that send and
  receive on it never report a reset; a connection timeout that was already in
  the message queue throws an established connection back (`gnrc_tcp_eventloop.c:335`),
  and what was in the receive buffer stays there for the next one
  (`gnrc_tcp_fsm.c:167`). `StreamInOrder` tells connections apart.
* `gnrc_tcp_send()` returns the number of bytes also when the connection was reset
  before they were acknowledged (`gnrc_tcp.c:709`).
* A repeated SYN in SYN_RCVD is answered with RST, and the client's open fails
  (`gnrc_tcp_eventloop.c:258`); an RST in SYN_RCVD leaves the retransmission queue
  filled (`gnrc_tcp_fsm.c:671`).
* Closing in SYN_RCVD does not queue the FIN behind the unacknowledged SYN+ACK.
* A FIN is accepted whatever its sequence number (`gnrc_tcp_fsm.c:807`), and SYN_SENT
  compares numbers unsigned (`gnrc_tcp_fsm.c:592`).

## 6. What is not modelled

* Of the modelled files: statistics and debug fields, the stack check, printing,
  stack measurement; the variant of `msg.c` that also sets thread flags;
  `mbox_unset()`; the run queue callback of round robin.
* CPUs whose `thread_yield_higher()` switches at once even with interrupts
  disabled (AVR). `cond_wait()` unlocks the mutex before it joins its queue
  (`core/cond.c:40`), so on such a CPU the two are not one step.
* Registers, stacks and memory protection; more than one core.
* The links of lists: `clist` and `list` are sequences, so that a node that is in two
  lists at once cannot be seen. `QueueExact`, `ListsExact` and `CondQueueExact` say that
  it does not happen to threads.
* Round-robin scheduling: it composes `Sched` with `ZTimer`, whose state spaces
  multiply beyond what TLC explores in minutes; its one hazard is in the list.
* Of the timers: backends other than `periph_timer.c`, the converters of frequency
  and width, `ztimer64`, `xtimer`, `evtimer`, periodic and message timers.
* Of TCP: several TCBs and ports (and with them the search of LISTEN for another TCB
  that handles the SYN, `gnrc_tcp_fsm.c:516`, which finds none), options,
  checksums, the estimation of the retransmission timeout, exhausted buffers; accept's unlocked update of the
  status word (`gnrc_tcp.c:568`); data from the server to the client in the run,
  which the model allows (`ServerSends`) at the price of a larger state space.
* The POSIX layer (read-write lock, barrier, join), pipes, memory pools: they
  combine what is modelled here, and are the next candidates.
* The rest of the network stack (packet buffer, IPv6, 6LoWPAN, RPL), CoAP, MQTT-SN
  and the other applications, file systems, USB, CAN, firmware update: systems of
  their own, not needed by the modules here.
* Cryptography, hashes, checksums, formatting, the shell: functions on bytes.
* Drivers, boards, other CPUs, packages: hardware access and third-party code, by
  far the most of the repository's lines.
