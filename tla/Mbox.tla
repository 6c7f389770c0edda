-------------------------------- MODULE Mbox --------------------------------
(***************************************************************************)
(* Mailboxes (core/mbox.c): a bounded queue of messages with a list of     *)
(* waiting readers and a list of waiting writers.  Handlers may put and    *)
(* get without blocking.                                                   *)
(*                                                                         *)
(* A message is the number it has among those the mailbox accepted; the    *)
(* code only copies it.  The queue is an array indexed by a circular       *)
(* integer buffer (module Cib).                                            *)
(***************************************************************************)
EXTENDS Kernel, Cib, FiniteSets

CONSTANTS
    Size,           \* number of entries of the message queue
    Earlier,        \* messages that went through the queue before
    Readers,        \* the threads that get
    Writers,        \* the threads that put
    BlockingPuts,   \* threads use mbox_put(), not only mbox_try_put()
    Handlers,       \* handlers put and get
    MaxMsg          \* bound: messages put

ASSUME MboxAssumption ==
    /\ IsFiniteSet(Threads)
    /\ Size \in {2 ^ k : k \in 0 .. Width - 2}
    /\ Earlier \in Nat
    /\ Readers \subseteq Threads
    /\ Writers \subseteq Threads
    /\ BlockingPuts \in BOOLEAN
    /\ Handlers \in BOOLEAN
    /\ MaxMsg \in Nat

VARIABLES
    readers,        \* mbox_t::readers, threads waiting for a message
    writers,        \* mbox_t::writers, threads waiting for room
    cib,            \* mbox_t::cib
    msg_array,      \* mbox_t::msg_array
    wait_data,      \* the message buffer of a thread in mbox_get()
    inside,         \* the function whose _wait() a thread is inside
    sent,           \* history: number of messages accepted
    got             \* history: the messages received

mvars == <<readers, writers, cib, msg_array, wait_data, inside, sent, got>>
vars == <<sched, readers, writers, cib, msg_array, wait_data, inside, sent, got>>

Msgs == 0 .. MaxMsg
NoMsg == 0

Init ==
    /\ sched = Booted
    /\ readers = << >>
    /\ writers = << >>
    /\ cib = [cib_init(Size) EXCEPT !.read_count = Earlier % UINT,
                                    !.write_count = Earlier % UINT]
    /\ msg_array = [i \in 0 .. Size - 1 |-> NoMsg]
    /\ wait_data = [t \in Threads |-> NoMsg]
    /\ inside = [t \in Threads |-> "none"]
    /\ sent = 0
    /\ got = {}

Running(t) == Executing(t) /\ inside[t] = "none" /\ t # Idle

queue == <<cib, msg_array>>

\* The messages in the queue, oldest first.
msgs == Content(cib, msg_array)

MayPut == sent + Cardinality({t \in Threads : inside[t] = "mbox_put"}) < MaxMsg
NewMsg == sent + 1
Accepted == sent' = NewMsg
Receives(m) == got' = got \cup {m}

\* _wait(): t joins list and calls thread_yield().
wait(t, list) ==
    LET s == sched_set_status(sched, t, "MBOX_BLOCKED")
    IN  /\ list' = thread_add_to_list(s, list, t)
        /\ sched' = [s EXCEPT !.call[t] = CallThreadYield]

\* _wake_waiter() called by the thread t.
wake_waiter(t, u) ==
    sched' = [sched_set_status(sched, u, "PENDING")
                 EXCEPT !.call[t] = CallSwitch(sched.priority[u])]

\* _wake_waiter() called by a handler.
isr_wake_waiter(u) ==
    IsrEnds(sched_set_status(sched, u, "PENDING"), sched.priority[u])

-----------------------------------------------------------------------------
(* Putting *)

\* Mutant of hand_to_reader: the message is not copied.
hand_to_reader_nothing ==
    /\ readers # << >>
    /\ readers' = Tail(readers)
    /\ Accepted
    /\ UNCHANGED <<wait_data, writers, queue, inside, got>>

\* A reader waits and gets the message.
hand_to_reader ==
    /\ readers # << >>
    /\ readers' = Tail(readers)
    /\ wait_data' = [wait_data EXCEPT ![Head(readers)] = NewMsg]
    /\ Accepted
    /\ UNCHANGED <<writers, queue, inside, got>>

\* The message goes into the queue.
enqueue ==
    /\ ~cib_full(cib)
    /\ msg_array' = [msg_array EXCEPT ![PutIndex(cib)] = NewMsg]
    /\ cib' = cib_put_unsafe(cib)
    /\ Accepted
    /\ UNCHANGED <<sched, readers, writers, wait_data, got>>

\* mbox_try_put(); 0 and no change when nobody waits and the queue is full.
mbox_try_put(t) ==
    /\ Running(t)
    /\ t \in Writers /\ MayPut
    /\ \/ hand_to_reader /\ wake_waiter(t, Head(readers))
       \/ readers = << >> /\ enqueue /\ UNCHANGED inside

mbox_put(t) ==
    /\ BlockingPuts
    /\ Running(t)
    /\ t \in Writers /\ MayPut
    /\ \/ hand_to_reader /\ wake_waiter(t, Head(readers))
       \/ readers = << >> /\ enqueue /\ UNCHANGED inside
       \/ /\ readers = << >>
          /\ cib_full(cib)
          /\ wait(t, writers)
          /\ inside' = [inside EXCEPT ![t] = "mbox_put"]
          /\ UNCHANGED <<readers, queue, wait_data, sent, got>>

\* t comes back from _wait() into the loop of _mbox_put(), which looks at
\* the queue and not at the readers.
put_resumes(t) ==
    /\ Executing(t)
    /\ inside[t] = "mbox_put"
    /\ \/ /\ enqueue
          /\ inside' = [inside EXCEPT ![t] = "none"]
       \/ /\ cib_full(cib)
          /\ wait(t, writers)
          /\ UNCHANGED <<readers, queue, wait_data, inside, sent, got>>

IsrPut ==
    /\ Handlers
    /\ MayPut
    /\ \/ hand_to_reader /\ isr_wake_waiter(Head(readers))
       \/ readers = << >> /\ enqueue /\ UNCHANGED inside

-----------------------------------------------------------------------------
(* Getting *)

\* Mutant of dequeue: the writer that is woken stays in the list.
dequeue_keeps_writer ==
    /\ cib_avail(cib) # 0
    /\ Receives(msg_array[GetIndex(cib)])
    /\ cib' = cib_get_unsafe(cib)
    /\ UNCHANGED <<readers, writers, msg_array, wait_data, inside, sent>>

\* The oldest message leaves the queue, and the first writer its list.
dequeue ==
    /\ cib_avail(cib) # 0
    /\ Receives(msg_array[GetIndex(cib)])
    /\ cib' = cib_get_unsafe(cib)
    /\ writers' = IF writers = << >> THEN << >> ELSE Tail(writers)
    /\ UNCHANGED <<readers, msg_array, wait_data, inside, sent>>

\* Mutant of mbox_try_get: no writer is woken.
mbox_try_get_alone(t) ==
    /\ Running(t)
    /\ t \in Readers
    /\ cib_avail(cib) # 0
    /\ Receives(msg_array[GetIndex(cib)])
    /\ cib' = cib_get_unsafe(cib)
    /\ UNCHANGED <<sched, readers, writers, msg_array, wait_data, inside, sent>>

\* Without a message mbox_try_get() returns 0 and changes nothing.
mbox_try_get(t) ==
    /\ Running(t)
    /\ t \in Readers
    /\ dequeue
    /\ IF writers = << >> THEN UNCHANGED sched ELSE wake_waiter(t, Head(writers))

mbox_get(t) ==
    /\ Running(t)
    /\ t \in Readers
    /\ \/ /\ dequeue
          /\ IF writers = << >> THEN UNCHANGED sched
             ELSE wake_waiter(t, Head(writers))
       \/ /\ cib_avail(cib) = 0
          /\ wait(t, readers)
          /\ wait_data' = [wait_data EXCEPT ![t] = NoMsg]
          /\ inside' = [inside EXCEPT ![t] = "mbox_get"]
          /\ UNCHANGED <<writers, queue, sent, got>>

\* A handler calls mbox_try_get().
IsrGet ==
    /\ Handlers
    /\ dequeue
    /\ IF writers = << >> THEN UNCHANGED sched ELSE isr_wake_waiter(Head(writers))

\* t comes back from _wait(), and mbox_get() returns with the message that
\* the writer copied.
get_returns(t) ==
    /\ Executing(t)
    /\ inside[t] = "mbox_get"
    /\ inside' = [inside EXCEPT ![t] = "none"]
    /\ Receives(wait_data[t])
    /\ wait_data' = [wait_data EXCEPT ![t] = NoMsg]
    /\ UNCHANGED <<sched, readers, writers, queue, sent>>

-----------------------------------------------------------------------------
Kernel == KernelStep /\ UNCHANGED mvars
Sleep(t) == Running(t) /\ Sleeps(t) /\ UNCHANGED mvars
Wakeup(t) == IsrWakes(t) /\ UNCHANGED mvars

ThreadStep(t) ==
    \/ mbox_try_put(t)
    \/ mbox_put(t)
    \/ put_resumes(t)
    \/ mbox_try_get(t)
    \/ mbox_get(t)
    \/ get_returns(t)
    \/ Sleep(t)

Next ==
    \/ Kernel
    \/ \E t \in Threads : ThreadStep(t) \/ Wakeup(t)
    \/ IsrPut
    \/ IsrGet

Spec == Init /\ [][Next]_vars

-----------------------------------------------------------------------------
(* Properties *)

\* A thread is MBOX_BLOCKED exactly while it is, once, in the list of the
\* function it waits in.
ListsExact ==
    \A t \in Threads :
        LET r == {i \in DOMAIN readers : readers[i] = t}
            w == {i \in DOMAIN writers : writers[i] = t}
            blocked == sched.status[t] = "MBOX_BLOCKED"
        IN  /\ \A i, j \in r : i = j
            /\ \A i, j \in w : i = j
            /\ r # {} <=> blocked /\ inside[t] = "mbox_get"
            /\ w # {} <=> blocked /\ inside[t] = "mbox_put"

\* A writer waits only while the free slots of the queue are all claimed by
\* writers that have been woken and have not yet run: _mbox_get() wakes one
\* writer for each slot it frees, and others may take the slot first.
WriterWaitsForRoom ==
    writers # << >> =>
        Len(msgs) + Cardinality({t \in Threads : inside[t] = "mbox_put"
                                                 /\ on_runqueue(sched, t)}) >= Size

\* Every message the mailbox accepted is in exactly one place: received, in
\* the queue, or in the buffer of a reader that has been woken.
NothingLost ==
    LET handed == {t \in Threads : inside[t] = "mbox_get" /\ on_runqueue(sched, t)}
        places == got \cup {msgs[i] : i \in DOMAIN msgs}
                      \cup {wait_data[t] : t \in handed}
    IN  /\ places = 1 .. sent
        /\ Cardinality(got) + Len(msgs) + Cardinality(handed) = sent

\* The queue is a bounded first-in first-out queue, across the wrap-around of
\* the counters and the signed comparison of cib_full().
Abstract == INSTANCE Fifo WITH q <- msgs, Values <- Msgs
ImplementsFifo == Abstract!Spec

\* No thread is blocked in mbox_get() while the queue holds a message.
ReaderWaitsForNothing == readers # << >> => msgs = << >>
=============================================================================
