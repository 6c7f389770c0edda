-------------------------------- MODULE Msg --------------------------------
(***************************************************************************)
(* Messages between threads (core/msg.c): blocking and non-blocking send,  *)
(* request and reply, receive, the optional message queue of a receiver,   *)
(* the list of senders waiting for it, messages and replies sent by        *)
(* interrupt handlers, and a message bus (core/msg_bus.c) whose            *)
(* subscribers get a copy of what anybody posts.  The build is one without *)
(* MODULE_CORE_THREAD_FLAGS.                                               *)
(*                                                                         *)
(* A message carries its sender and its number among the messages that     *)
(* the sender got accepted by the receiver; the numbers are history, the   *)
(* kernel only copies them.                                                *)
(***************************************************************************)
EXTENDS Kernel, FiniteSets

CONSTANTS
    Isr,            \* KERNEL_PID_ISR, the sender of a handler's messages
    QueueSize,      \* number of entries of a message queue
    Queued,         \* the threads that call msg_init_queue() at some time
    Exits,          \* the threads that may terminate
    Sleepers,       \* the threads that sleep, to be woken by a handler
    Links,          \* <<s, r>>: the application sends from s to r
    Subscribers,    \* the threads that attach to the bus
    Types,          \* the message types posted on the bus
    Posters,        \* the threads, and Isr, that post on the bus
    MaxMsg          \* bound: messages of all senders

ASSUME MsgAssumption ==
    /\ Isr \notin Threads \cup {NoThread}
    /\ QueueSize \in Nat \ {0}
    /\ Queued \subseteq Threads
    /\ Exits \subseteq Threads
    /\ Sleepers \subseteq Threads
    /\ Links \subseteq (Threads \cup {Isr}) \X Threads
    /\ Subscribers \subseteq Threads
    /\ IsFiniteSet(Types)
    /\ Posters \subseteq Threads \cup {Isr}
    /\ MaxMsg \in Nat

VARIABLES
    msg_array,      \* thread_t::msg_array # NULL: the thread has a queue
    msg_queue,      \* the messages in it, oldest first
    msg_waiters,    \* the threads waiting to deliver to this thread
    wait_data,      \* the message thread_t::wait_data points to, while the
                    \* thread is inside a blocking call
    inside,         \* the blocking call a thread is inside, the thread it is
                    \* about and the number of the request
    subs,           \* msg_bus_t::subs, by the threads that own the entries
    event_mask,     \* msg_bus_entry_t::event_mask of a thread's entry, while
                    \* it is attached
    owed,           \* the requests a thread has received and not answered
    sent,           \* history: number of messages accepted from s by r
    got             \* history: number of the last message of s got by r

hvars == <<owed, sent, got>>
bvars == <<subs, event_mask>>
mvars == <<msg_array, msg_queue, msg_waiters, wait_data, inside>>
vars == <<sched, msg_array, msg_queue, msg_waiters, wait_data, inside,
          subs, event_mask, owed, sent, got>>

Senders == Threads \cup {Isr}
Msgs == [from : Senders, n : 0 .. MaxMsg, kind : {"msg", "request", "reply"}]
NoMsg == [from |-> Isr, n |-> 0, kind |-> "msg"]
Outside == [fn |-> "none", peer |-> NoThread, n |-> 0]

Init ==
    /\ sched = Booted
    /\ msg_array = [t \in Threads |-> FALSE]
    /\ msg_queue = [t \in Threads |-> << >>]
    /\ msg_waiters = [t \in Threads |-> << >>]
    /\ wait_data = [t \in Threads |-> NoMsg]
    /\ inside = [t \in Threads |-> Outside]
    /\ subs = << >>
    /\ event_mask = [t \in Threads |-> {}]
    /\ owed = [t \in Threads |-> {}]
    /\ sent = [s \in Senders |-> [r \in Threads |-> 0]]
    /\ got = [r \in Threads |-> [s \in Senders |-> 0]]

Running(t) == Executing(t) /\ inside[t] = Outside /\ t # Idle

\* thread_get_unchecked() finds a thread.
Exists(r) == sched.status[r] # "STOPPED"

\* The next message of s to r, when sn messages were accepted.
NewMsg(sn, s, r, kind) == [from |-> s, n |-> sn[s][r] + 1, kind |-> kind]
Sent == UNION {{s} \X {r} \X (1 .. sent[s][r]) : s \in Senders, r \in Threads}
MaySend(s, r) == <<s, r>> \in Links /\ Cardinality(Sent) < MaxMsg
Accepted(s, r) == sent' = [sent EXCEPT ![s][r] = @ + 1]

-----------------------------------------------------------------------------
(* Sending *)

\* queue_msg() would succeed, with the queues q; a thread without a queue has
\* one of size 0.
QueueHasRoom(q, r) == msg_array[r] /\ Len(q[r]) < QueueSize

queue_msg(r, m) == msg_queue' = [msg_queue EXCEPT ![r] = Append(@, m)]

\* The three ways in which _msg_send() by t gets rid of the message m to the
\* existing thread r, from the scheduler state s and the wait_data wd.
send_to_receiver(s, wd, t, r, m) ==
    /\ s.status[r] = "RECEIVE_BLOCKED"
    /\ wait_data' = [wd EXCEPT ![r] = m]
    /\ sched' = [sched_set_status(s, r, "PENDING") EXCEPT !.call[t] = CallYield]
    /\ UNCHANGED <<msg_queue, msg_waiters>>

send_to_queue(s, wd, t, r, m) ==
    /\ s.status[r] # "RECEIVE_BLOCKED"
    /\ QueueHasRoom(msg_queue, r)
    /\ queue_msg(r, m)
    /\ sched' = IF s.status[t] = "REPLY_BLOCKED"
                THEN [s EXCEPT !.call[t] = CallReplyYield] ELSE s
    /\ wait_data' = wd
    /\ UNCHANGED msg_waiters

send_blocks(s, wd, t, r, m) ==
    /\ s.status[r] # "RECEIVE_BLOCKED"
    /\ ~QueueHasRoom(msg_queue, r)
    /\ wait_data' = [wd EXCEPT ![t] = m]
    /\ LET st == IF s.status[t] = "REPLY_BLOCKED" THEN "REPLY_BLOCKED"
                 ELSE "SEND_BLOCKED"
           s1 == sched_set_status(s, t, st)
       IN  /\ sched' = [s1 EXCEPT !.call[t] = CallYield]
           /\ msg_waiters' = [msg_waiters EXCEPT ![r] =
                                  thread_add_to_list(s1, @, t)]
    /\ UNCHANGED msg_queue

\* msg_send() to another thread.  To a thread that does not exist it returns
\* -1 and changes nothing.
msg_send(t, r) ==
    /\ Running(t) /\ t # r
    /\ Exists(r) /\ MaySend(t, r)
    /\ LET m == NewMsg(sent, t, r, "msg")
       IN  \/ /\ \/ send_to_receiver(sched, wait_data, t, r, m)
                 \/ send_to_queue(sched, wait_data, t, r, m)
              /\ UNCHANGED inside
           \/ /\ send_blocks(sched, wait_data, t, r, m)
              /\ inside' = [inside EXCEPT ![t] =
                     [fn |-> "msg_send", peer |-> r, n |-> m.n]]
    /\ Accepted(t, r)
    /\ UNCHANGED <<msg_array, bvars, owed, got>>

\* msg_try_send() to another thread; 0 and no change where it would block.
msg_try_send(t, r) ==
    /\ Running(t) /\ t # r
    /\ Exists(r) /\ MaySend(t, r)
    /\ LET m == NewMsg(sent, t, r, "msg")
       IN  \/ send_to_receiver(sched, wait_data, t, r, m)
           \/ send_to_queue(sched, wait_data, t, r, m)
    /\ Accepted(t, r)
    /\ UNCHANGED <<msg_array, inside, bvars, owed, got>>

msg_send_to_self(t) ==
    /\ Running(t)
    /\ MaySend(t, t)
    /\ QueueHasRoom(msg_queue, t)
    /\ queue_msg(t, NewMsg(sent, t, t, "msg"))
    /\ Accepted(t, t)
    /\ UNCHANGED <<sched, msg_array, msg_waiters, wait_data, inside, bvars, owed, got>>

\* Mutant of msg_send_oneway: the message is queued whatever r does.
msg_send_oneway_queues(s, r, b) ==
    IF ~Exists(r) \/ ~QueueHasRoom(b.msg_queue, r) THEN b
    ELSE [b EXCEPT !.msg_queue[r] = Append(@, NewMsg(b.sent, s, r, "msg")),
                   !.sent[s][r] = @ + 1]

\* _msg_send_oneway() from s to r, as a step from b, the part of the state it
\* changes, to the next; the message is dropped where a send would block.
msg_send_oneway(s, r, b) ==
    IF b.sched.status[r] = "STOPPED" THEN b
    ELSE IF b.sched.status[r] = "RECEIVE_BLOCKED"
    THEN [b EXCEPT !.sched = [sched_set_status(@, r, "PENDING") EXCEPT !.request = TRUE],
                   !.wait_data[r] = NewMsg(b.sent, s, r, "msg"),
                   !.sent[s][r] = @ + 1]
    ELSE IF QueueHasRoom(b.msg_queue, r)
    THEN [b EXCEPT !.msg_queue[r] = Append(@, NewMsg(b.sent, s, r, "msg")),
                   !.sent[s][r] = @ + 1]
    ELSE b

Before == [sched |-> sched, wait_data |-> wait_data, msg_queue |-> msg_queue,
           sent |-> sent]
Becomes(b, s) ==
    /\ sched' = s
    /\ wait_data' = b.wait_data
    /\ msg_queue' = b.msg_queue
    /\ sent' = b.sent

\* msg_send_int() by a handler.
msg_send_int(r) ==
    /\ MaySend(Isr, r)
    /\ LET b == msg_send_oneway(Isr, r, Before)
       IN  b # Before /\ Becomes(b, cortexm_isr_end(b.sched))
    /\ UNCHANGED <<msg_array, msg_waiters, inside, bvars, owed, got>>

-----------------------------------------------------------------------------
(* The message bus *)

msg_bus_attach(t) ==
    /\ Running(t)
    /\ t \in Subscribers /\ \A i \in DOMAIN subs : subs[i] # t
    /\ subs' = <<t>> \o subs
    /\ event_mask' = [event_mask EXCEPT ![t] = {}]
    /\ UNCHANGED <<sched, mvars, hvars>>

\* The mask of an entry that is not attached is read by nobody.
msg_bus_detach(t) ==
    /\ Running(t)
    /\ \E i \in DOMAIN subs : subs[i] = t
    /\ subs' = list_remove(subs, t)
    /\ event_mask' = [event_mask EXCEPT ![t] = {}]
    /\ UNCHANGED <<sched, mvars, hvars>>

\* msg_bus_subscribe() and msg_bus_unsubscribe() of the caller's entry.
msg_bus_subscribe(t, type) ==
    /\ Running(t)
    /\ \E i \in DOMAIN subs : subs[i] = t
    /\ \E mask \in {event_mask[t] \cup {type}, event_mask[t] \ {type}} :
           event_mask' = [event_mask EXCEPT ![t] = mask]
    /\ UNCHANGED <<sched, mvars, subs, hvars>>

\* The loop of msg_send_bus() over the subscribers of type.
posted(s, type) ==
    LET after[i \in 0 .. Len(subs)] ==
            IF i = 0 THEN Before
            ELSE IF type \in event_mask[subs[i]]
            THEN msg_send_oneway(s, subs[i], after[i - 1]) ELSE after[i - 1]
    IN  after[Len(subs)]

\* A thread posts, with thread_yield_higher() still to call.
msg_send_bus(t, type) ==
    /\ Running(t)
    /\ t \in Posters /\ Cardinality(Sent) < MaxMsg
    /\ LET b == posted(t, type) IN b # Before /\ Becomes(b, b.sched)
    /\ inside' = [inside EXCEPT ![t] = [Outside EXCEPT !.fn = "msg_send_bus"]]
    /\ UNCHANGED <<msg_array, msg_waiters, bvars, owed, got>>

IsrPost(type) ==
    /\ Isr \in Posters /\ Cardinality(Sent) < MaxMsg
    /\ LET b == posted(Isr, type)
       IN  b # Before /\ Becomes(b, cortexm_isr_end(b.sched))
    /\ UNCHANGED <<msg_array, msg_waiters, inside, bvars, owed, got>>

\* Mutant of bus_yields: the caller goes on.
bus_yields_not(t) ==
    /\ Executing(t)
    /\ inside[t].fn = "msg_send_bus"
    /\ inside' = [inside EXCEPT ![t] = Outside]
    /\ UNCHANGED <<sched, msg_array, msg_queue, msg_waiters, wait_data, bvars, hvars>>

\* The end of msg_send_bus(), with interrupts enabled: the request may have
\* been served meanwhile, or be another one.
bus_yields(t) ==
    /\ Executing(t)
    /\ inside[t].fn = "msg_send_bus"
    /\ inside' = [inside EXCEPT ![t] = Outside]
    /\ sched' = IF sched.request THEN thread_yield_higher(sched) ELSE sched
    /\ UNCHANGED <<msg_array, msg_queue, msg_waiters, wait_data, bvars, hvars>>

-----------------------------------------------------------------------------
(* Request and reply *)

\* The reply buffer carries the request until it is received.  With a target
\* that does not exist _msg_send() returns -1 at once.
msg_send_receive(t, r) ==
    /\ Running(t) /\ t # r
    /\ MaySend(t, r)
    /\ LET s1 == sched_set_status(sched, t, "REPLY_BLOCKED")
           m  == NewMsg(sent, t, r, "request")
           wd == [wait_data EXCEPT ![t] = m]
       IN  \/ /\ Exists(r)
              /\ \/ send_to_receiver(s1, wd, t, r, m)
                 \/ send_to_queue(s1, wd, t, r, m)
                 \/ send_blocks(s1, wd, t, r, m)
              /\ inside' = [inside EXCEPT ![t] =
                     [fn |-> "msg_send_receive", peer |-> r, n |-> m.n]]
              /\ Accepted(t, r)
           \/ /\ ~Exists(r)
              /\ sched' = s1
              /\ UNCHANGED <<wait_data, msg_queue, msg_waiters, inside, sent>>
    /\ UNCHANGED <<msg_array, bvars, owed, got>>

ReplyTo(r, m) == [from |-> r, n |-> m.n, kind |-> "reply"]

\* r, or a handler on its behalf, has m.from copy the reply.
deliver_reply(r, m) ==
    /\ m \in owed[r]
    /\ sched.status[m.from] = "REPLY_BLOCKED"
    /\ wait_data' = [wait_data EXCEPT ![m.from] = ReplyTo(r, m)]
    /\ owed' = [owed EXCEPT ![r] = @ \ {m}]
    /\ UNCHANGED <<msg_array, msg_queue, msg_waiters, inside, bvars, sent, got>>

msg_reply(t, m) ==
    /\ Running(t)
    /\ deliver_reply(t, m)
    /\ sched' = [sched_set_status(sched, m.from, "PENDING")
                    EXCEPT !.call[t] = CallSwitch(sched.priority[m.from])]

msg_reply_int(r, m) ==
    /\ deliver_reply(r, m)
    /\ sched' = cortexm_isr_end([sched_set_status(sched, m.from, "PENDING")
                                    EXCEPT !.request = TRUE])

-----------------------------------------------------------------------------
(* Receiving *)

\* What the application of t sees of a message it receives.
Receives(t, m) ==
    /\ got' = [got EXCEPT ![t][m.from] = m.n]
    /\ owed' = [owed EXCEPT ![t] = IF m.kind = "request" THEN @ \cup {m} ELSE @]

\* Mutant of release_sender: the sender stays in the list.
release_sender_keeps(t) ==
    LET sender == Head(msg_waiters[t])
    IN  /\ IF sched.status[sender] # "REPLY_BLOCKED"
           THEN sched' = [sched_set_status(sched, sender, "PENDING")
                    EXCEPT !.call[t] = CallSwitch(sched.priority[sender])]
           ELSE UNCHANGED sched
        /\ UNCHANGED <<wait_data, msg_waiters>>

\* Mutant of release_sender: a sender that waits for a reply is woken too.
release_sender_wakes(t) ==
    LET sender == Head(msg_waiters[t])
    IN  /\ msg_waiters' = [msg_waiters EXCEPT ![t] = Tail(@)]
        /\ sched' = [sched_set_status(sched, sender, "PENDING")
                        EXCEPT !.call[t] = CallSwitch(sched.priority[sender])]
        /\ UNCHANGED wait_data

\* The first waiting sender's message has been copied.  A sender that waits
\* for a reply stays blocked.
release_sender(t) ==
    LET sender == Head(msg_waiters[t])
        prio   == sched.priority[sender]
    IN  /\ msg_waiters' = [msg_waiters EXCEPT ![t] = Tail(@)]
        /\ IF sched.status[sender] # "REPLY_BLOCKED"
           THEN /\ wait_data' = [wait_data EXCEPT ![sender] = NoMsg]
                /\ LET s == sched_set_status(sched, sender, "PENDING")
                   IN  sched' = IF prio < NPrio - 1
                                THEN [s EXCEPT !.call[t] = CallSwitch(prio)]
                                ELSE s
           ELSE UNCHANGED <<wait_data, sched>>

\* Mutant of receive_now: the first waiter comes before the queue.
receive_now_waiter_first(t) ==
    /\ \/ /\ msg_waiters[t] # << >>
          /\ Receives(t, wait_data[Head(msg_waiters[t])])
          /\ release_sender(t)
          /\ UNCHANGED msg_queue
       \/ /\ msg_waiters[t] = << >>
          /\ msg_queue[t] # << >>
          /\ Receives(t, Head(msg_queue[t]))
          /\ msg_queue' = [msg_queue EXCEPT ![t] = Tail(@)]
          /\ UNCHANGED <<sched, msg_waiters, wait_data>>
    /\ UNCHANGED <<msg_array, inside, bvars, sent>>

\* A message is there: in the queue, in which case the first waiter's one
\* takes its place, or else with the first waiter.  The receiver's wait_data,
\* which then points to its own buffer, is read by nobody.
receive_now(t) ==
    /\ \/ /\ msg_queue[t] # << >>
          /\ Receives(t, Head(msg_queue[t]))
          /\ IF msg_waiters[t] = << >>
             THEN /\ msg_queue' = [msg_queue EXCEPT ![t] = Tail(@)]
                  /\ UNCHANGED <<sched, msg_waiters, wait_data>>
             ELSE /\ msg_queue' = [msg_queue EXCEPT ![t] =
                         Append(Tail(@), wait_data[Head(msg_waiters[t])])]
                  /\ release_sender(t)
       \/ /\ msg_queue[t] = << >>
          /\ msg_waiters[t] # << >>
          /\ Receives(t, wait_data[Head(msg_waiters[t])])
          /\ release_sender(t)
          /\ UNCHANGED msg_queue
    /\ UNCHANGED <<msg_array, inside, bvars, sent>>

receive_blocks(t) ==
    /\ msg_queue[t] = << >>
    /\ msg_waiters[t] = << >>
    /\ wait_data' = [wait_data EXCEPT ![t] = NoMsg]
    /\ sched' = [sched_set_status(sched, t, "RECEIVE_BLOCKED")
                    EXCEPT !.call[t] = CallYield]
    /\ inside' = [inside EXCEPT ![t] =
                     [fn |-> "msg_receive", peer |-> NoThread, n |-> 0]]
    /\ UNCHANGED <<msg_array, msg_queue, msg_waiters, bvars, hvars>>

\* Somebody sends to t, so that it makes sense for t to receive.
IsReceiver(t) == t \in Subscribers \/ \E s \in Senders : <<s, t>> \in Links

msg_receive(t) ==
    /\ Running(t)
    /\ IsReceiver(t)
    /\ receive_now(t) \/ receive_blocks(t)

\* Without a message msg_try_receive() returns -1 and changes nothing.
msg_try_receive(t) == Running(t) /\ receive_now(t)

msg_init_queue(t) ==
    /\ Running(t)
    /\ t \in Queued /\ ~msg_array[t]
    /\ msg_array' = [msg_array EXCEPT ![t] = TRUE]
    /\ msg_queue' = [msg_queue EXCEPT ![t] = << >>]
    /\ UNCHANGED <<sched, msg_waiters, wait_data, inside, bvars, hvars>>

\* t comes back from the yield of a blocking call, which returns.
returns(t) ==
    /\ Executing(t)
    /\ inside[t] # Outside
    /\ inside[t].fn # "msg_send_bus"
    /\ inside' = [inside EXCEPT ![t] = Outside]
    /\ IF inside[t].fn = "msg_receive" THEN Receives(t, wait_data[t])
       ELSE UNCHANGED <<owed, got>>
    /\ wait_data' = [wait_data EXCEPT ![t] = NoMsg]
    /\ UNCHANGED <<sched, msg_array, msg_queue, msg_waiters, bvars, sent>>

-----------------------------------------------------------------------------
Kernel == KernelStep /\ UNCHANGED <<mvars, bvars, hvars>>

Exit(t) ==
    /\ t \in Exits
    /\ Running(t)
    /\ \A i \in DOMAIN subs : subs[i] # t
    /\ sched' = task_exit(sched, t)
    /\ UNCHANGED <<mvars, bvars, hvars>>

Sleep(t) == t \in Sleepers /\ Running(t) /\ Sleeps(t) /\ UNCHANGED <<mvars, bvars, hvars>>

Wakeup(t) == IsrWakes(t) /\ UNCHANGED <<mvars, bvars, hvars>>

ThreadStep(t) ==
    \/ returns(t)
    \/ Sleep(t)
    \/ msg_receive(t)
    \/ msg_try_receive(t)
    \/ msg_init_queue(t)
    \/ msg_send_to_self(t)
    \/ Exit(t)
    \/ msg_bus_attach(t)
    \/ msg_bus_detach(t)
    \/ \E type \in Types : msg_bus_subscribe(t, type) \/ msg_send_bus(t, type)
    \/ bus_yields(t)
    \/ \E r \in Threads : msg_send(t, r) \/ msg_try_send(t, r) \/ msg_send_receive(t, r)
    \/ \E m \in owed[t] : msg_reply(t, m)

Next ==
    \/ Kernel
    \/ \E t \in Threads : ThreadStep(t) \/ Wakeup(t)
    \/ \E type \in Types : IsrPost(type)
    \/ \E r \in Threads : msg_send_int(r) \/ \E m \in owed[r] : msg_reply_int(r, m)

Spec == Init /\ [][Next]_vars

-----------------------------------------------------------------------------
(* Properties *)

\* While a thread executes application code no thread of higher priority is
\* runnable, although msg_send_bus() reads the request for a switch only
\* after it has enabled interrupts.
HighestPriorityRuns ==
    \A t \in Threads : Running(t) =>
        \A p \in sched.bitcache : sched.priority[t] <= p

\* No wakeup is lost: a thread blocked in msg_receive() has neither a
\* message in its queue nor a sender waiting for it.
ReceiverWaitsForNothing ==
    \A t \in Threads : sched.status[t] = "RECEIVE_BLOCKED" =>
        msg_queue[t] = << >> /\ msg_waiters[t] = << >>

\* A thread links itself into one list at a time: it is in the waiter list
\* of r, once, only while it is blocked in a send to r, always so while it is
\* SEND_BLOCKED, and then in no other thread's list.
WaiterListsExact ==
    \A t, r \in Threads :
        LET at == {i \in DOMAIN msg_waiters[r] : msg_waiters[r][i] = t}
        IN  /\ \A i, j \in at : i = j
            /\ at # {} => /\ sched.status[t] \in {"SEND_BLOCKED", "REPLY_BLOCKED"}
                          /\ inside[t].peer = r
            /\ sched.status[t] = "SEND_BLOCKED" /\ inside[t].peer = r => at # {}

\* What a receiver gets from one sender it gets exactly once and in the order
\* in which the sends were accepted, whether a message went straight to the
\* receiver, through its queue or through the list of waiting senders.
InOrderOnce ==
    [][\A r \in Threads, s \in Senders :
         got'[r][s] # got[r][s] => got'[r][s] = got[r][s] + 1]_vars

\* msg_send_receive() to a thread that exists ends only when the peer has
\* answered, with the answer to its own request in the buffer, whatever else
\* was sent to the thread meanwhile.
ReplyAnswersRequest ==
    \A t \in Threads :
        inside[t].fn = "msg_send_receive" /\ (on_runqueue(sched, t) \/ Executing(t)) =>
            wait_data[t] = [from |-> inside[t].peer, n |-> inside[t].n,
                            kind |-> "reply"]
=============================================================================
