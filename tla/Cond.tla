-------------------------------- MODULE Cond --------------------------------
(***************************************************************************)
(* A condition variable (core/cond.c) and the mutex that goes with it, in  *)
(* a system whose threads use them the way core/include/cond.h tells them  *)
(* to:                                                                     *)
(*                                                                         *)
(*    consumer: mutex_lock(); while (!ready) cond_wait(); ready = false;   *)
(*    producer: mutex_lock(); ready = true; cond_signal(); mutex_unlock()  *)
(*                                                                         *)
(* cond_wait() calls mutex_unlock() with interrupts disabled: the switch   *)
(* that mutex_unlock() asks for waits until they are enabled again.        *)
(***************************************************************************)
EXTENDS Mutex

\* One mutex goes with the condition variable, and nobody locks it cancelably.
ASSUME CondAssumption ==
    /\ \A m, n \in Mutexes : m = n
    /\ Cancels = {}

VARIABLES
    cond_queue, \* cond_t::queue
    phase,      \* where a thread is in the loop around cond_wait(): waiting
                \* until mutex_lock(), testing until it has tested ready
    ready,      \* the condition, which the mutex protects
    announce    \* the threads that made it true and have not yet signalled

cvars == <<cond_queue, phase, ready, announce>>
allvars == <<sched, queue, owner, owner_original_priority, mc, blocked,
             held, holder, before, cond_queue, phase, ready, announce>>

CondInit ==
    /\ Init
    /\ cond_queue = << >>
    /\ phase = [t \in Threads |-> "none"]
    /\ ready = FALSE
    /\ announce = {}

Phase(t, p) == phase' = [phase EXCEPT ![t] = p]

\* t tests the condition with the mutex m locked.
Tests(t, m) ==
    /\ Running(t)
    /\ <<t, m>> \in held
    /\ phase[t] \in {"none", "testing"}
    /\ t \notin announce

-----------------------------------------------------------------------------
\* One critical section: mutex_unlock(), with the switch it may ask for, and
\* the way into the queue.
cond_wait(t, m) ==
    /\ Tests(t, m)
    /\ ~ready
    /\ unlock_queue(m)
    /\ held' = held \ {<<t, m>>}
    /\ LET unlocked == IF HasWaiters(m)
                       THEN sched_switch(hand_over(sched, m),
                                         sched.priority[Head(queue[m])])
                       ELSE sched
           blocks == sched_set_status(unlocked, t, "COND_BLOCKED")
       IN  /\ cond_queue' = thread_add_to_list(blocks, cond_queue, t)
           /\ sched' = [blocks EXCEPT !.call[t] = CallYield]
    /\ Phase(t, "waiting")
    /\ UNCHANGED <<pivars, mc, blocked, ready, announce>>

\* t has been signalled and calls mutex_lock().
cond_wait_relocks(t, m) ==
    /\ Executing(t)
    /\ phase[t] = "waiting"
    /\ acquire(t, m) \/ block(t, m, "mutex_lock")
    /\ Phase(t, "testing")
    /\ UNCHANGED <<mc, cond_queue, ready, announce>>

\* The threads that _cond_signal() wakes.
Signalled(broadcast) ==
    IF broadcast \/ cond_queue = << >> THEN cond_queue ELSE <<Head(cond_queue)>>

\* Its loop: the woken threads are pushed in the order of the queue.
wake_each(s, woken) ==
    LET after[i \in 0 .. Len(woken)] ==
            IF i = 0 THEN s
            ELSE sched_set_status(after[i - 1], woken[i], "PENDING")
    IN  after[Len(woken)]

\* _cond_signal() without its trailing sched_switch().
cond_signal_section(broadcast) == wake_each(sched, Signalled(broadcast))

\* Its min_prio, when it wakes somebody.
MinPrio(broadcast) ==
    LET woken == Signalled(broadcast)
        prios == {sched.priority[woken[i]] : i \in DOMAIN woken}
    IN  CHOOSE p \in prios : \A q \in prios : p <= q

\* Mutant of dequeued: the queue is emptied, one thread is woken.
dequeued_all(broadcast) == << >>

dequeued(broadcast) ==
    SubSeq(cond_queue, Len(Signalled(broadcast)) + 1, Len(cond_queue))

\* Mutant of cond_signal: a thread of lower priority is not woken.
cond_signal_higher(t, broadcast) ==
    /\ Running(t)
    /\ t \in announce
    /\ IF cond_queue # << >> /\ MinPrio(broadcast) <= sched.priority[t]
       THEN /\ sched' = cond_signal_section(broadcast)
            /\ cond_queue' = dequeued(broadcast)
       ELSE UNCHANGED <<sched, cond_queue>>
    /\ announce' = announce \ {t}
    /\ UNCHANGED <<queue, pivars, mc, blocked, hvars, phase, ready>>

\* cond_signal() or cond_broadcast() by a thread that made ready true.
cond_signal(t, broadcast) ==
    /\ Running(t)
    /\ t \in announce
    /\ sched' = IF cond_queue = << >> THEN sched
                ELSE [cond_signal_section(broadcast)
                        EXCEPT !.call[t] = CallSwitch(MinPrio(broadcast))]
    /\ cond_queue' = dequeued(broadcast)
    /\ announce' = announce \ {t}
    /\ UNCHANGED <<queue, pivars, mc, blocked, hvars, phase, ready>>

\* A handler signals; the condition need not be true.
IsrSignal(broadcast) ==
    /\ cond_queue # << >>
    /\ IsrEnds(cond_signal_section(broadcast), MinPrio(broadcast))
    /\ cond_queue' = dequeued(broadcast)
    /\ UNCHANGED <<queue, pivars, mc, blocked, hvars, phase, ready, announce>>

-----------------------------------------------------------------------------
(* The application *)

produce(t, m) ==
    /\ Tests(t, m)
    /\ phase[t] = "none"
    /\ ~ready
    /\ ready' = TRUE
    /\ announce' = announce \cup {t}
    /\ UNCHANGED <<sched, queue, pivars, mc, blocked, hvars, cond_queue, phase>>

consume(t, m) ==
    /\ Tests(t, m)
    /\ ready
    /\ ready' = FALSE
    /\ Phase(t, "none")
    /\ UNCHANGED <<sched, queue, pivars, mc, blocked, hvars, cond_queue, announce>>

\* The mutex operations of a thread that is not inside the loop, and the
\* return of the mutex_lock() of one that is.
MutexStep(t) ==
    /\ \/ phase[t] = "none" /\ ThreadStep(t)
       \/ phase[t] = "testing" /\ lock_returns(t)
    /\ UNCHANGED cvars

CondNext ==
    \/ Kernel /\ UNCHANGED cvars
    \/ \E t \in Threads :
          \/ MutexStep(t)
          \/ \E b \in BOOLEAN : cond_signal(t, b)
          \/ \E m \in Mutexes : \/ cond_wait(t, m)
                                \/ cond_wait_relocks(t, m)
                                \/ produce(t, m)
                                \/ consume(t, m)
    \/ \E t \in Threads : Wakeup(t) /\ UNCHANGED cvars
    \/ \E b \in BOOLEAN : IsrSignal(b)

CondSpec == CondInit /\ [][CondNext]_allvars

-----------------------------------------------------------------------------
(* Properties *)

\* A thread is COND_BLOCKED exactly while it is in the queue of the condition
\* variable, once, and such a thread is in no mutex's queue and holds no mutex.
CondQueueExact ==
    \A t \in Threads :
        LET at == {i \in DOMAIN cond_queue : cond_queue[i] = t}
        IN  /\ \A i, j \in at : i = j
            /\ at # {} <=> sched.status[t] = "COND_BLOCKED"
            /\ at # {} => /\ \A m \in Mutexes : t \notin Waiters(m)
                          /\ \A m \in Mutexes : <<t, m>> \notin held

\* No signal is lost: while the condition is true and a thread waits for it,
\* a producer is about to signal or a thread that was woken is about to test.
NoLostSignal ==
    ready /\ cond_queue # << >> =>
        \/ announce # {}
        \/ \E u \in Threads : /\ phase[u] \in {"waiting", "testing"}
                              /\ sched.status[u] # "COND_BLOCKED"

=============================================================================
