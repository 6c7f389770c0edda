------------------------------- MODULE Mutex -------------------------------
(***************************************************************************)
(* Mutexes (core/mutex.c, core/include/mutex.h): blocking, non-blocking    *)
(* and cancelable lock, unlock, unlock-and-sleep and cancellation, called  *)
(* by threads, and unlock and cancellation called by interrupt handlers.   *)
(* With PriorityInheritance the module core_mutex_priority_inheritance is  *)
(* compiled in.                                                            *)
(***************************************************************************)
EXTENDS Kernel

CONSTANTS
    Mutexes,
    NoMutex,
    MUTEX_LOCKED,           \* the queue of a locked mutex without waiters
    PriorityInheritance,    \* MODULE_CORE_MUTEX_PRIORITY_INHERITANCE
    Uses,                   \* <<t, m>> when thread t locks mutex m
    Cancels,                \* the threads that use mutex_lock_cancelable()
    Signals,                \* the mutexes handlers unlock to signal a thread
    Exits                   \* threads terminate

ASSUME MutexAssumption ==
    /\ MUTEX_LOCKED \notin Seq(Threads)
    /\ NoMutex \notin Mutexes
    /\ PriorityInheritance \in BOOLEAN
    /\ Uses \subseteq Threads \X Mutexes
    /\ Cancels \subseteq Threads
    /\ Signals \subseteq Mutexes
    /\ Exits \in BOOLEAN

VARIABLES
    queue,      \* mutex_t::queue: << >> is NULL, else MUTEX_LOCKED or waiters
    owner,      \* mutex_t::owner, with priority inheritance
    owner_original_priority,
    mc,         \* the mutex_cancel_t a thread has initialised
    blocked,    \* the mutex whose _block() a thread is inside, with the
                \* function that called it
    held,       \* history: <<t, m>> when a lock call of t on m succeeded
    holder,     \* history: the thread that took m or that m was handed to
    before      \* history: the threads that wait for the mutex t waits for
                \* and began to wait before t did

pivars == <<owner, owner_original_priority>>
hvars == <<held, holder, before>>
vars == <<sched, queue, owner, owner_original_priority, mc, blocked,
          held, holder, before>>

NULL == << >>
NotBlocked == [mutex |-> NoMutex, fn |-> "none"]
NoCancel == [mutex |-> NoMutex, cancelled |-> FALSE]

Init ==
    /\ sched = Booted
    /\ queue = [m \in Mutexes |-> NULL]
    /\ owner = [m \in Mutexes |-> NoThread]
    /\ owner_original_priority = [m \in Mutexes |-> 0]
    /\ mc = [t \in Threads |-> NoCancel]
    /\ blocked = [t \in Threads |-> NotBlocked]
    /\ held = {}
    /\ holder = [m \in Mutexes |-> NoThread]
    /\ before = [t \in Threads |-> {}]

\* t runs application code: it is not inside a lock call.
Running(t) == Executing(t) /\ blocked[t] = NotBlocked /\ t # Idle

\* A thread locks a mutex it holds only to wait for a handler to unlock it,
\* and does not use a mutex for which it has a mutex_cancel_t but through it.
MayLock(t, m) == <<t, m>> \in Uses /\ (m \in Signals \/ <<t, m>> \notin held)

HasWaiters(m) == queue[m] # NULL /\ queue[m] # MUTEX_LOCKED

Waiters(m) == {t \in Threads : HasWaiters(m)
                               /\ \E i \in DOMAIN queue[m] : queue[m][i] = t}

\* thread_get() finds the thread that mutex_t::owner names.
HasOwner(m) ==
    /\ PriorityInheritance
    /\ owner[m] # NoThread
    /\ sched.status[owner[m]] # "STOPPED"

\* The history when u stops waiting.
Leaves(u) == [t \in Threads |-> IF t = u THEN {} ELSE before[t] \ {u}]

-----------------------------------------------------------------------------
(* Locking *)

\* The mutex was unlocked and is taken at once.
acquire(t, m) ==
    /\ queue[m] = NULL
    /\ queue' = [queue EXCEPT ![m] = MUTEX_LOCKED]
    /\ IF PriorityInheritance
       THEN /\ owner' = [owner EXCEPT ![m] = t]
            /\ owner_original_priority' =
                   [owner_original_priority EXCEPT ![m] = sched.priority[t]]
       ELSE UNCHANGED pivars
    /\ held' = held \cup {<<t, m>>}
    /\ holder' = [holder EXCEPT ![m] = t]
    /\ UNCHANGED <<sched, blocked, before>>

\* _block(): t enters the queue, lends the owner its priority, and yields.
block(t, m, fn) ==
    /\ queue[m] # NULL
    /\ LET s1 == sched_set_status(sched, t, "MUTEX_BLOCKED")
           s2 == IF HasOwner(m) /\ s1.priority[owner[m]] > s1.priority[t]
                 THEN sched_change_priority(s1, owner[m], s1.priority[t])
                 ELSE s1
       IN  /\ queue' = [queue EXCEPT ![m] =
                            IF @ = MUTEX_LOCKED THEN <<t>>
                            ELSE thread_add_to_list(s1, @, t)]
           /\ sched' = [s2 EXCEPT !.call[t] = CallYield]
    /\ blocked' = [blocked EXCEPT ![t] = [mutex |-> m, fn |-> fn]]
    /\ before' = [before EXCEPT ![t] = Waiters(m)]
    /\ UNCHANGED <<pivars, held, holder>>

mutex_lock(t, m) ==
    /\ Running(t)
    /\ MayLock(t, m)
    /\ mc[t].mutex # m
    /\ acquire(t, m) \/ block(t, m, "mutex_lock")
    /\ UNCHANGED mc

\* When the mutex is locked mutex_trylock() changes nothing.
mutex_trylock(t, m) ==
    /\ Running(t)
    /\ <<t, m>> \in Uses
    /\ mc[t].mutex # m
    /\ acquire(t, m)
    /\ UNCHANGED mc

mutex_cancel_init(t, m) ==
    /\ t \in Cancels /\ <<t, m>> \in Uses
    /\ Running(t)
    /\ mc[t] = NoCancel
    /\ mc' = [mc EXCEPT ![t] = [mutex |-> m, cancelled |-> FALSE]]
    /\ UNCHANGED <<sched, queue, pivars, blocked, hvars>>

\* A call that is over leaves mc[t] behind, which may not be used again.
mutex_lock_cancelable(t) ==
    /\ Running(t)
    /\ mc[t] # NoCancel
    /\ MayLock(t, mc[t].mutex)
    /\ \/ /\ mc[t].cancelled
          /\ mc' = [mc EXCEPT ![t] = NoCancel]
          /\ UNCHANGED <<sched, queue, pivars, blocked, hvars>>
       \/ /\ ~mc[t].cancelled
          /\ acquire(t, mc[t].mutex)
          /\ mc' = [mc EXCEPT ![t] = NoCancel]
       \/ /\ ~mc[t].cancelled
          /\ block(t, mc[t].mutex, "mutex_lock_cancelable")
          /\ UNCHANGED mc

\* t comes back from the yield in _block(), and its lock call returns: with
\* the mutex, unless the call was mutex_lock_cancelable() and was cancelled.
lock_returns(t) ==
    /\ Executing(t)
    /\ blocked[t] # NotBlocked
    /\ IF blocked[t].fn = "mutex_lock_cancelable"
       THEN /\ held' = IF mc[t].cancelled THEN held
                       ELSE held \cup {<<t, blocked[t].mutex>>}
            /\ mc' = [mc EXCEPT ![t] = NoCancel]
       ELSE /\ held' = held \cup {<<t, blocked[t].mutex>>}
            /\ UNCHANGED mc
    /\ blocked' = [blocked EXCEPT ![t] = NotBlocked]
    /\ UNCHANGED <<sched, queue, pivars, holder, before>>

-----------------------------------------------------------------------------
(* Unlocking *)

\* Mutant of dequeue: the queue of the last waiter becomes NULL.
dequeue_to_null(m) == Tail(queue[m])

\* list_remove_head(): the queue of m without its first waiter.
dequeue(m) == IF Tail(queue[m]) = NULL THEN MUTEX_LOCKED ELSE Tail(queue[m])

\* The owner gets its own priority back.
restore_priority(s, m) ==
    IF HasOwner(m) /\ s.priority[owner[m]] # owner_original_priority[m]
    THEN sched_change_priority(s, owner[m], owner_original_priority[m])
    ELSE s

\* Mutant of hand_over: the waiter is not woken.
hand_over_asleep(s, m) == restore_priority(s, m)

\* The critical section of mutex_unlock() when a thread waits for m.
hand_over(s, m) ==
    restore_priority(sched_set_status(s, Head(queue[m]), "PENDING"), m)

\* m's queue and the history after an unlock; the scheduler is the caller's.
unlock_queue(m) ==
    IF HasWaiters(m)
    THEN /\ queue' = [queue EXCEPT ![m] = dequeue(m)]
         /\ holder' = [holder EXCEPT ![m] = Head(queue[m])]
         /\ before' = Leaves(Head(queue[m]))
    ELSE /\ queue' = [queue EXCEPT ![m] = NULL]
         /\ holder' = [holder EXCEPT ![m] = NoThread]
         /\ UNCHANGED before

\* mutex_unlock() by a thread, whoever holds the mutex.
unlock_section(t, m) ==
    /\ unlock_queue(m)
    /\ sched' = IF HasWaiters(m)
                THEN [hand_over(sched, m) EXCEPT
                        !.call[t] = CallSwitch(sched.priority[Head(queue[m])])]
                ELSE sched
    /\ held' = {h \in held : h[2] # m}
    /\ UNCHANGED <<pivars, mc, blocked>>

mutex_unlock(t, m) ==
    /\ Running(t)
    /\ <<t, m>> \in held
    /\ unlock_section(t, m)

\* Priority inheritance is not undone on this path.
mutex_unlock_and_sleep(t, m) ==
    /\ Running(t)
    /\ <<t, m>> \in held
    /\ unlock_queue(m)
    /\ LET s == IF HasWaiters(m)
                THEN sched_set_status(sched, Head(queue[m]), "PENDING")
                ELSE sched
       IN  sched' = [sched_set_status(s, t, "SLEEPING")
                        EXCEPT !.call[t] = CallYield]
    /\ held' = held \ {<<t, m>>}
    /\ UNCHANGED <<pivars, mc, blocked>>

\* A handler unlocks m, whoever holds it.
IsrUnlock(m) ==
    /\ m \in Signals
    /\ queue[m] # NULL
    /\ unlock_queue(m)
    /\ IF HasWaiters(m)
       THEN IsrEnds(hand_over(sched, m), sched.priority[Head(queue[m])])
       ELSE UNCHANGED sched
    /\ held' = {h \in held : h[2] # m}
    /\ UNCHANGED <<pivars, mc, blocked>>

-----------------------------------------------------------------------------
(* Cancellation *)

\* mutex_cancel() finds thread u in the queue of its mutex.
CancelDequeues(u) ==
    ~on_runqueue(sched, u) /\ u \in Waiters(mc[u].mutex)

\* Mutant of cancel: without waiters left the queue becomes NULL.
cancel_to_null(u) ==
    LET m == mc[u].mutex
    IN  /\ mc[u] # NoCancel
        /\ mc' = [mc EXCEPT ![u].cancelled = TRUE]
        /\ IF CancelDequeues(u)
           THEN /\ queue' = [queue EXCEPT ![m] = list_remove(@, u)]
                /\ before' = Leaves(u)
           ELSE UNCHANGED <<queue, before>>
        /\ UNCHANGED <<pivars, blocked, held, holder>>

cancel(u) ==
    LET m == mc[u].mutex
        rest == list_remove(queue[m], u)
    IN  /\ mc[u] # NoCancel
        /\ mc' = [mc EXCEPT ![u].cancelled = TRUE]
        /\ IF CancelDequeues(u)
           THEN /\ queue' = [queue EXCEPT ![m] =
                                IF rest = NULL THEN MUTEX_LOCKED ELSE rest]
                /\ before' = Leaves(u)
           ELSE UNCHANGED <<queue, before>>
        /\ UNCHANGED <<pivars, blocked, held, holder>>

mutex_cancel(t, u) ==
    /\ Running(t)
    /\ cancel(u)
    /\ sched' = IF CancelDequeues(u)
                THEN [sched_set_status(sched, u, "PENDING")
                        EXCEPT !.call[t] = CallSwitchTo(u)]
                ELSE sched

IsrCancel(u) ==
    /\ cancel(u)
    /\ IF CancelDequeues(u)
       THEN IsrEnds(sched_set_status(sched, u, "PENDING"), sched.priority[u])
       ELSE UNCHANGED sched

-----------------------------------------------------------------------------
Kernel ==
    KernelStep /\ UNCHANGED <<queue, pivars, mc, blocked, hvars>>

Exit(t) ==
    /\ Exits
    /\ Running(t)
    /\ mc[t] = NoCancel
    /\ \A m \in Mutexes : <<t, m>> \notin held
    /\ sched' = task_exit(sched, t)
    /\ UNCHANGED <<queue, pivars, mc, blocked, hvars>>

\* thread_sleep() and thread_yield(), by a holder of mutexes too.
Sleep(t) ==
    Running(t) /\ Sleeps(t) /\ UNCHANGED <<queue, pivars, mc, blocked, hvars>>

Yield(t) ==
    /\ Running(t)
    /\ sched' = yield_section(sched, t)
    /\ UNCHANGED <<queue, pivars, mc, blocked, hvars>>

Wakeup(u) ==
    IsrWakes(u) /\ UNCHANGED <<queue, pivars, mc, blocked, hvars>>

ThreadStep(t) ==
    \/ lock_returns(t)
    \/ Exit(t)
    \/ Sleep(t)
    \/ Yield(t)
    \/ mutex_lock_cancelable(t)
    \/ \E m \in Mutexes :
          \/ mutex_lock(t, m)
          \/ mutex_trylock(t, m)
          \/ mutex_cancel_init(t, m)
          \/ mutex_unlock(t, m)
          \/ mutex_unlock_and_sleep(t, m)
    \/ \E u \in Threads : mutex_cancel(t, u)

Next ==
    \/ Kernel
    \/ \E t \in Threads : ThreadStep(t) \/ Wakeup(t) \/ IsrCancel(t)
    \/ \E m \in Mutexes : IsrUnlock(m)

Spec == Init /\ [][Next]_vars

\* The threads of the highest priority.
Highest == {t \in Threads : \A u \in Threads : Priority[t] <= Priority[u]}

\* The CPU goes on, and so does a thread that has it, and handlers give the
\* signals threads wait for.  The threads below the highest priority are woken
\* when they sleep; if they run again and again they unlock what they have
\* locked and yield to the others of their priority.
FairSpec ==
    /\ Spec
    /\ WF_vars(Kernel \/ \E t \in Threads : ThreadStep(t))
    /\ \A m \in Signals : WF_vars(IsrUnlock(m))
    /\ \A t \in Threads \ Highest :
          /\ WF_vars(Wakeup(t))
          /\ SF_vars(Yield(t))
          /\ \A m \in Mutexes \ Signals :
                SF_vars(mutex_unlock(t, m) \/ mutex_unlock_and_sleep(t, m))

-----------------------------------------------------------------------------
(* Properties *)

\* The status tells whether a thread is on its run queue, through every
\* path that blocks, hands over and cancels.
StatusMatchesRunqueue == RunqueueExact(sched)

\* At most one thread has been told that it holds the mutex, and the mutex
\* has been handed to no other, unless handlers unlock it as a signal.
MutualExclusion ==
    \A m \in Mutexes \ Signals : \A t \in Threads : <<t, m>> \in held => holder[m] = t

\* A mutex is NULL exactly while nobody holds it; a thread is in the queue
\* of a mutex, once, exactly while it is blocked in a lock call on it.
QueueExact ==
    \A m \in Mutexes :
        /\ queue[m] = NULL <=> holder[m] = NoThread
        /\ \A t \in Threads : t \in Waiters(m) <=>
               sched.status[t] = "MUTEX_BLOCKED" /\ blocked[t].mutex = m
        /\ HasWaiters(m) => \A i, j \in DOMAIN queue[m] :
               queue[m][i] = queue[m][j] => i = j

\* A mutex is handed to a waiter of the highest priority, and among those to
\* the one that has waited longest: thread_add_to_list() keeps the queue
\* sorted and stable, and cancellation leaves it so.
NoOvertaking ==
    [][\A m \in Mutexes : \A u \in Waiters(m) \ Waiters(m)' : mc'[u] = mc[u] =>
         \A w \in Waiters(m) \ {u} :
            \/ sched.priority[w] > sched.priority[u]
            \/ sched.priority[w] = sched.priority[u] /\ w \notin before[u]]_vars

\* A thread to which a mutex was handed has been told so, or will be when it
\* next runs: a lock call that returns -ECANCELED has not locked the mutex.
HolderKnows ==
    \A m \in Mutexes : holder[m] # NoThread =>
        \/ <<holder[m], m>> \in held
        \/ blocked[holder[m]].mutex = m /\ holder[m] \notin Waiters(m)

\* Priority inheritance: the thread that holds a mutex has at least the
\* priority of every thread that waits for it.
NoPriorityInversion ==
    \A m \in Mutexes : \A w \in Waiters(m) :
        sched.priority[holder[m]] <= sched.priority[w]

\* No handler reads through a NULL sched_active_thread when it unlocks.
NoNullActiveThread == ~sched.fault

\* A thread of the highest priority that waits for a mutex gets it, whoever
\* holds it when it begins to wait and however the holder sleeps, yields and
\* is preempted meanwhile, provided no lock call that was cancelled too late
\* has left the mutex locked for ever (see HolderKnows).
LockReturns ==
    \A t \in Highest :
        blocked[t] # NotBlocked ~> (blocked[t] = NotBlocked \/ ~HolderKnows)
=============================================================================
