-------------------------------- MODULE Sema --------------------------------
(***************************************************************************)
(* A counting semaphore (sys/sema/sema.c): a value that is changed with    *)
(* interrupts disabled, and a mutex the waiting threads queue up at.  The  *)
(* two are updated one after the other, with interrupts enabled between,   *)
(* and a wait with a timeout goes through ztimer_mutex_lock_timeout()      *)
(* (sys/ztimer/util.c), whose timer cancels the lock from its handler.     *)
(***************************************************************************)
EXTENDS Mutex

CONSTANTS
    M,          \* sema_t::mutex
    UINT_MAX,   \* the greatest value of an unsigned
    Values,     \* the values semaphores are created with
    Timed       \* the threads that wait with a timeout

ASSUME SemaAssumption ==
    /\ M \in Signals
    /\ UINT_MAX \in Nat
    /\ Values \subseteq 0 .. UINT_MAX
    /\ Timed \subseteq Threads

VARIABLES
    value,      \* sema_t::value
    state,      \* sema_t::state, "none" before the first sema_create()
    wait        \* where a thread is in a function of the semaphore, its local
                \* variables block and did_block, and whether its timer is set

svars == <<value, state, wait>>
mutexvars == <<sched, queue, owner, owner_original_priority, mc, blocked,
               held, holder, before>>
allvars == <<sched, queue, owner, owner_original_priority, mc, blocked,
             held, holder, before, value, state, wait>>

Outside == [at |-> "none", block |-> FALSE, did_block |-> FALSE, timer |-> FALSE]

SemaInit ==
    /\ Init
    /\ value = 0
    /\ state = "none"
    /\ wait = [t \in Threads |-> Outside]

At(t, l) == Running(t) /\ wait[t].at = l

Goto(t, l) == wait' = [wait EXCEPT ![t].at = l]

Returns(t) == wait' = [wait EXCEPT ![t] = Outside]

-----------------------------------------------------------------------------
\* A semaphore is created anew only when nobody uses it.
sema_create(t, v) ==
    /\ At(t, "none")
    /\ state # "SEMA_OK"
    /\ \A u \in Threads : wait[u] = Outside
    /\ value' = v
    /\ state' = "SEMA_OK"
    /\ queue' = [queue EXCEPT ![M] = IF v = 0 THEN MUTEX_LOCKED ELSE NULL]
    /\ holder' = [holder EXCEPT ![M] = IF v = 0 THEN t ELSE NoThread]
    /\ held' = {h \in held : h[2] # M}
    /\ UNCHANGED <<sched, pivars, mc, blocked, before, wait>>

sema_destroy(t) ==
    /\ At(t, "none")
    /\ state # "none"
    /\ state' = "SEMA_DESTROY"
    /\ Goto(t, "unlock")
    /\ UNCHANGED <<mutexvars, value>>

\* With a value of UINT_MAX sema_post() returns -EOVERFLOW.
sema_post(t) ==
    /\ At(t, "none")
    /\ state # "none"
    /\ value < UINT_MAX
    /\ value' = value + 1
    /\ IF value = 0 THEN Goto(t, "unlock") ELSE UNCHANGED wait
    /\ UNCHANGED <<mutexvars, state>>

\* A handler posts.
IsrPost ==
    /\ state # "none"
    /\ value < UINT_MAX
    /\ value' = value + 1
    /\ IF value = 0 /\ queue[M] # NULL THEN IsrUnlock(M) ELSE UNCHANGED mutexvars
    /\ UNCHANGED <<state, wait>>

\* mutex_unlock(), the last statement of all functions that come to it.
unlocks(t) ==
    /\ At(t, "unlock")
    /\ unlock_section(t, M)
    /\ Returns(t)
    /\ UNCHANGED <<value, state>>

-----------------------------------------------------------------------------
(* _sema_wait_ztimer() *)

\* sema_wait(), sema_wait_timed() or, not blocking, sema_try_wait() is called
\* and finds the semaphore alive.
sema_wait(t, block_) ==
    /\ At(t, "none")
    /\ state = "SEMA_OK"
    /\ wait' = [wait EXCEPT ![t] = [at |-> "test", block |-> block_,
                                    did_block |-> block_, timer |-> FALSE]]
    /\ UNCHANGED <<mutexvars, value, state>>

\* Mutant of wait_tests: the mutex is not passed on.
wait_tests_keeps(t) ==
    /\ At(t, "test")
    /\ \/ /\ value = 0 /\ wait[t].block
          /\ Goto(t, "lock")
          /\ UNCHANGED value
       \/ /\ value = 0 /\ ~wait[t].block
          /\ Returns(t)
          /\ UNCHANGED value
       \/ /\ value > 0
          /\ value' = value - 1
          /\ Returns(t)
    /\ UNCHANGED <<mutexvars, state>>

\* The critical section: another round, -ETIMEDOUT or -EAGAIN, or a success
\* after which the mutex is passed on if the value allows another one.
wait_tests(t) ==
    /\ At(t, "test")
    /\ \/ /\ value = 0 /\ wait[t].block
          /\ Goto(t, "lock")
          /\ UNCHANGED value
       \/ /\ value = 0 /\ ~wait[t].block
          /\ Returns(t)
          /\ UNCHANGED value
       \/ /\ value > 0
          /\ value' = value - 1
          /\ IF wait[t].did_block /\ value > 1 THEN Goto(t, "unlock") ELSE Returns(t)
    /\ UNCHANGED <<mutexvars, state>>

\* The lock call of a timed wait is over: with the mutex there is another
\* round, unless the time is over by then.
timed_lock_over(t, locked) ==
    \E expired \in BOOLEAN :
        wait' = [wait EXCEPT ![t].at = "locked",
                             ![t].timer = @ /\ ~locked,
                             ![t].block = locked /\ ~expired]

\* mutex_lock(), or the mutex_trylock() of ztimer_mutex_lock_timeout().
wait_locks(t) ==
    /\ At(t, "lock")
    /\ \/ /\ t \notin Timed
          /\ acquire(t, M) \/ block(t, M, "mutex_lock")
          /\ Goto(t, "locked")
       \/ /\ t \in Timed
          /\ acquire(t, M)
          /\ timed_lock_over(t, TRUE)
       \/ /\ t \in Timed
          /\ queue[M] # NULL
          /\ Goto(t, "set timer")
          /\ UNCHANGED <<sched, queue, pivars, blocked, hvars>>
    /\ UNCHANGED <<mc, value, state>>

\* mutex_cancel_init() and ztimer_set().
wait_sets_timer(t) ==
    /\ At(t, "set timer")
    /\ mc' = [mc EXCEPT ![t] = [mutex |-> M, cancelled |-> FALSE]]
    /\ wait' = [wait EXCEPT ![t].at = "lock cancelable", ![t].timer = TRUE]
    /\ UNCHANGED <<sched, queue, pivars, blocked, hvars, value, state>>

\* mutex_lock_cancelable(), with the ztimer_remove() after a success: a timer
\* that expires in between finds its thread on the run queue and does nothing.
wait_locks_cancelable(t) ==
    /\ At(t, "lock cancelable")
    /\ mutex_lock_cancelable(t)
    /\ IF blocked'[t] # NotBlocked THEN UNCHANGED wait
       ELSE timed_lock_over(t, ~mc[t].cancelled)
    /\ UNCHANGED <<value, state>>

\* The lock call of a thread that had to wait returns.
wait_lock_returns(t) ==
    /\ lock_returns(t)
    /\ IF t \in Timed THEN timed_lock_over(t, ~mc[t].cancelled) ELSE UNCHANGED wait
    /\ UNCHANGED <<value, state>>

\* Mutant of wait_locked: -ECANCELED is returned with the mutex locked.
wait_locked_keeps(t) ==
    /\ At(t, "locked")
    /\ IF state # "SEMA_OK" THEN Returns(t) ELSE Goto(t, "test")
    /\ UNCHANGED <<mutexvars, value, state>>

\* The state is tested again; the mutex is passed on with -ECANCELED.
wait_locked(t) ==
    /\ At(t, "locked")
    /\ Goto(t, IF state # "SEMA_OK" THEN "unlock" ELSE "test")
    /\ UNCHANGED <<mutexvars, value, state>>

\* The timer of a lock call expires: its handler calls mutex_cancel().
TimerExpires(t) ==
    /\ wait[t].timer
    /\ IsrCancel(t)
    /\ wait' = [wait EXCEPT ![t].timer = FALSE]
    /\ UNCHANGED <<value, state>>

-----------------------------------------------------------------------------
\* The steps of a thread that is inside a function.
Proceeds(t) ==
    \/ unlocks(t)
    \/ wait_tests(t)
    \/ wait_locks(t)
    \/ wait_sets_timer(t)
    \/ wait_locks_cancelable(t)
    \/ wait_lock_returns(t)
    \/ wait_locked(t)

\* A thread that is not goes to sleep, or terminates.
SemaSleep(t) == At(t, "none") /\ Sleep(t) /\ UNCHANGED svars

SemaExit(t) == At(t, "none") /\ Exit(t) /\ UNCHANGED svars

SemaNext ==
    \/ Kernel /\ UNCHANGED svars
    \/ \E t \in Threads :
          \/ Proceeds(t)
          \/ \E v \in Values : sema_create(t, v)
          \/ sema_destroy(t)
          \/ sema_post(t)
          \/ \E b \in BOOLEAN : sema_wait(t, b)
          \/ SemaSleep(t)
          \/ SemaExit(t)
          \/ Wakeup(t) /\ UNCHANGED svars
          \/ TimerExpires(t)
    \/ IsrPost

SemaSpec == SemaInit /\ [][SemaNext]_allvars

-----------------------------------------------------------------------------
(* Properties *)

Waiting == {t \in Threads : sched.status[t] = "MUTEX_BLOCKED"}

\* u has come out of a lock call, or will when it next runs, and goes on to
\* test the state of the semaphore.
ComesBack(u) ==
    /\ u \notin Waiting
    /\ wait[u].at = "locked" \/ blocked[u] # NotBlocked

\* No post is lost: while the value is positive and a thread is blocked at the
\* semaphore, another one is on its way to unlock the mutex, or to test the
\* value and then unlock it; whether a lock was cancelled in time, too late or
\* not at all, and whoever took the value meanwhile.
NoLostPost ==
    value > 0 /\ Waiting # {} =>
        \E u \in Threads :
            \/ wait[u].at = "unlock"
            \/ wait[u].did_block /\ (ComesBack(u) \/ wait[u].at = "test")

\* sema_destroy() releases everybody with one unlock: while a thread is blocked
\* at a destroyed semaphore, another one is on its way to pass the mutex on.
DestroyPassedOn ==
    state = "SEMA_DESTROY" /\ Waiting # {} =>
        \E u \in Threads : wait[u].at = "unlock" \/ ComesBack(u)
=============================================================================
