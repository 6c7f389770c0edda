------------------------------- MODULE RMutex -------------------------------
(***************************************************************************)
(* A recursive mutex (core/lib/rmutex.c) over a mutex: an owner that is    *)
(* read without the mutex and a count of the nested locks.  Nothing in it  *)
(* runs with interrupts disabled but the mutex operations and the loads    *)
(* and stores of the owner, so each access is a step.  The threads of      *)
(* Cancels also lock with a timeout (sys/ztimer/util.c).                   *)
(***************************************************************************)
EXTENDS Mutex

CONSTANTS
    M,          \* rmutex_t::mutex
    Refcounts,  \* number of values of rmutex_t::refcount, a uint16_t
    MaxNest     \* bound: nested locks of one thread

\* No handler unlocks the mutex of a recursive mutex.
ASSUME RMutexAssumption ==
    /\ M \in Mutexes \ Signals
    /\ Refcounts \in Nat
    /\ MaxNest \in 1 .. Refcounts - 1

VARIABLES
    rowner,     \* rmutex_t::owner, NoThread for KERNEL_PID_UNDEF
    refcount,   \* rmutex_t::refcount
    at,         \* the statement of _lock() or rmutex_unlock() t is at
    nest        \* history: lock calls of t that returned, less its unlocks

rvars == <<rowner, refcount, at, nest>>
mutexvars == <<sched, queue, owner, owner_original_priority, mc, blocked,
               held, holder, before>>
allvars == <<sched, queue, owner, owner_original_priority, mc, blocked,
             held, holder, before, rowner, refcount, at, nest>>

RInit ==
    /\ Init
    /\ rowner = NoThread
    /\ refcount = 0
    /\ at = [t \in Threads |-> "none"]
    /\ nest = [t \in Threads |-> 0]

LockFns == {"rmutex_lock", "rmutex_trylock", "rmutex_lock_timeout"}

At(t, l) == Running(t) /\ at[t] = l
Goto(t, l) == at' = [at EXCEPT ![t] = l]

-----------------------------------------------------------------------------
(* _lock() *)

\* fn is called and tries to take the mutex; rmutex_lock_timeout stands for
\* ztimer_rmutex_lock_timeout(), which calls rmutex_trylock().
lock_tries(t, fn) ==
    /\ At(t, "none")
    /\ fn = "rmutex_lock_timeout" => t \in Cancels
    /\ nest[t] < MaxNest
    /\ \/ /\ acquire(t, M)
          /\ Goto(t, "store owner")
       \/ /\ queue[M] # NULL
          /\ Goto(t, fn)
          /\ UNCHANGED <<sched, queue, pivars, blocked, hvars>>
    /\ UNCHANGED <<mc, rowner, refcount, nest>>

\* Where fn goes on when the mutex is locked by another thread.
OwnerFound(fn) ==
    CASE fn = "rmutex_lock" -> "mutex_lock"
      [] fn = "rmutex_trylock" -> "none"
      [] fn = "rmutex_lock_timeout" -> "mutex_trylock"

\* Mutant of loads_owner: any recorded owner is taken for the caller.
loads_owner_any(t) ==
    /\ \E fn \in LockFns :
          /\ At(t, fn)
          /\ Goto(t, IF rowner # NoThread THEN "store owner" ELSE OwnerFound(fn))
    /\ UNCHANGED <<mutexvars, rowner, refcount, nest>>

loads_owner(t) ==
    /\ \E fn \in LockFns :
          /\ At(t, fn)
          /\ Goto(t, IF rowner = t THEN "store owner" ELSE OwnerFound(fn))
    /\ UNCHANGED <<mutexvars, rowner, refcount, nest>>

locks_mutex(t) ==
    /\ At(t, "mutex_lock")
    /\ acquire(t, M) \/ block(t, M, "mutex_lock")
    /\ Goto(t, "store owner")
    /\ UNCHANGED <<mc, rowner, refcount, nest>>

\* Mutant of stores_owner: the owner is not stored.
stores_owner_not(t) ==
    /\ At(t, "store owner")
    /\ Goto(t, "increment")
    /\ UNCHANGED <<mutexvars, rowner, refcount, nest>>

stores_owner(t) ==
    /\ At(t, "store owner")
    /\ rowner' = t
    /\ Goto(t, "increment")
    /\ UNCHANGED <<mutexvars, refcount, nest>>

increments(t) ==
    /\ At(t, "increment")
    /\ refcount' = (refcount + 1) % Refcounts
    /\ nest' = [nest EXCEPT ![t] = @ + 1]
    /\ Goto(t, "none")
    /\ UNCHANGED <<mutexvars, rowner>>

\* ztimer_mutex_lock_timeout() tries once more before it sets its timer.
timed_lock_tries(t) ==
    /\ At(t, "mutex_trylock")
    /\ \/ acquire(t, M) /\ Goto(t, "store owner") /\ UNCHANGED mc
       \/ /\ queue[M] # NULL
          /\ mc' = [mc EXCEPT ![t] = [mutex |-> M, cancelled |-> FALSE]]
          /\ Goto(t, "mutex_lock_cancelable")
          /\ UNCHANGED <<sched, queue, pivars, blocked, hvars>>
    /\ UNCHANGED <<rowner, refcount, nest>>

timed_lock_locks(t) ==
    /\ At(t, "mutex_lock_cancelable")
    /\ mutex_lock_cancelable(t)
    /\ Goto(t, "result")
    /\ UNCHANGED <<rowner, refcount, nest>>

\* mutex_lock_cancelable() has returned 0 or -ECANCELED.
timed_lock_returns(t) ==
    /\ At(t, "result")
    /\ Goto(t, IF <<t, M>> \in held THEN "store owner" ELSE "none")
    /\ UNCHANGED <<mutexvars, rowner, refcount, nest>>

\* timeout_cb(), until ztimer_remove() or the end of the call.
TimerExpires(t) == IsrCancel(t) /\ UNCHANGED rvars

-----------------------------------------------------------------------------
(* rmutex_unlock() *)

\* Mutant of decrements: the count is tested before it is decremented.
decrements_late(t) ==
    /\ At(t, "none")
    /\ nest[t] > 0
    /\ refcount' = (refcount - 1) % Refcounts
    /\ nest' = [nest EXCEPT ![t] = @ - 1]
    /\ Goto(t, IF refcount = 0 THEN "reset owner" ELSE "none")
    /\ UNCHANGED <<mutexvars, rowner>>

decrements(t) ==
    /\ At(t, "none")
    /\ nest[t] > 0
    /\ refcount' = (refcount - 1) % Refcounts
    /\ nest' = [nest EXCEPT ![t] = @ - 1]
    /\ Goto(t, IF refcount' = 0 THEN "reset owner" ELSE "none")
    /\ UNCHANGED <<mutexvars, rowner>>

\* Mutant of resets_owner: the owner stays recorded.
resets_owner_not(t) ==
    /\ At(t, "reset owner")
    /\ Goto(t, "mutex_unlock")
    /\ UNCHANGED <<mutexvars, rowner, refcount, nest>>

resets_owner(t) ==
    /\ At(t, "reset owner")
    /\ rowner' = NoThread
    /\ Goto(t, "mutex_unlock")
    /\ UNCHANGED <<mutexvars, refcount, nest>>

unlocks_mutex(t) ==
    /\ At(t, "mutex_unlock")
    /\ mutex_unlock(t, M)
    /\ Goto(t, "none")
    /\ UNCHANGED <<rowner, refcount, nest>>

-----------------------------------------------------------------------------
RSleep(t) ==
    /\ At(t, "none") /\ Sleeps(t)
    /\ UNCHANGED <<queue, pivars, mc, blocked, hvars, rvars>>

\* The steps of t inside the functions.
Proceeds(t) ==
    \/ lock_returns(t) /\ UNCHANGED rvars
    \/ loads_owner(t)
    \/ locks_mutex(t)
    \/ timed_lock_tries(t)
    \/ timed_lock_locks(t)
    \/ timed_lock_returns(t)
    \/ stores_owner(t)
    \/ increments(t)
    \/ resets_owner(t)
    \/ unlocks_mutex(t)

RNext ==
    \/ Kernel /\ UNCHANGED rvars
    \/ \E t \in Threads :
          \/ \E fn \in LockFns : lock_tries(t, fn)
          \/ Proceeds(t)
          \/ decrements(t)
          \/ RSleep(t)
          \/ TimerExpires(t)
          \/ Wakeup(t) /\ UNCHANGED rvars

RSpec == RInit /\ [][RNext]_allvars

\* The CPU goes on.  The threads below the highest priority are woken when
\* they sleep; if they run again and again they undo each of their nested
\* locks, and sleep, so that the others of their priority run.
RFairSpec ==
    /\ RSpec
    /\ WF_allvars((Kernel /\ UNCHANGED rvars) \/ \E t \in Threads : Proceeds(t))
    /\ \A t \in Threads \ Highest :
          /\ WF_allvars(Wakeup(t) /\ UNCHANGED rvars)
          /\ SF_allvars(RSleep(t))
          /\ \A n \in 1 .. MaxNest : SF_allvars(nest[t] = n /\ decrements(t))

-----------------------------------------------------------------------------
(* Properties *)

\* Two threads are never both inside the recursive mutex, and the mutex is
\* held by the thread that is.
OneInside ==
    \A t \in Threads : nest[t] > 0 =>
        /\ holder[M] = t
        /\ \A u \in Threads \ {t} : nest[u] = 0

\* The assertions of rmutex_unlock(): the caller is the recorded owner and
\* the count is positive; and the count is the caller's number of locks.
UnlockAssertions ==
    \A t \in Threads : At(t, "none") /\ nest[t] > 0 =>
        /\ rowner = t
        /\ refcount > 0
        /\ refcount = nest[t]

\* The comment in _lock(): "Other threads never set rmutex->owner to the pid
\* of the current thread."  The unlocked read of the owner finds the reader
\* exactly when a lock call of the reader took the mutex.
OwnerReadIsSound ==
    \A t \in Threads : at[t] \in LockFns =>
        (rowner = t <=> <<t, M>> \in held)

\* "Hence, it is guaranteed that mutex_lock is eventually called", and more:
\* every lock call of a thread of the highest priority returns, whoever
\* holds the recursive mutex, provided no timed lock whose timer fired after
\* the hand-over has left the mutex locked for ever (see HolderKnows).
RLockReturns ==
    \A t \in Highest : at[t] # "none" ~> (at[t] = "none" \/ ~HolderKnows)
=============================================================================
