---------------------------- MODULE RMutexProof ----------------------------
(***************************************************************************)
(* Theorems about RMutex without priority inheritance, for every set of    *)
(* threads, every nesting depth below the range of the count and whichever *)
(* threads lock with a timeout: one thread at a time is inside, the        *)
(* assertions of rmutex_unlock() hold, and the read of the owner without   *)
(* the mutex tells the reader the truth about itself.                      *)
(*                                                                         *)
(* The owner and the count are stored in steps of their own after the      *)
(* mutex has been taken, and reset before it is unlocked.  The inductive   *)
(* invariant therefore says, for each statement a thread can be at,        *)
(* whether it holds the mutex and whether the owner and the count already  *)
(* or still speak of it (Place).                                           *)
(***************************************************************************)
EXTENDS RMutex, MutexProof

Labels == {"none", "mutex_lock", "mutex_trylock", "mutex_lock_cancelable", "result",
           "store owner", "increment", "reset owner", "mutex_unlock"} \cup LockFns

\* Each variable of the recursive mutex has its type.
RTypes ==
    /\ rowner \in Threads \cup {NoThread}
    /\ refcount \in 0 .. MaxNest
    /\ at \in [Threads -> Labels]
    /\ nest \in [Threads -> 0 .. MaxNest]

\* A lock call of t took the mutex.
Has(t) == <<t, M>> \in held

\* What the statement t is at says about the mutex, the owner and the count.
Place(t) ==
    /\ IF Has(t) THEN refcount = nest[t] ELSE nest[t] = 0
    /\ rowner = t <=> nest[t] # 0 \/ at[t] \in {"increment", "reset owner"}
    /\ at[t] \in {"none"} \cup LockFns => (Has(t) <=> nest[t] # 0)
    /\ at[t] \in {"increment", "reset owner", "mutex_unlock"} => Has(t)
    /\ at[t] \in {"mutex_lock", "mutex_trylock", "mutex_lock_cancelable"} => ~Has(t)
    /\ at[t] = "store owner" => Has(t) \/ blocked[t].fn = "mutex_lock"
    /\ at[t] \in {"result", "reset owner", "mutex_unlock"} => nest[t] = 0
    /\ at[t] \in {"store owner", "increment"} \cup LockFns => nest[t] < MaxNest

\* The mutex operations a thread is inside of: it waits for no other mutex
\* than M, and has a mutex_cancel_t only from before mutex_lock_cancelable()
\* until it returns.
Inside(t) ==
    /\ blocked[t] # NotBlocked =>
         /\ ~Has(t) /\ blocked[t].mutex = M
         /\ at[t] \in {"store owner", "result"}
    /\ mc[t].mutex # NoMutex =>
         /\ mc[t].mutex = M
         /\ \/ at[t] = "mutex_lock_cancelable"
            \/ at[t] = "result" /\ blocked[t] # NotBlocked

\* The count of a recursive mutex no thread is inside of.
NobodyCounts == (\A t \in Threads : ~Has(t)) => refcount = 0

\* The inductive invariant.
RInv ==
    /\ IInv
    /\ RTypes
    /\ \A t \in Threads : Place(t) /\ Inside(t)
    /\ NobodyCounts

-----------------------------------------------------------------------------
(* Facts about one state *)

\* A thread may lock at least once, and the count can count its locks.
LEMMA NestBounds == MaxNest \in Nat /\ MaxNest > 0 /\ Refcounts \in Nat /\ MaxNest < Refcounts
  BY RMutexAssumption

\* The thread a lock call gave the mutex to is its holder, and alone.
LEMMA HolderAlone ==
    ASSUME RInv, NEW t \in Threads, Has(t)
    PROVE  holder[M] = t /\ \A x \in Threads : Has(x) => x = t
<1>1. MutualExclusion
  BY DEF RInv, IInv
<1> QED
  BY <1>1, RMutexAssumption DEF MutualExclusion, Has

\* While no lock call has the mutex there are no nested locks.
LEMMA NobodyInside ==
    ASSUME RInv, \A x \in Threads : ~Has(x)
    PROVE  refcount = 0 /\ \A x \in Threads : nest[x] = 0
  BY DEF RInv, NobodyCounts, Place

-----------------------------------------------------------------------------
(* Steps that leave a thread alone *)

\* A thread whose own state is not changed and for which the owner and, if
\* it has the mutex, the count are as before.
LEMMA OtherPlace ==
    ASSUME NEW x \in Threads, Place(x), Inside(x),
           at'[x] = at[x], nest'[x] = nest[x], blocked'[x] = blocked[x],
           mc'[x].mutex = mc[x].mutex, Has(x)' <=> Has(x),
           rowner' = x <=> rowner = x, Has(x) => refcount' = refcount
    PROVE  Place(x)' /\ Inside(x)'
<1>1. Place(x)'
  BY DEF Place
<1>2. Inside(x)'
  BY DEF Inside
<1> QED
  BY <1>1, <1>2

\* A step of the kernel or of a handler, or of a thread that touches neither
\* mutex.
LEMMA RUntouched ==
    ASSUME RInv, IInv', UNCHANGED <<rvars, held, blocked>>,
           \A x \in Threads : mc'[x].mutex = mc[x].mutex
    PROVE  RInv'
<1>1. RTypes' /\ NobodyCounts'
  BY DEF RInv, RTypes, NobodyCounts, Has, rvars
<1>2. ASSUME NEW x \in Threads PROVE Place(x)' /\ Inside(x)'
  BY <1>2, OtherPlace DEF RInv, Has, rvars
<1> QED
  BY <1>1, <1>2 DEF RInv

\* A step of t within the functions that takes and gives no mutex.
LEMMA OwnStep ==
    ASSUME RInv, IInv', NEW t \in Threads, NEW l \in Labels, Goto(t, l),
           UNCHANGED <<held, blocked>>,
           \A x \in Threads \ {t} : mc'[x] = mc[x],
           RTypes', \A x \in Threads \ {t} : nest'[x] = nest[x],
           \A x \in Threads \ {t} : rowner' = x <=> rowner = x,
           refcount' = refcount \/ Has(t),
           Place(t)', Inside(t)'
    PROVE  RInv'
<1>1. NobodyCounts'
  BY DEF RInv, NobodyCounts, Has
<1>2. ASSUME NEW x \in Threads \ {t} PROVE Place(x)' /\ Inside(x)'
  <2>1. Place(x) /\ Inside(x) /\ at'[x] = at[x] /\ blocked'[x] = blocked[x]
    BY DEF RInv, RTypes, Goto
  <2>2. (Has(x)' <=> Has(x)) /\ (Has(x) => refcount' = refcount)
    BY HolderAlone DEF Has
  <2> QED
    BY <1>2, <2>1, <2>2, OtherPlace
<1> QED
  BY <1>1, <1>2 DEF RInv

-----------------------------------------------------------------------------
(* Taking the mutex *)

\* The mutex is unlocked and t takes it: nobody has it, and the owner and the
\* count have been reset.
LEMMA TakesMutex ==
    ASSUME RInv, IInv', NEW t \in Threads, acquire(t, M), NEW l \in Labels, Goto(t, l),
           blocked[t] = NotBlocked, UNCHANGED <<rowner, refcount, nest>>,
           at[t] \notin {"increment", "reset owner"},
           \/ l = "store owner" /\ mc' = mc /\ mc[t].mutex = NoMutex
           \/ l = "result" /\ mc' = [mc EXCEPT ![t] = NoCancel]
    PROVE  RInv'
<1>1. /\ IInv /\ RTypes /\ Place(t) /\ Inside(t)
      /\ MutexTypes /\ QueueExact /\ MutualExclusion
  BY DEF RInv, IInv
<1>2. holder[M] = NoThread
  BY <1>1, RMutexAssumption DEF acquire, QueueExact
<1>3. \A x \in Threads : ~Has(x)
  BY <1>2, HolderAlone, SchedAssumption
<1>4. refcount = 0 /\ \A x \in Threads : nest[x] = 0
  BY <1>3, NobodyInside
<1>5. /\ Has(t)' /\ \A x \in Threads \ {t} : ~Has(x)'
      /\ blocked' = blocked
  BY <1>3 DEF acquire, Has
<1>6. /\ at' \in [Threads -> Labels] /\ at'[t] = l /\ mc'[t].mutex = NoMutex
      /\ \A x \in Threads \ {t} : at'[x] = at[x] /\ mc'[x] = mc[x]
  <2>1. /\ at' \in [Threads -> Labels] /\ at'[t] = l
        /\ \A x \in Threads \ {t} : at'[x] = at[x]
    BY <1>1 DEF RTypes, Goto
  <2>2. mc'[t].mutex = NoMutex /\ \A x \in Threads \ {t} : mc'[x] = mc[x]
    <3>1. CASE mc' = mc /\ mc[t].mutex = NoMutex
      BY <3>1
    <3>2. CASE mc' = [mc EXCEPT ![t] = NoCancel]
      BY <1>1, <3>2 DEF MutexTypes, NoCancel
    <3> QED
      BY <3>1, <3>2
  <2> QED
    BY <2>1, <2>2
<1>7. RTypes'
  BY <1>1, <1>6 DEF RTypes
<1>8. Place(t)'
  <2>1. rowner # t
    BY <1>1, <1>4 DEF Place
  <2> QED
    BY <1>4, <1>5, <1>6, <2>1, NestBounds DEF Place, LockFns
<1>9. Inside(t)'
  BY <1>5, <1>6 DEF Inside
<1>10. ASSUME NEW x \in Threads \ {t} PROVE Place(x)' /\ Inside(x)'
  <2>1. Place(x) /\ Inside(x)
    BY DEF RInv
  <2> QED
    BY <1>3, <1>5, <1>6, <2>1, OtherPlace
<1>11. NobodyCounts'
  BY <1>5 DEF NobodyCounts
<1> QED
  BY <1>7, <1>8, <1>9, <1>10, <1>11 DEF RInv

\* The mutex is locked and t enters its queue.
LEMMA WaitsForMutex ==
    ASSUME RInv, IInv', NEW t \in Threads,
           NEW fn \in {"mutex_lock", "mutex_lock_cancelable"}, block(t, M, fn), mc' = mc,
           UNCHANGED <<rowner, refcount, nest>>, ~Has(t),
           NEW l, Goto(t, l),
           \/ fn = "mutex_lock" /\ l = "store owner" /\ mc[t].mutex = NoMutex
           \/ fn = "mutex_lock_cancelable" /\ l = "result",
           at[t] \notin {"increment", "reset owner"}
    PROVE  RInv'
<1>1. /\ IInv /\ RTypes /\ Place(t) /\ Inside(t) /\ MutexTypes
  BY DEF RInv, IInv
<1>2. /\ held' = held /\ blocked' = [blocked EXCEPT ![t] = [mutex |-> M, fn |-> fn]]
  BY DEF block
<1>3. /\ at' \in [Threads -> Labels] /\ at'[t] = l
      /\ blocked'[t].mutex = M /\ blocked'[t].fn = fn
      /\ \A x \in Threads \ {t} : at'[x] = at[x] /\ blocked'[x] = blocked[x]
  BY <1>1, <1>2 DEF RTypes, Goto, MutexTypes, Labels
<1>4. RTypes'
  BY <1>1, <1>3 DEF RTypes
<1>5. nest[t] = 0 /\ rowner # t
  BY <1>1 DEF Place
<1>6. /\ ~Has(t)' /\ blocked'[t].mutex = M /\ blocked'[t].fn = fn
      /\ blocked'[t] # NotBlocked
  <2>1. ~Has(t)'
    BY <1>2 DEF Has
  <2>2. M # NoMutex /\ NotBlocked.mutex = NoMutex
    BY MutexAssumption, RMutexAssumption DEF NotBlocked
  <2> QED
    BY <1>3, <2>1, <2>2
<1>7. Place(t)' /\ Inside(t)'
  <2>1. CASE fn = "mutex_lock" /\ l = "store owner" /\ mc[t].mutex = NoMutex
    <3>1. Place(t)'
      BY <1>3, <1>5, <1>6, <2>1, NestBounds DEF Place, LockFns
    <3>2. Inside(t)'
      BY <1>3, <1>6, <2>1 DEF Inside
    <3> QED
      BY <3>1, <3>2
  <2>2. CASE fn = "mutex_lock_cancelable" /\ l = "result"
    <3>1. Place(t)'
      BY <1>3, <1>5, <1>6, <2>2 DEF Place, LockFns
    <3>2. Inside(t)'
      BY <1>1, <1>3, <1>6, <2>2 DEF Inside
    <3> QED
      BY <3>1, <3>2
  <2> QED
    BY <2>1, <2>2
<1>8. ASSUME NEW x \in Threads \ {t} PROVE Place(x)' /\ Inside(x)'
  <2>1. Place(x) /\ Inside(x)
    BY DEF RInv
  <2> QED
    BY <1>2, <1>3, <2>1, OtherPlace DEF Has
<1>9. NobodyCounts'
  BY <1>2 DEF RInv, NobodyCounts, Has
<1> QED
  BY <1>4, <1>7, <1>8, <1>9 DEF RInv

\* _lock() tries to take the mutex.
LEMMA TryKeeps ==
    ASSUME RInv, NEW t \in Threads, NEW fn \in LockFns, lock_tries(t, fn)
    PROVE  RInv'
<1>1. /\ IInv /\ RTypes /\ Place(t) /\ Inside(t)
  BY DEF RInv
<1>2. /\ blocked[t] = NotBlocked /\ at[t] = "none" /\ nest[t] < MaxNest
      /\ mc' = mc /\ UNCHANGED <<rowner, refcount, nest>>
  BY DEF lock_tries, At, Running
<1>3. mc[t].mutex = NoMutex
  BY <1>1, <1>2 DEF Inside
<1>4. CASE acquire(t, M) /\ Goto(t, "store owner")
  <2>1. IInv'
    BY <1>1, <1>2, <1>4, AcquireKeeps, RMutexAssumption
  <2> QED
    BY <1>2, <1>3, <1>4, <2>1, TakesMutex DEF Labels
<1>5. CASE /\ Goto(t, fn)
           /\ UNCHANGED <<sched, queue, pivars, blocked, hvars>>
  <2>1. UNCHANGED <<sched, queue, blocked, held, holder>>
    BY <1>5 DEF hvars
  <2>2. IInv'
    BY <1>1, <1>2, <2>1, Untouched DEF IInv
  <2>3. at'[t] = fn /\ RTypes'
    BY <1>1, <1>2, <1>5 DEF RTypes, Goto, Labels
  <2>4. Place(t)'
    BY <1>1, <1>2, <2>1, <2>3 DEF Place, Has, LockFns
  <2>5. Inside(t)'
    BY <1>2, <1>3, <2>1 DEF Inside
  <2> QED
    BY <1>2, <1>5, <2>1, <2>2, <2>3, <2>4, <2>5, OwnStep DEF Labels
<1> QED
  BY <1>4, <1>5 DEF lock_tries

\* The mutex is locked, by the caller itself or by another thread: the
\* owner tells which.
LEMMA LoadKeeps ==
    ASSUME RInv, NEW t \in Threads, loads_owner(t)
    PROVE  RInv'
<1>1. /\ IInv /\ RTypes /\ Place(t) /\ Inside(t)
  BY DEF RInv
<1>2. PICK fn \in LockFns :
          /\ At(t, fn)
          /\ Goto(t, IF rowner = t THEN "store owner" ELSE OwnerFound(fn))
  BY DEF loads_owner
<1>3. /\ blocked[t] = NotBlocked /\ at[t] = fn /\ nest[t] < MaxNest
      /\ UNCHANGED <<sched, queue, mc, blocked, held, holder, rowner, refcount, nest>>
  BY <1>1, <1>2 DEF loads_owner, At, Running, mutexvars, Place
<1>4. mc[t].mutex = NoMutex /\ (rowner = t <=> Has(t)) /\ (Has(t) <=> nest[t] # 0)
  BY <1>1, <1>3 DEF Inside, Place, LockFns
<1>5. IInv'
  BY <1>1, <1>3, Untouched DEF IInv
<1> DEFINE l == IF rowner = t THEN "store owner" ELSE OwnerFound(fn)
<1>6. /\ rowner = t => l = "store owner"
      /\ rowner # t => l \in {"mutex_lock", "none", "mutex_trylock"}
      /\ l \in Labels
  BY DEF OwnerFound, LockFns, Labels
<1>7. Goto(t, l)
  BY <1>2
<1> HIDE DEF l
<1>8. at'[t] = l /\ RTypes'
  BY <1>1, <1>3, <1>6, <1>7 DEF RTypes, Goto
<1>9. Has(t)' <=> Has(t)
  BY <1>3 DEF Has
<1>10. Place(t)'
  <2>1. CASE rowner = t
    BY <1>1, <1>3, <1>4, <1>6, <1>8, <1>9, <2>1 DEF Place, LockFns
  <2>2. CASE rowner # t
    BY <1>1, <1>3, <1>4, <1>6, <1>8, <1>9, <2>2 DEF Place, LockFns
  <2> QED
    BY <2>1, <2>2
<1>11. Inside(t)'
  BY <1>3, <1>4 DEF Inside
<1> QED
  BY <1>3, <1>5, <1>6, <1>7, <1>8, <1>10, <1>11, OwnStep

\* Another thread has the mutex, or had it when the owner was read.
LEMMA LocksKeeps ==
    ASSUME ~PriorityInheritance, RInv, NEW t \in Threads, locks_mutex(t)
    PROVE  RInv'
<1>1. /\ IInv /\ RTypes /\ Place(t) /\ Inside(t)
  BY DEF RInv
<1>2. /\ Running(t) /\ blocked[t] = NotBlocked /\ at[t] = "mutex_lock"
      /\ Goto(t, "store owner")
      /\ mc' = mc /\ UNCHANGED <<rowner, refcount, nest>>
      /\ acquire(t, M) \/ block(t, M, "mutex_lock")
  BY DEF locks_mutex, At, Running
<1>3. mc[t].mutex = NoMutex /\ mc[t].mutex # M /\ ~Has(t)
  BY <1>1, <1>2, MutexAssumption, RMutexAssumption DEF Inside, Place
<1>4. M \in Mutexes
  BY RMutexAssumption
<1>5. IInv'
  BY <1>1, <1>2, <1>3, <1>4, AcquireKeeps, BlockKeeps
<1>6. CASE acquire(t, M)
  BY <1>2, <1>3, <1>5, <1>6, TakesMutex DEF Labels
<1>7. CASE block(t, M, "mutex_lock")
  BY <1>2, <1>3, <1>5, <1>7, WaitsForMutex
<1> QED
  BY <1>2, <1>6, <1>7

\* ztimer_mutex_lock_timeout() tries once more, and prepares to be cancelled.
LEMMA TimedTryKeeps ==
    ASSUME RInv, NEW t \in Threads, timed_lock_tries(t)
    PROVE  RInv'
<1>1. /\ IInv /\ RTypes /\ Place(t) /\ Inside(t) /\ MutexTypes
  BY DEF RInv, IInv
<1>2. /\ blocked[t] = NotBlocked /\ at[t] = "mutex_trylock" /\ M \in Mutexes
      /\ UNCHANGED <<rowner, refcount, nest>>
  BY RMutexAssumption DEF timed_lock_tries, At, Running
<1>3. mc[t].mutex = NoMutex /\ ~Has(t)
  BY <1>1, <1>2 DEF Inside, Place
<1>4. CASE acquire(t, M) /\ Goto(t, "store owner") /\ UNCHANGED mc
  <2>1. IInv'
    BY <1>1, <1>2, <1>4, AcquireKeeps
  <2> QED
    BY <1>2, <1>3, <1>4, <2>1, TakesMutex DEF Labels
<1>5. CASE /\ mc' = [mc EXCEPT ![t] = [mutex |-> M, cancelled |-> FALSE]]
           /\ Goto(t, "mutex_lock_cancelable")
           /\ UNCHANGED <<sched, queue, pivars, blocked, hvars>>
  <2>1. UNCHANGED <<sched, queue, blocked, held, holder>>
    BY <1>5 DEF hvars
  <2>2. IInv'
    BY <1>1, <1>2, <1>5, <2>1, CancelInitKeeps
  <2>3. at'[t] = "mutex_lock_cancelable" /\ RTypes'
    BY <1>1, <1>2, <1>5 DEF RTypes, Goto, Labels
  <2>4. mc'[t].mutex = M /\ \A x \in Threads \ {t} : mc'[x] = mc[x]
    BY <1>1, <1>5 DEF MutexTypes
  <2>5. ~Has(t)'
    BY <1>3, <2>1 DEF Has
  <2>6. Place(t)'
    BY <1>1, <1>2, <1>3, <2>3, <2>5 DEF Place, LockFns
  <2>7. Inside(t)'
    BY <1>2, <2>1, <2>3, <2>4 DEF Inside
  <2> QED
    BY <1>2, <1>5, <2>1, <2>2, <2>3, <2>4, <2>6, <2>7, OwnStep DEF Labels
<1> QED
  BY <1>4, <1>5 DEF timed_lock_tries

\* mutex_lock_cancelable() finds that it was cancelled, takes the mutex or
\* waits.
LEMMA TimedLockKeeps ==
    ASSUME ~PriorityInheritance, RInv, NEW t \in Threads, timed_lock_locks(t)
    PROVE  RInv'
<1>1. /\ IInv /\ RTypes /\ Place(t) /\ Inside(t) /\ MutexTypes
  BY DEF RInv, IInv
<1>2. /\ blocked[t] = NotBlocked /\ at[t] = "mutex_lock_cancelable"
      /\ Goto(t, "result") /\ mutex_lock_cancelable(t) /\ mc[t] # NoCancel
      /\ UNCHANGED <<rowner, refcount, nest>>
  BY DEF timed_lock_locks, At, Running, mutex_lock_cancelable
<1>3. mc[t].mutex = M /\ ~Has(t)
  BY <1>1, <1>2 DEF Inside, Place, MutexTypes
<1>4. IInv'
  BY <1>1, <1>2, LockKeeps
<1>5. CASE /\ mc' = [mc EXCEPT ![t] = NoCancel]
           /\ UNCHANGED <<sched, queue, pivars, blocked, hvars>>
  <2>1. held' = held /\ blocked' = blocked
    BY <1>5 DEF hvars
  <2>2. at'[t] = "result" /\ RTypes'
    BY <1>1, <1>2 DEF RTypes, Goto, Labels
  <2>3. mc'[t].mutex = NoMutex /\ \A x \in Threads \ {t} : mc'[x] = mc[x]
    BY <1>1, <1>5 DEF MutexTypes, NoCancel
  <2>4. ~Has(t)'
    BY <1>3, <2>1 DEF Has
  <2>5. Place(t)'
    BY <1>1, <1>2, <1>3, <2>2, <2>4 DEF Place, LockFns
  <2>6. Inside(t)'
    BY <1>2, <2>1, <2>3 DEF Inside
  <2> QED
    BY <1>2, <1>4, <2>1, <2>2, <2>3, <2>5, <2>6, OwnStep DEF Labels
<1>6. CASE acquire(t, M) /\ mc' = [mc EXCEPT ![t] = NoCancel]
  BY <1>2, <1>4, <1>6, TakesMutex DEF Labels
<1>7. CASE block(t, M, "mutex_lock_cancelable") /\ UNCHANGED mc
  BY <1>2, <1>3, <1>4, <1>7, WaitsForMutex
<1> QED
  BY <1>2, <1>3, <1>5, <1>6, <1>7 DEF mutex_lock_cancelable

\* A lock call comes back from waiting: it was handed the mutex, whose count
\* the last holder left at zero, or was cancelled.
LEMMA ComesBackKeeps ==
    ASSUME RInv, NEW t \in Threads, lock_returns(t), UNCHANGED rvars
    PROVE  RInv'
<1>1. /\ IInv /\ RTypes /\ Place(t) /\ Inside(t) /\ MutexTypes
  BY DEF RInv, IInv
<1>2. /\ blocked[t] # NotBlocked /\ blocked' = [blocked EXCEPT ![t] = NotBlocked]
      /\ held' \in {held, held \cup {<<t, blocked[t].mutex>>}}
      /\ blocked[t].fn = "mutex_lock" => held' = held \cup {<<t, blocked[t].mutex>>}
      /\ mc' = IF blocked[t].fn = "mutex_lock_cancelable"
               THEN [mc EXCEPT ![t] = NoCancel] ELSE mc
      /\ UNCHANGED <<rowner, refcount, at, nest>>
  BY DEF lock_returns, rvars
<1>3. IInv'
  BY <1>1, ReturnKeeps
<1>4. ~Has(t) /\ blocked[t].mutex = M /\ at[t] \in {"store owner", "result"} /\ nest[t] = 0
  BY <1>1, <1>2 DEF Inside, Place
<1>5. at[t] = "store owner" => Has(t)'
  BY <1>1, <1>2, <1>4 DEF Place, Has
<1>6. RTypes'
  BY <1>1, <1>2 DEF RTypes
<1>7. Has(t)' => refcount = 0 /\ \A x \in Threads : ~Has(x)
  <2>1. SUFFICES ASSUME Has(t)' PROVE \A x \in Threads : ~Has(x)
    BY NobodyInside
  <2>2. MutualExclusion' /\ holder' = holder
    BY <1>3 DEF IInv, lock_returns
  <2>3. holder[M] = t
    BY <2>1, <2>2, RMutexAssumption DEF MutualExclusion, Has
  <2> QED
    BY <1>4, <2>3, HolderAlone
<1>8. /\ \A x \in Threads \ {t} : Has(x)' <=> Has(x)
      /\ Has(t)' \in BOOLEAN
  BY SMTT(30), <1>2 DEF Has
<1>9. Place(t)'
  BY <1>1, <1>2, <1>4, <1>5, <1>7, <1>8 DEF Place, LockFns
<1>10. blocked'[t] = NotBlocked /\ \A x \in Threads \ {t} : blocked'[x] = blocked[x]
  BY <1>1, <1>2 DEF MutexTypes
<1>11. /\ \A x \in Threads \ {t} : mc'[x].mutex = mc[x].mutex
       /\ mc'[t].mutex = NoMutex
  <2>1. blocked[t].fn = "mutex_lock_cancelable" \/ mc[t].mutex = NoMutex
    BY <1>1, <1>2, <1>4, MutexAssumption, RMutexAssumption DEF Inside, RInv, IInv, Cancelable
  <2> QED
    BY <1>1, <1>2, <2>1 DEF MutexTypes, NoCancel
<1>12. Inside(t)'
  BY <1>10, <1>11 DEF Inside
<1>13. ASSUME NEW x \in Threads \ {t} PROVE Place(x)' /\ Inside(x)'
  <2>1. Place(x) /\ Inside(x)
    BY DEF RInv
  <2> QED
    BY <1>2, <1>8, <1>10, <1>11, <1>13, <2>1, OtherPlace
<1>14. NobodyCounts'
  BY <1>2, <1>4, <1>7, <1>8 DEF RInv, NobodyCounts
<1> QED
  BY <1>3, <1>6, <1>9, <1>12, <1>13, <1>14 DEF RInv

\* The result of mutex_lock_cancelable().
LEMMA TimedReturnKeeps ==
    ASSUME RInv, NEW t \in Threads, timed_lock_returns(t)
    PROVE  RInv'
<1>1. /\ IInv /\ RTypes /\ Place(t) /\ Inside(t)
  BY DEF RInv
<1>2. /\ blocked[t] = NotBlocked /\ at[t] = "result"
      /\ UNCHANGED <<sched, queue, mc, blocked, held, holder, rowner, refcount, nest>>
  BY DEF timed_lock_returns, At, Running, mutexvars
<1> DEFINE l == IF Has(t) THEN "store owner" ELSE "none"
<1>3. Goto(t, l) /\ l \in Labels
  BY DEF timed_lock_returns, Has, Labels
<1>4. /\ Has(t) => l = "store owner"
      /\ ~Has(t) => l = "none"
  OBVIOUS
<1> HIDE DEF l
<1>5. IInv'
  BY <1>1, <1>2, Untouched DEF IInv
<1>6. at'[t] = l /\ RTypes'
  BY <1>1, <1>2, <1>3 DEF RTypes, Goto
<1>7. mc[t].mutex = NoMutex
  BY <1>1, <1>2 DEF Inside
<1>8. Has(t)' <=> Has(t)
  BY <1>2 DEF Has
<1>9. Place(t)'
  <2>1. CASE Has(t)
    BY <1>1, <1>2, <1>4, <1>6, <1>8, <2>1, NestBounds DEF Place, LockFns
  <2>2. CASE ~Has(t)
    BY <1>1, <1>2, <1>4, <1>6, <1>8, <2>2 DEF Place, LockFns
  <2> QED
    BY <2>1, <2>2
<1>10. Inside(t)'
  BY <1>2, <1>7 DEF Inside
<1> QED
  BY <1>2, <1>3, <1>5, <1>6, <1>9, <1>10, OwnStep

-----------------------------------------------------------------------------
(* The owner and the count *)

\* A thread that has the mutex stores and resets the owner, which then is
\* nobody else.
LEMMA StoreKeeps ==
    ASSUME RInv, NEW t \in Threads, stores_owner(t) \/ resets_owner(t)
    PROVE  RInv'
<1>1. /\ IInv /\ RTypes /\ Place(t) /\ Inside(t)
  BY DEF RInv
<1>2. /\ blocked[t] = NotBlocked
      /\ UNCHANGED <<sched, queue, mc, blocked, held, holder, refcount, nest>>
      /\ \/ at[t] = "store owner" /\ rowner' = t /\ Goto(t, "increment")
         \/ at[t] = "reset owner" /\ rowner' = NoThread /\ Goto(t, "mutex_unlock")
  BY DEF stores_owner, resets_owner, At, Running, mutexvars
<1>3. Has(t) /\ mc[t].mutex = NoMutex
  <2>1. NotBlocked.fn = "none"
    BY DEF NotBlocked
  <2>2. blocked[t].fn = "none"
    BY <1>2, <2>1
  <2> QED
    BY <1>1, <1>2, <2>2 DEF Place, Inside
<1>4. IInv'
  BY <1>1, <1>2, Untouched DEF IInv
<1>5. Has(t)'
  BY <1>2, <1>3 DEF Has
<1>6. \A x \in Threads \ {t} : rowner # x
  <2> SUFFICES ASSUME NEW x \in Threads \ {t}, rowner = x PROVE FALSE
    OBVIOUS
  <2>1. Place(x)
    BY DEF RInv
  <2>2. Has(x)
    BY <2>1 DEF Place
  <2> QED
    BY <1>3, <2>2, HolderAlone
<1>7. CASE at[t] = "store owner" /\ rowner' = t /\ Goto(t, "increment")
  <2>1. at'[t] = "increment" /\ RTypes'
    BY <1>1, <1>2, <1>7 DEF RTypes, Goto, Labels
  <2>2. Place(t)'
    BY <1>1, <1>2, <1>3, <1>5, <1>7, <2>1 DEF Place, LockFns
  <2>3. Inside(t)'
    BY <1>2, <1>3 DEF Inside
  <2> QED
    BY <1>2, <1>4, <1>6, <1>7, <2>1, <2>2, <2>3, OwnStep DEF Labels
<1>8. CASE at[t] = "reset owner" /\ rowner' = NoThread /\ Goto(t, "mutex_unlock")
  <2>1. at'[t] = "mutex_unlock" /\ RTypes' /\ rowner' # t
    BY <1>1, <1>2, <1>8, SchedAssumption DEF RTypes, Goto, Labels
  <2>2. Place(t)'
    BY <1>1, <1>2, <1>3, <1>5, <1>8, <2>1 DEF Place, LockFns
  <2>3. Inside(t)'
    BY <1>2, <1>3 DEF Inside
  <2>4. \A x \in Threads \ {t} : rowner' # x
    BY <1>8, SchedAssumption
  <2> QED
    BY <1>2, <1>4, <1>6, <1>8, <2>1, <2>2, <2>3, <2>4, OwnStep DEF Labels
<1> QED
  BY <1>2, <1>7, <1>8

\* The count of the thread that has the mutex is the number of its locks, and
\* does not wrap around.
LEMMA CountKeeps ==
    ASSUME RInv, NEW t \in Threads, increments(t) \/ decrements(t)
    PROVE  RInv'
<1>1. /\ IInv /\ RTypes /\ Place(t) /\ Inside(t)
  BY DEF RInv
<1>2. /\ blocked[t] = NotBlocked /\ at[t] \in {"increment", "none"}
      /\ UNCHANGED <<sched, queue, mc, blocked, held, holder, rowner>>
  BY DEF increments, decrements, At, Running, mutexvars
<1>3. refcount \in Nat /\ nest[t] \in Nat /\ refcount <= MaxNest
  BY <1>1, NestBounds DEF RTypes
<1>4. Has(t) /\ mc[t].mutex = NoMutex /\ refcount = nest[t]
  <2>1. at[t] = "increment" \/ nest[t] > 0
    BY DEF increments, decrements, At
  <2>2. at[t] = "increment" \/ nest[t] # 0
    BY SMTT(30), <1>3, <2>1
  <2> QED
    BY <1>1, <1>2, <2>2 DEF Place, Inside
<1>5. IInv'
  BY <1>1, <1>2, Untouched DEF IInv
<1>6. Has(t)'
  BY <1>2, <1>4 DEF Has
<1>7. CASE increments(t)
  <2>1. /\ at[t] = "increment" /\ Goto(t, "none")
        /\ refcount' = (refcount + 1) % Refcounts
        /\ nest' = [nest EXCEPT ![t] = nest[t] + 1]
    BY <1>7 DEF increments, At
  <2>2. nest[t] < MaxNest /\ rowner = t
    BY <1>1, <2>1 DEF Place
  <2>3. refcount' = refcount + 1
    BY <1>3, <1>4, <2>1, <2>2, NestBounds
  <2>4. at'[t] = "none" /\ nest'[t] = nest[t] + 1 /\ nest'[t] # 0 /\ refcount' = nest'[t]
    BY <1>1, <1>3, <1>4, <2>1, <2>3 DEF RTypes, Goto
  <2>5. RTypes' /\ \A x \in Threads \ {t} : nest'[x] = nest[x]
    <3>1. refcount' \in 0 .. MaxNest /\ nest[t] + 1 \in 0 .. MaxNest
      BY <1>3, <1>4, <2>2, <2>3, NestBounds
    <3> QED
      BY <1>1, <1>2, <2>1, <3>1 DEF RTypes, Goto, Labels
  <2>6. Place(t)'
    BY <1>2, <1>6, <2>2, <2>4 DEF Place, LockFns
  <2>7. Inside(t)'
    BY <1>2, <1>4 DEF Inside
  <2> QED
    BY <1>2, <1>4, <1>5, <2>1, <2>5, <2>6, <2>7, OwnStep DEF Labels
<1>8. CASE decrements(t)
  <2> DEFINE l == IF refcount' = 0 THEN "reset owner" ELSE "none"
  <2>1. /\ at[t] = "none" /\ Goto(t, l) /\ nest[t] > 0
        /\ refcount' = (refcount - 1) % Refcounts
        /\ nest' = [nest EXCEPT ![t] = nest[t] - 1]
    BY <1>8 DEF decrements, At
  <2>2. l \in Labels /\ (refcount' = 0 => l = "reset owner") /\ (refcount' # 0 => l = "none")
    BY DEF Labels
  <2> HIDE DEF l
  <2>3. rowner = t
    BY SMTT(30), <1>1, <1>3, <2>1 DEF Place
  <2>4. refcount' = refcount - 1
    BY <1>3, <1>4, <2>1, NestBounds
  <2>5. at'[t] = l /\ nest'[t] = nest[t] - 1 /\ refcount' = nest'[t]
    BY <1>1, <1>3, <1>4, <2>1, <2>4 DEF RTypes, Goto
  <2>6. RTypes' /\ \A x \in Threads \ {t} : nest'[x] = nest[x]
    <3>1. refcount' \in 0 .. MaxNest /\ nest[t] - 1 \in 0 .. MaxNest
      BY <1>3, <1>4, <2>1, <2>4, NestBounds
    <3> QED
      BY <1>1, <1>2, <2>1, <2>2, <3>1 DEF RTypes, Goto
  <2>7. Place(t)'
    <3>1. CASE refcount' = 0
      BY <1>2, <1>6, <2>2, <2>3, <2>5, <3>1 DEF Place, LockFns
    <3>2. CASE refcount' # 0
      BY <1>2, <1>6, <2>2, <2>3, <2>5, <3>2 DEF Place, LockFns
    <3> QED
      BY <3>1, <3>2
  <2>8. Inside(t)'
    BY <1>2, <1>4 DEF Inside
  <2> QED
    BY <1>2, <1>4, <1>5, <2>1, <2>2, <2>6, <2>7, <2>8, OwnStep
<1> QED
  BY <1>7, <1>8

\* mutex_unlock() by the thread that has the mutex and has reset the owner.
LEMMA RUnlockKeeps ==
    ASSUME ~PriorityInheritance, RInv, NEW t \in Threads, unlocks_mutex(t)
    PROVE  RInv'
<1>1. /\ IInv /\ RTypes /\ Place(t) /\ Inside(t)
  BY DEF RInv
<1>2. /\ blocked[t] = NotBlocked /\ at[t] = "mutex_unlock" /\ mutex_unlock(t, M)
      /\ Goto(t, "none") /\ UNCHANGED <<mc, blocked, rowner, refcount, nest>>
      /\ held' = {h \in held : h[2] # M}
  BY DEF unlocks_mutex, At, Running, mutex_unlock, unlock_section
<1>3. IInv'
  BY <1>1, <1>2, ThreadUnlockKeeps, RMutexAssumption
<1>4. Has(t) /\ refcount = 0 /\ nest[t] = 0 /\ rowner # t /\ mc[t].mutex = NoMutex
  BY <1>1, <1>2 DEF Place, Inside
<1>5. \A x \in Threads : ~Has(x)'
  BY <1>2 DEF Has
<1>6. at'[t] = "none" /\ RTypes' /\ \A x \in Threads \ {t} : at'[x] = at[x]
  BY <1>1, <1>2 DEF RTypes, Goto, Labels
<1>7. Place(t)'
  BY <1>2, <1>4, <1>5, <1>6 DEF Place, LockFns
<1>8. Inside(t)'
  BY <1>2, <1>4 DEF Inside
<1>9. ASSUME NEW x \in Threads \ {t} PROVE Place(x)' /\ Inside(x)'
  <2>1. Place(x) /\ Inside(x) /\ ~Has(x)
    BY <1>4, HolderAlone DEF RInv
  <2> QED
    BY <1>2, <1>5, <1>6, <2>1, OtherPlace
<1>10. NobodyCounts'
  BY <1>2, <1>4 DEF NobodyCounts
<1> QED
  BY <1>3, <1>6, <1>7, <1>8, <1>9, <1>10 DEF RInv

-----------------------------------------------------------------------------
(* The theorems *)

\* Steps of the kernel and of handlers, and thread_sleep().
LEMMA ROthersKeep ==
    ASSUME RInv, NEW t \in Threads,
           \/ Kernel /\ UNCHANGED rvars
           \/ Wakeup(t) /\ UNCHANGED rvars
           \/ RSleep(t)
           \/ TimerExpires(t)
    PROVE  RInv'
<1>1. IInv /\ MutexTypes
  BY DEF RInv, IInv
<1>2. CASE (Kernel \/ Wakeup(t)) /\ UNCHANGED rvars
  <2>1. IInv'
    BY <1>1, <1>2, KernelKeeps, OthersKeep
  <2>2. UNCHANGED <<rvars, held, blocked, mc>>
    BY <1>2 DEF Kernel, Wakeup, hvars
  <2> QED
    BY <2>1, <2>2, RUntouched
<1>3. CASE RSleep(t)
  <2>1. UNCHANGED <<rvars, held, blocked, mc>> /\ Sleep(t)
    BY <1>3 DEF RSleep, At, Sleep, hvars
  <2>2. IInv'
    BY <1>1, <2>1, OthersKeep
  <2> QED
    BY <2>1, <2>2, RUntouched
<1>4. CASE TimerExpires(t)
  <2>1. IsrCancel(t) /\ UNCHANGED rvars
    BY <1>4 DEF TimerExpires
  <2>2. IInv'
    BY <1>1, <2>1, MutexCancelKeeps
  <2>3. held' = held /\ blocked' = blocked /\ mc' = [mc EXCEPT ![t].cancelled = TRUE]
    BY <2>1 DEF IsrCancel, cancel
  <2>4. \A x \in Threads : mc'[x].mutex = mc[x].mutex
    BY <1>1, <2>3 DEF MutexTypes
  <2> QED
    BY <2>1, <2>2, <2>3, <2>4, RUntouched
<1> QED
  BY <1>2, <1>3, <1>4

\* The invariant holds when the application starts.
LEMMA RInitInv == RInit => RInv
<1> SUFFICES ASSUME RInit PROVE RInv
  OBVIOUS
<1>1. IInv
  BY InitInv DEF RInit
<1>2. /\ rowner = NoThread /\ refcount = 0 /\ held = {}
      /\ \A t \in Threads : /\ at[t] = "none" /\ nest[t] = 0
                            /\ blocked[t] = NotBlocked /\ mc[t] = NoCancel
  BY DEF RInit, Init
<1>3. RTypes
  BY <1>2, NestBounds DEF RInit, RTypes, Labels
<1>4. NobodyCounts
  BY <1>2 DEF NobodyCounts
<1>5. ASSUME NEW t \in Threads PROVE Place(t) /\ Inside(t)
  <2>1. ~Has(t) /\ rowner # t
    BY <1>2, SchedAssumption DEF Has
  <2>2. Place(t)
    BY <1>2, <2>1 DEF Place, LockFns
  <2>3. NoCancel.mutex = NoMutex
    BY DEF NoCancel
  <2>4. Inside(t)
    BY <1>2, <2>3 DEF Inside
  <2> QED
    BY <2>2, <2>4
<1> QED
  BY <1>1, <1>3, <1>4, <1>5 DEF RInv

\* Every step keeps the invariant.
LEMMA RNextInv ==
    ASSUME ~PriorityInheritance
    PROVE  RInv /\ [RNext]_allvars => RInv'
<1> SUFFICES ASSUME RInv, [RNext]_allvars PROVE RInv'
  OBVIOUS
<1>1. CASE UNCHANGED allvars
  <2>1. UNCHANGED <<sched, queue, mc, blocked, held, holder>> /\ UNCHANGED rvars
    BY <1>1 DEF allvars, rvars
  <2>2. IInv'
    BY <2>1, Untouched DEF RInv, IInv
  <2> QED
    BY <2>1, <2>2, RUntouched
<1>2. CASE Kernel /\ UNCHANGED rvars
  <2>1. PICK t \in Threads : TRUE
    BY KernelAssumption
  <2> QED
    BY <1>2, <2>1, ROthersKeep
<1>3. ASSUME NEW t \in Threads, Proceeds(t) PROVE RInv'
  <2>1. CASE lock_returns(t) /\ UNCHANGED rvars
    BY <2>1, ComesBackKeeps
  <2>2. CASE loads_owner(t) \/ locks_mutex(t)
    BY <2>2, LoadKeeps, LocksKeeps
  <2>3. CASE timed_lock_tries(t) \/ timed_lock_locks(t) \/ timed_lock_returns(t)
    BY <2>3, TimedTryKeeps, TimedLockKeeps, TimedReturnKeeps
  <2>4. CASE stores_owner(t) \/ increments(t) \/ resets_owner(t)
    BY <2>4, StoreKeeps, CountKeeps
  <2>5. CASE unlocks_mutex(t)
    BY <2>5, RUnlockKeeps
  <2> QED
    BY <1>3, <2>1, <2>2, <2>3, <2>4, <2>5 DEF Proceeds
<1>4. ASSUME NEW t \in Threads, NEW fn \in LockFns, lock_tries(t, fn) PROVE RInv'
  BY <1>4, TryKeeps
<1>5. ASSUME NEW t \in Threads, decrements(t) PROVE RInv'
  BY <1>5, CountKeeps
<1>6. ASSUME NEW t \in Threads,
             RSleep(t) \/ TimerExpires(t) \/ (Wakeup(t) /\ UNCHANGED rvars)
      PROVE  RInv'
  BY <1>6, ROthersKeep
<1> QED
  BY <1>1, <1>2, <1>3, <1>4, <1>5, <1>6 DEF RNext

\* The inductive invariant holds in every state.
THEOREM RInductive ==
    ASSUME ~PriorityInheritance
    PROVE  RSpec => []RInv
<1>1. RInit => RInv
  BY RInitInv
<1>2. RInv /\ [RNext]_allvars => RInv'
  BY RNextInv
<1> QED
  BY <1>1, <1>2, PTL DEF RSpec

\* Two threads are never both inside the recursive mutex, however deep their
\* locks nest and whenever a timer cancels a timed lock: _lock() takes the
\* mutex before it counts, and rmutex_unlock() counts down before it unlocks.
THEOREM RExclusion ==
    ASSUME ~PriorityInheritance
    PROVE  RSpec => []OneInside
<1>1. RInv => OneInside
  <2> SUFFICES ASSUME RInv, NEW t \in Threads, nest[t] > 0
               PROVE  holder[M] = t /\ \A u \in Threads \ {t} : nest[u] = 0
    BY DEF OneInside
  <2>1. nest[t] # 0 /\ \A x \in Threads : Place(x)
    BY DEF RInv, RTypes
  <2>2. Has(t)
    BY <2>1 DEF Place
  <2> QED
    BY <2>1, <2>2, HolderAlone DEF Place
<1> QED
  BY <1>1, RInductive, PTL

\* The assertions of rmutex_unlock() hold whenever a thread that is inside
\* may call it, and the count it reads is the number of its locks.
THEOREM AssertionsHold ==
    ASSUME ~PriorityInheritance
    PROVE  RSpec => []UnlockAssertions
<1>1. RInv => UnlockAssertions
  <2> SUFFICES ASSUME RInv, NEW t \in Threads, At(t, "none"), nest[t] > 0
               PROVE  rowner = t /\ refcount > 0 /\ refcount = nest[t]
    BY DEF UnlockAssertions
  <2>1. nest[t] # 0 /\ Place(t) /\ at[t] = "none"
    BY DEF RInv, RTypes, At
  <2> QED
    BY <2>1 DEF Place
<1> QED
  BY <1>1, RInductive, PTL

\* The unlocked read of the owner in _lock() finds the caller exactly when a
\* lock call of the caller has the mutex, whatever the other threads store
\* meanwhile.
THEOREM OwnerReads ==
    ASSUME ~PriorityInheritance
    PROVE  RSpec => []OwnerReadIsSound
<1>1. RInv => OwnerReadIsSound
  <2> SUFFICES ASSUME RInv, NEW t \in Threads, at[t] \in LockFns
               PROVE  rowner = t <=> Has(t)
    BY DEF OwnerReadIsSound, Has
  <2>1. Place(t)
    BY DEF RInv
  <2> QED
    BY <2>1 DEF Place, LockFns
<1> QED
  BY <1>1, RInductive, PTL
=============================================================================
