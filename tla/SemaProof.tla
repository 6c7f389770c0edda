----------------------------- MODULE SemaProof -----------------------------
(***************************************************************************)
(* Theorems about Sema without priority inheritance, for every set of      *)
(* threads, every range of the value and whichever threads wait with a     *)
(* timeout: no post is lost, and a destroyed semaphore releases everybody. *)
(*                                                                         *)
(* The value and the mutex are updated one after the other.  What holds    *)
(* them together is not that the mutex is locked exactly while the value   *)
(* is zero, which is false between the two, but that whoever may have to   *)
(* unlock it is on its way: while the mutex is locked and the value is     *)
(* positive some thread carries the duty to pass it on (Carries), and      *)
(* likewise after sema_destroy() (PassesOn).                               *)
(***************************************************************************)
EXTENDS Sema, MutexProof

Labels == {"none", "test", "lock", "set timer", "lock cancelable", "locked", "unlock"}

\* Each variable of the semaphore has its type.
STypes ==
    /\ value \in Nat
    /\ state \in {"none", "SEMA_OK", "SEMA_DESTROY"}
    /\ wait \in [Threads -> [at : Labels, block : BOOLEAN,
                             did_block : BOOLEAN, timer : BOOLEAN]]

\* What the statement t is at says about its variables and its lock call.
Place(t) ==
    /\ wait[t].at \in {"lock", "set timer", "lock cancelable", "locked"}
           => wait[t].did_block
    /\ wait[t].block => wait[t].did_block
    /\ wait[t].at \in {"set timer", "lock cancelable"} => t \in Timed
    /\ blocked[t] # NotBlocked =>
           /\ blocked[t].mutex = M
           /\ wait[t].at = IF t \in Timed THEN "lock cancelable" ELSE "locked"
    /\ t \in Waiting => blocked[t] # NotBlocked
    /\ mc[t].mutex \in IF t \in Timed THEN {M, NoMutex} ELSE {NoMutex}

\* u is on its way to unlock the mutex, or to test the value and then unlock it.
Carries(u) ==
    \/ wait[u].at = "unlock"
    \/ wait[u].did_block /\ (ComesBack(u) \/ wait[u].at = "test")

\* u is on its way to unlock the mutex once it has tested the state.
PassesOn(u) == wait[u].at = "unlock" \/ ComesBack(u)

Posted == value > 0 /\ queue[M] # NULL => \E u \in Threads : Carries(u)

Destroyed == state = "SEMA_DESTROY" /\ queue[M] # NULL => \E u \in Threads : PassesOn(u)

\* The inductive invariant.
SInv ==
    /\ IInv
    /\ STypes
    /\ \A t \in Threads : Place(t)
    /\ Posted
    /\ Destroyed

-----------------------------------------------------------------------------
(* Facts about one state *)

\* The mutex of the semaphore is one that handlers unlock.
LEMMA TheMutex == M \in Signals /\ M \in Mutexes /\ M # NoMutex
  BY SemaAssumption, MutexAssumption

\* The threads that are blocked are in the queue of the mutex.
LEMMA WaitingInQueue ==
    ASSUME SInv, Waiting # {}
    PROVE  HasWaiters(M) /\ queue[M] # NULL
<1>1. PICK t \in Threads : sched.status[t] = "MUTEX_BLOCKED"
  BY DEF Waiting
<1>2. blocked[t].mutex = M
  BY <1>1 DEF SInv, Place, Waiting
<1>3. t \in Waiters(M)
  BY <1>1, <1>2, TheMutex DEF SInv, IInv, QueueExact
<1> QED
  BY <1>3 DEF Waiters, HasWaiters

\* A thread inside a function of the semaphore and not inside a lock call.
LEMMA AtLabel ==
    ASSUME SInv, NEW t \in Threads, NEW l, At(t, l)
    PROVE  /\ Running(t) /\ blocked[t] = NotBlocked /\ wait[t].at = l
           /\ t \notin Waiting /\ Place(t)
           /\ sched.status[t] = "RUNNING"
<1>1. Running(t) /\ wait[t].at = l /\ SchedInv(sched) /\ Place(t)
  BY DEF At, SInv, IInv
<1>2. blocked[t] = NotBlocked /\ sched.status[t] = "RUNNING"
  BY <1>1, RunningThread
<1> QED
  BY <1>1, <1>2 DEF Waiting

-----------------------------------------------------------------------------
(* The shape of a step *)

Records == [at : Labels, block : BOOLEAN, did_block : BOOLEAN, timer : BOOLEAN]

\* t goes on to the statement l.
LEMMA GotoIs ==
    ASSUME STypes, NEW t \in Threads, NEW l \in Labels, Goto(t, l)
    PROVE  /\ wait' \in [Threads -> Records]
           /\ wait'[t].at = l
           /\ wait'[t].did_block = wait[t].did_block /\ wait'[t].block = wait[t].block
           /\ \A x \in Threads \ {t} : wait'[x] = wait[x]
<1>1. wait \in [Threads -> Records] /\ wait' = [wait EXCEPT ![t].at = l]
  BY DEF STypes, Records, Goto
<1>2. wait'[t] = [wait[t] EXCEPT !.at = l] /\ \A x \in Threads \ {t} : wait'[x] = wait[x]
  BY <1>1
<1>3. [wait[t] EXCEPT !.at = l] \in Records
  BY <1>1 DEF Records
<1>4. wait' \in [Threads -> Records]
  BY <1>1, <1>3
<1> QED
  BY <1>1, <1>2, <1>4 DEF Records

\* t returns.
LEMMA ReturnsIs ==
    ASSUME STypes, NEW t \in Threads, Returns(t)
    PROVE  /\ wait' \in [Threads -> Records]
           /\ wait'[t].at = "none" /\ ~wait'[t].block
           /\ \A x \in Threads \ {t} : wait'[x] = wait[x]
<1>1. Outside \in Records
  BY DEF Outside, Records, Labels
<1> QED
  BY <1>1 DEF STypes, Records, Returns, Outside

\* A thread that a step leaves alone.
LEMMA OtherPlace ==
    ASSUME NEW x \in Threads, Place(x), wait'[x] = wait[x], blocked'[x] = blocked[x],
           mc'[x].mutex = mc[x].mutex, x \in Waiting' => x \in Waiting
    PROVE  /\ Place(x)'
           /\ Carries(x) => Carries(x)'
           /\ PassesOn(x) => PassesOn(x)'
<1>1. Place(x)'
  BY DEF Place
<1>2. Carries(x) => Carries(x)'
  BY DEF Carries, ComesBack
<1>3. PassesOn(x) => PassesOn(x)'
  BY DEF PassesOn, ComesBack
<1> QED
  BY <1>1, <1>2, <1>3

\* A step of t: the others stay where they are or are woken, and the duty to
\* unlock the mutex is still somebody's.
LEMMA StepKeeps ==
    ASSUME SInv, IInv', STypes', NEW t \in Threads, Place(t)',
           \A x \in Threads \ {t} : /\ wait'[x] = wait[x]
                                    /\ blocked'[x] = blocked[x]
                                    /\ mc'[x].mutex = mc[x].mutex
                                    /\ x \in Waiting' => x \in Waiting,
           value' > 0 /\ queue'[M] # NULL =>
               \/ \E u \in Threads : Carries(u)'
               \/ value > 0 /\ queue[M] # NULL /\ (Carries(t) => Carries(t)'),
           state' = "SEMA_DESTROY" /\ queue'[M] # NULL =>
               \/ \E u \in Threads : PassesOn(u)'
               \/ /\ state = "SEMA_DESTROY" /\ queue[M] # NULL
                  /\ PassesOn(t) => PassesOn(t)'
    PROVE  SInv'
<1>1. \A x \in Threads : Place(x)
  BY DEF SInv
<1>2. \A x \in Threads \ {t} : /\ Place(x)'
                               /\ Carries(x) => Carries(x)'
                               /\ PassesOn(x) => PassesOn(x)'
  BY <1>1, OtherPlace
<1>3. Posted'
  BY <1>2 DEF SInv, Posted
<1>4. Destroyed'
  BY <1>2 DEF SInv, Destroyed
<1> QED
  BY <1>2, <1>3, <1>4 DEF SInv

\* The first waiter is woken: it has the duty now.
LEMMA FirstCarries ==
    ASSUME SInv, HasWaiters(M), blocked' = blocked, sched'.status = Woken(M),
           \A x \in Threads : blocked[x] # NotBlocked => wait'[x] = wait[x]
    PROVE  \E u \in Threads : Carries(u)' /\ PassesOn(u)'
<1>1. PICK u \in Threads : /\ u = Head(queue[M]) /\ blocked[u].mutex = M
                          /\ sched.status[u] = "MUTEX_BLOCKED"
  BY FirstWaiter, TheMutex DEF SInv
<1>2. blocked[u] # NotBlocked /\ Place(u)
  BY <1>1, TheMutex DEF SInv, NotBlocked
<1>3. wait[u].did_block /\ wait'[u] = wait[u]
  BY <1>1, <1>2 DEF Place
<1>4. u \notin Waiting'
  BY <1>1, WokenIs, TheMutex DEF SInv, Waiting
<1>5. Carries(u)' /\ PassesOn(u)'
  BY <1>2, <1>3, <1>4 DEF Carries, PassesOn, ComesBack
<1> QED
  BY <1>1, <1>5

\* A step that moves nobody and keeps the mutex and the semaphore as they are.
LEMMA KernelLike ==
    ASSUME SInv, IInv', UNCHANGED <<value, state, wait, queue, blocked, mc>>,
           Waiting' \subseteq Waiting
    PROVE  SInv'
<1>1. STypes'
  BY DEF SInv, STypes
<1>2. PICK t \in Threads : TRUE
  BY KernelAssumption
<1>3. Place(t)' /\ (Carries(t) => Carries(t)') /\ (PassesOn(t) => PassesOn(t)')
  BY OtherPlace DEF SInv
<1> QED
  BY <1>1, <1>3, StepKeeps

-----------------------------------------------------------------------------
(* Steps that leave the mutex alone *)

LEMMA OwnStep ==
    ASSUME SInv, NEW t \in Threads, NEW l, At(t, l), UNCHANGED mutexvars, STypes',
           \A x \in Threads \ {t} : wait'[x] = wait[x],
           wait'[t].at \in {"lock", "set timer", "lock cancelable", "locked"}
               \/ wait'[t].block => wait'[t].did_block,
           wait'[t].at \in {"set timer", "lock cancelable"} => t \in Timed,
           value' > 0 => Carries(t)' \/ (value > 0 /\ (Carries(t) => Carries(t)')),
           state' = "SEMA_DESTROY" =>
               \/ PassesOn(t)'
               \/ state = "SEMA_DESTROY" /\ (PassesOn(t) => PassesOn(t)')
    PROVE  SInv'
<1>1. /\ Running(t) /\ blocked[t] = NotBlocked /\ t \notin Waiting /\ Place(t)
  BY AtLabel
<1>2. UNCHANGED <<sched, queue, mc, blocked, held, holder>>
  BY DEF mutexvars
<1>3. IInv'
  BY <1>2, Untouched DEF SInv, IInv
<1>4. Waiting' = Waiting
  BY <1>2 DEF Waiting
<1>5. Place(t)'
  BY <1>1, <1>2, <1>4 DEF Place
<1> QED
  BY <1>2, <1>3, <1>4, <1>5, StepKeeps

LEMMA DestroyKeeps ==
    ASSUME SInv, NEW t \in Threads, sema_destroy(t)
    PROVE  SInv'
<1>1. /\ At(t, "none") /\ Goto(t, "unlock") /\ UNCHANGED mutexvars
      /\ state' = "SEMA_DESTROY" /\ value' = value
  BY DEF sema_destroy
<1>2. STypes /\ Place(t)
  BY DEF SInv
<1>3. /\ wait' \in [Threads -> Records] /\ wait'[t].at = "unlock"
      /\ wait'[t].did_block = wait[t].did_block /\ wait'[t].block = wait[t].block
      /\ \A x \in Threads \ {t} : wait'[x] = wait[x]
  BY <1>1, <1>2, GotoIs DEF Labels
<1>4. STypes'
  BY <1>1, <1>2, <1>3 DEF STypes, Records
<1>5. Carries(t)' /\ PassesOn(t)'
  BY <1>3 DEF Carries, PassesOn
<1> QED
  BY <1>1, <1>2, <1>3, <1>4, <1>5, OwnStep DEF Place

LEMMA PostKeeps ==
    ASSUME SInv, NEW t \in Threads, sema_post(t)
    PROVE  SInv'
<1>1. /\ At(t, "none") /\ UNCHANGED mutexvars
      /\ value' = value + 1 /\ state' = state
  BY DEF sema_post
<1>2. STypes /\ Place(t) /\ value \in Nat
  BY DEF SInv, STypes
<1>3. CASE value = 0
  <2>1. /\ wait' \in [Threads -> Records] /\ wait'[t].at = "unlock"
        /\ wait'[t].did_block = wait[t].did_block /\ wait'[t].block = wait[t].block
        /\ \A x \in Threads \ {t} : wait'[x] = wait[x]
    BY <1>2, <1>3, GotoIs DEF sema_post, Labels
  <2>2. STypes'
    BY <1>1, <1>2, <2>1 DEF STypes, Records
  <2>3. Carries(t)' /\ PassesOn(t)'
    BY <2>1 DEF Carries, PassesOn
  <2> QED
    BY <1>1, <1>2, <2>1, <2>2, <2>3, OwnStep DEF Place
<1>4. CASE value # 0
  <2>1. wait' = wait /\ sched' = sched /\ blocked' = blocked
    BY <1>1, <1>4 DEF sema_post, mutexvars
  <2>2. STypes'
    BY <1>1, <1>2, <2>1 DEF STypes
  <2>3. (Carries(t) => Carries(t)') /\ (PassesOn(t) => PassesOn(t)')
    BY <2>1 DEF Carries, PassesOn, ComesBack, Waiting
  <2>4. value > 0
    BY <1>2, <1>4
  <2> QED
    BY <1>1, <1>2, <2>1, <2>2, <2>3, <2>4, OwnStep DEF Place
<1> QED
  BY <1>3, <1>4

LEMMA WaitKeeps ==
    ASSUME SInv, NEW t \in Threads, NEW b \in BOOLEAN, sema_wait(t, b)
    PROVE  SInv'
<1> DEFINE w == [at |-> "test", block |-> b, did_block |-> b, timer |-> FALSE]
<1>1. /\ At(t, "none") /\ wait' = [wait EXCEPT ![t] = w]
      /\ UNCHANGED mutexvars /\ state' = state /\ value' = value
      /\ state = "SEMA_OK"
  BY DEF sema_wait
<1>2. STypes /\ Place(t) /\ blocked[t] = NotBlocked /\ wait[t].at = "none"
  BY <1>1, AtLabel DEF SInv
<1>3. w \in Records
  BY DEF Records, Labels
<1>4. wait'[t] = w /\ \A x \in Threads \ {t} : wait'[x] = wait[x]
  BY <1>1, <1>2 DEF STypes
<1>5. STypes'
  BY <1>1, <1>2, <1>3 DEF STypes, Records
<1>6. wait'[t].at = "test" /\ wait'[t].block = wait'[t].did_block
  BY <1>4
<1>7. ~Carries(t)
  BY <1>2 DEF Carries, ComesBack
<1> HIDE DEF w
<1> QED
  BY <1>1, <1>2, <1>4, <1>5, <1>6, <1>7, OwnStep

LEMMA TestKeeps ==
    ASSUME SInv, NEW t \in Threads, wait_tests(t)
    PROVE  SInv'
<1>1. At(t, "test") /\ UNCHANGED mutexvars /\ state' = state
  BY DEF wait_tests
<1>2. /\ STypes /\ Place(t) /\ value \in Nat
      /\ blocked[t] = NotBlocked /\ wait[t].at = "test"
  BY <1>1, AtLabel DEF SInv, STypes
<1>3. ~PassesOn(t) /\ (Carries(t) <=> wait[t].did_block)
  <2>1. ~ComesBack(t)
    BY <1>2 DEF ComesBack
  <2> QED
    BY <1>2, <2>1 DEF Carries, PassesOn
<1>4. CASE value = 0 /\ wait[t].block /\ Goto(t, "lock") /\ UNCHANGED value
  <2>1. /\ wait' \in [Threads -> Records] /\ wait'[t].at = "lock"
        /\ wait'[t].did_block = wait[t].did_block
        /\ \A x \in Threads \ {t} : wait'[x] = wait[x]
    BY <1>2, <1>4, GotoIs DEF Labels
  <2>2. STypes'
    BY <1>1, <1>2, <1>4, <2>1 DEF STypes, Records
  <2>3. wait[t].did_block
    BY <1>2, <1>4 DEF Place
  <2>4. wait'[t].did_block /\ wait'[t].at \notin {"set timer", "lock cancelable"}
    BY <2>1, <2>3
  <2>5. ~(value' > 0)
    BY <1>4
  <2> QED
    BY <1>1, <1>3, <2>1, <2>2, <2>4, <2>5, OwnStep
<1>5. CASE Returns(t) /\ value' \in Nat /\ (value' > 0 => value > 0 /\ ~wait[t].did_block)
  <2>1. /\ wait' \in [Threads -> Records] /\ wait'[t].at = "none" /\ ~wait'[t].block
        /\ \A x \in Threads \ {t} : wait'[x] = wait[x]
    BY <1>2, <1>5, ReturnsIs
  <2>2. STypes'
    BY <1>1, <1>2, <1>5, <2>1 DEF STypes, Records
  <2> QED
    BY <1>1, <1>2, <1>3, <1>5, <2>1, <2>2, OwnStep
<1>6. CASE value > 0 /\ value' = value - 1 /\ Goto(t, "unlock")
  <2>1. /\ wait' \in [Threads -> Records] /\ wait'[t].at = "unlock"
        /\ wait'[t].did_block = wait[t].did_block /\ wait'[t].block = wait[t].block
        /\ \A x \in Threads \ {t} : wait'[x] = wait[x]
    BY <1>2, <1>6, GotoIs DEF Labels
  <2>2. STypes'
    BY <1>1, <1>2, <1>6, <2>1 DEF STypes, Records
  <2>3. Carries(t)' /\ PassesOn(t)'
    BY <2>1 DEF Carries, PassesOn
  <2> QED
    BY <1>1, <1>2, <2>1, <2>2, <2>3, OwnStep DEF Place
<1> QED
  BY <1>2, <1>4, <1>5, <1>6 DEF wait_tests

LEMMA LockedKeeps ==
    ASSUME SInv, NEW t \in Threads, wait_locked(t)
    PROVE  SInv'
<1> DEFINE l == IF state # "SEMA_OK" THEN "unlock" ELSE "test"
<1>1. /\ At(t, "locked") /\ Goto(t, l) /\ UNCHANGED mutexvars
      /\ state' = state /\ value' = value
  BY DEF wait_locked
<1>2. STypes /\ Place(t) /\ wait[t].at = "locked" /\ wait[t].did_block
  BY <1>1, AtLabel DEF SInv, Place
<1>3. /\ wait' \in [Threads -> Records] /\ wait'[t].at = l
      /\ wait'[t].did_block = wait[t].did_block /\ wait'[t].block = wait[t].block
      /\ \A x \in Threads \ {t} : wait'[x] = wait[x]
  BY <1>1, <1>2, GotoIs DEF Labels
<1>4. STypes'
  BY <1>1, <1>2, <1>3 DEF STypes, Records
<1>5. Carries(t)' /\ (state' = "SEMA_DESTROY" => PassesOn(t)')
  BY <1>1, <1>2, <1>3 DEF Carries, PassesOn
<1> QED
  BY <1>1, <1>2, <1>3, <1>4, <1>5, OwnStep

-----------------------------------------------------------------------------
(* The lock calls *)

\* The lock call of a timed wait is over.
LEMMA LockOverIs ==
    ASSUME STypes, NEW t \in Threads, NEW locked \in BOOLEAN, timed_lock_over(t, locked)
    PROVE  /\ wait' \in [Threads -> Records]
           /\ wait'[t].at = "locked" /\ wait'[t].did_block = wait[t].did_block
           /\ \A x \in Threads \ {t} : wait'[x] = wait[x]
<1>1. PICK expired \in BOOLEAN :
          wait' = [wait EXCEPT ![t].at = "locked",
                               ![t].timer = @ /\ ~locked,
                               ![t].block = locked /\ ~expired]
  BY DEF timed_lock_over
<1>2. wait \in [Threads -> Records]
  BY DEF STypes, Records
<1> DEFINE w == [wait[t] EXCEPT !.at = "locked", !.timer = @ /\ ~locked,
                                !.block = locked /\ ~expired]
<1>3. wait' = [wait EXCEPT ![t] = w]
  BY <1>1, <1>2
<1>4. w \in Records /\ w.at = "locked" /\ w.did_block = wait[t].did_block
  <2>1. wait[t] \in Records /\ "locked" \in Labels
    BY <1>2 DEF Labels
  <2>2. (wait[t].timer /\ ~locked) \in BOOLEAN /\ (locked /\ ~expired) \in BOOLEAN
    OBVIOUS
  <2> QED
    BY <2>1, <2>2 DEF Records
<1> HIDE DEF w
<1> QED
  BY <1>2, <1>3, <1>4

\* The lock call of t is over, one way or another: t goes on to test the state.
LEMMA ComesOut ==
    ASSUME SInv, IInv', NEW t \in Threads, UNCHANGED <<value, state>>,
           wait' \in [Threads -> Records], wait'[t].at = "locked", wait'[t].did_block,
           blocked'[t] = NotBlocked, t \notin Waiting',
           mc'[t].mutex \in {mc[t].mutex, NoMutex},
           \A x \in Threads \ {t} : /\ wait'[x] = wait[x]
                                    /\ blocked'[x] = blocked[x]
                                    /\ mc'[x].mutex = mc[x].mutex
                                    /\ x \in Waiting' => x \in Waiting
    PROVE  SInv'
<1>1. STypes'
  BY DEF SInv, STypes, Records
<1>2. Place(t)'
  <2>1. Place(t)
    BY DEF SInv
  <2> QED
    BY <2>1 DEF Place
<1>3. Carries(t)' /\ PassesOn(t)'
  BY DEF Carries, PassesOn, ComesBack
<1> QED
  BY <1>1, <1>2, <1>3, StepKeeps

\* t enters the queue of the mutex.  The duty to unlock it is somebody else's.
LEMMA GoesToWait ==
    ASSUME ~PriorityInheritance, SInv, NEW t \in Threads, NEW l, At(t, l),
           NEW fn \in {"mutex_lock", "mutex_lock_cancelable"},
           block(t, M, fn), mc' = mc, UNCHANGED <<value, state>>,
           mc[t].mutex = M => fn = "mutex_lock_cancelable",
           l \in {"lock", "lock cancelable"},
           wait' \in [Threads -> Records],
           wait'[t].at = IF t \in Timed THEN "lock cancelable" ELSE "locked",
           wait'[t].did_block = wait[t].did_block,
           \A x \in Threads \ {t} : wait'[x] = wait[x]
    PROVE  SInv'
<1>1. /\ Running(t) /\ blocked[t] = NotBlocked /\ wait[t].at = l /\ Place(t)
      /\ IInv /\ MutexTypes /\ sched.status \in [Threads -> Status]
  BY AtLabel, SchedFields DEF SInv, IInv, SchedInv
<1>2. IInv'
  BY <1>1, BlockKeeps, TheMutex
<1>3. /\ queue[M] # NULL
      /\ blocked' = [blocked EXCEPT ![t] = [mutex |-> M, fn |-> fn]]
      /\ sched'.status = [sched.status EXCEPT ![t] = "MUTEX_BLOCKED"]
  BY <1>1, BlockWaits DEF block
<1>4. /\ blocked'[t].mutex = M /\ blocked'[t] # NotBlocked
      /\ \A x \in Threads \ {t} : /\ blocked'[x] = blocked[x]
                                  /\ x \in Waiting' => x \in Waiting
  <2>1. blocked'[t].mutex = M /\ \A x \in Threads \ {t} : blocked'[x] = blocked[x]
    BY <1>1, <1>3 DEF MutexTypes
  <2>2. NotBlocked.mutex # M
    BY TheMutex DEF NotBlocked
  <2> QED
    BY <1>1, <1>3, <2>1, <2>2 DEF Waiting
<1>5. STypes'
  BY DEF SInv, STypes, Records
<1>6. wait[t].did_block
  BY <1>1 DEF Place
<1>7. Place(t)'
  BY <1>1, <1>4, <1>6 DEF Place
<1>8. ~Carries(t) /\ ~PassesOn(t)
  BY <1>1 DEF Carries, PassesOn, ComesBack
<1> QED
  BY <1>2, <1>3, <1>4, <1>5, <1>7, <1>8, StepKeeps

\* mutex_lock(), or the mutex_trylock() of ztimer_mutex_lock_timeout().
LEMMA LocksKeep ==
    ASSUME ~PriorityInheritance, SInv, NEW t \in Threads, wait_locks(t)
    PROVE  SInv'
<1>1. At(t, "lock") /\ mc' = mc /\ value' = value /\ state' = state
  BY DEF wait_locks
<1>2. /\ STypes /\ Place(t) /\ Running(t) /\ blocked[t] = NotBlocked
      /\ wait[t].at = "lock" /\ t \notin Waiting /\ IInv
  BY <1>1, AtLabel DEF SInv
<1>3. wait[t].did_block
  BY <1>2 DEF Place
<1>4. CASE acquire(t, M) /\ (Goto(t, "locked") \/ timed_lock_over(t, TRUE))
  <2>1. IInv'
    BY <1>1, <1>2, <1>4, AcquireKeeps, TheMutex
  <2>2. sched' = sched /\ blocked' = blocked
    BY <1>4 DEF acquire
  <2>3. /\ wait' \in [Threads -> Records] /\ wait'[t].at = "locked"
        /\ wait'[t].did_block = wait[t].did_block
        /\ \A x \in Threads \ {t} : wait'[x] = wait[x]
    BY <1>2, <1>4, GotoIs, LockOverIs DEF Labels
  <2>4. Waiting' = Waiting
    BY <2>2 DEF Waiting
  <2> QED
    BY <1>1, <1>2, <1>3, <2>1, <2>2, <2>3, <2>4, ComesOut
<1>5. CASE t \notin Timed /\ block(t, M, "mutex_lock") /\ Goto(t, "locked")
  <2>1. /\ wait' \in [Threads -> Records] /\ wait'[t].at = "locked"
        /\ wait'[t].did_block = wait[t].did_block
        /\ \A x \in Threads \ {t} : wait'[x] = wait[x]
    BY <1>2, <1>5, GotoIs DEF Labels
  <2>2. mc[t].mutex # M
    BY <1>2, <1>5, TheMutex DEF Place
  <2> QED
    BY <1>1, <1>5, <2>1, <2>2, GoesToWait
<1>6. CASE /\ t \in Timed /\ Goto(t, "set timer")
           /\ UNCHANGED <<sched, queue, pivars, blocked, hvars>>
  <2>1. /\ wait' \in [Threads -> Records] /\ wait'[t].at = "set timer"
        /\ wait'[t].did_block = wait[t].did_block
        /\ \A x \in Threads \ {t} : wait'[x] = wait[x]
    BY <1>2, <1>6, GotoIs DEF Labels
  <2>2. STypes'
    BY <1>1, <1>2, <2>1 DEF STypes, Records
  <2>3. UNCHANGED mutexvars
    BY <1>1, <1>6 DEF mutexvars, pivars, hvars
  <2>4. ~Carries(t) /\ ~PassesOn(t)
    BY <1>2 DEF Carries, PassesOn, ComesBack
  <2> QED
    BY <1>1, <1>3, <1>6, <2>1, <2>2, <2>3, <2>4, OwnStep
<1> QED
  BY <1>4, <1>5, <1>6 DEF wait_locks

\* mutex_cancel_init() and ztimer_set().
LEMMA SetTimerKeeps ==
    ASSUME SInv, NEW t \in Threads, wait_sets_timer(t)
    PROVE  SInv'
<1> DEFINE w == [wait[t] EXCEPT !.at = "lock cancelable", !.timer = TRUE]
<1>1. /\ At(t, "set timer")
      /\ mc' = [mc EXCEPT ![t] = [mutex |-> M, cancelled |-> FALSE]]
      /\ wait' = [wait EXCEPT ![t].at = "lock cancelable", ![t].timer = TRUE]
      /\ UNCHANGED <<sched, queue, blocked, held, holder, value, state>>
  BY DEF wait_sets_timer, hvars
<1>2. /\ STypes /\ Place(t) /\ blocked[t] = NotBlocked /\ t \in Timed
      /\ wait[t].at = "set timer" /\ wait[t].did_block /\ t \notin Waiting
      /\ IInv /\ MutexTypes
  BY <1>1, AtLabel DEF SInv, Place, IInv
<1>3. IInv'
  BY <1>1, <1>2, CancelInitKeeps, TheMutex
<1>4. wait \in [Threads -> Records]
  BY <1>2 DEF STypes, Records
<1>5. wait' = [wait EXCEPT ![t] = w]
  BY <1>1, <1>4
<1>6. w \in Records /\ w.at = "lock cancelable" /\ w.did_block = wait[t].did_block
  BY <1>4 DEF Records, Labels
<1> HIDE DEF w
<1>7. wait'[t] = w /\ \A x \in Threads \ {t} : wait'[x] = wait[x]
  BY <1>4, <1>5
<1>8. STypes'
  BY ZenonT(30), <1>1, <1>2, <1>4, <1>5, <1>6 DEF STypes, Records
<1>9. mc'[t].mutex = M /\ \A x \in Threads \ {t} : mc'[x] = mc[x]
  BY <1>1, <1>2 DEF MutexTypes
<1>10. Waiting' = Waiting
  BY <1>1 DEF Waiting
<1>11. Place(t)'
  <2>1. wait'[t].did_block /\ blocked'[t] = NotBlocked /\ t \notin Waiting'
    BY <1>1, <1>2, <1>6, <1>7, <1>10
  <2> QED
    BY <1>2, <1>9, <2>1 DEF Place
<1>12. ~Carries(t) /\ ~PassesOn(t)
  BY <1>2 DEF Carries, PassesOn, ComesBack
<1> QED
  BY <1>1, <1>3, <1>7, <1>8, <1>9, <1>10, <1>11, <1>12, StepKeeps

\* mutex_lock_cancelable() finds that it was cancelled, takes the mutex, or
\* waits.
LEMMA CancelableKeeps ==
    ASSUME ~PriorityInheritance, SInv, NEW t \in Threads, wait_locks_cancelable(t)
    PROVE  SInv'
<1>1. /\ At(t, "lock cancelable") /\ mutex_lock_cancelable(t)
      /\ value' = value /\ state' = state
      /\ IF blocked'[t] # NotBlocked THEN wait' = wait
         ELSE timed_lock_over(t, ~mc[t].cancelled)
  BY DEF wait_locks_cancelable
<1>2. /\ STypes /\ Place(t) /\ Running(t) /\ blocked[t] = NotBlocked /\ t \in Timed
      /\ wait[t].at = "lock cancelable" /\ t \notin Waiting /\ wait[t].did_block
      /\ IInv /\ MutexTypes
  BY <1>1, AtLabel DEF SInv, Place, IInv
<1>3. mc[t].mutex = M
  <2>1. mc[t].mutex # NoMutex
    BY <1>1, <1>2 DEF mutex_lock_cancelable, MutexTypes
  <2> QED
    BY <1>2, <2>1 DEF Place
<1>4. IInv'
  BY <1>1, <1>2, LockKeeps
<1>5. CASE block(t, M, "mutex_lock_cancelable") /\ mc' = mc
  <2>1. blocked'[t] # NotBlocked
    <3>1. blocked' = [blocked EXCEPT ![t] = [mutex |-> M, fn |-> "mutex_lock_cancelable"]]
      BY <1>5 DEF block
    <3>2. blocked'[t].mutex = M
      BY <1>2, <3>1 DEF MutexTypes
    <3> QED
      BY <3>2, TheMutex DEF NotBlocked
  <2>2. wait' = wait /\ wait \in [Threads -> Records]
    BY <1>1, <1>2, <2>1 DEF STypes, Records
  <2> QED
    BY <1>1, <1>2, <1>5, <2>2, GoesToWait
<1>6. CASE /\ sched' = sched /\ blocked' = blocked
           /\ mc' = [mc EXCEPT ![t] = NoCancel]
  <2>1. /\ mc'[t].mutex = NoMutex /\ \A x \in Threads \ {t} : mc'[x] = mc[x]
        /\ mc[t].cancelled \in BOOLEAN
    BY <1>2, <1>6 DEF MutexTypes, NoCancel
  <2>2. /\ wait' \in [Threads -> Records] /\ wait'[t].at = "locked"
        /\ wait'[t].did_block = wait[t].did_block
        /\ \A x \in Threads \ {t} : wait'[x] = wait[x]
    <3>1. timed_lock_over(t, ~mc[t].cancelled) /\ (~mc[t].cancelled) \in BOOLEAN
      BY <1>1, <1>2, <1>6
    <3> QED
      BY <1>2, <3>1, LockOverIs
  <2>3. Waiting' = Waiting
    BY <1>6 DEF Waiting
  <2> QED
    BY <1>1, <1>2, <1>4, <1>6, <2>1, <2>2, <2>3, ComesOut
<1>7. \/ block(t, M, "mutex_lock_cancelable") /\ mc' = mc
      \/ sched' = sched /\ blocked' = blocked /\ mc' = [mc EXCEPT ![t] = NoCancel]
  BY <1>1, <1>3 DEF mutex_lock_cancelable, acquire
<1> QED
  BY <1>5, <1>6, <1>7

\* A thread that had to wait has the mutex, or was cancelled.
LEMMA LockReturnKeeps ==
    ASSUME SInv, NEW t \in Threads, wait_lock_returns(t)
    PROVE  SInv'
<1>1. /\ lock_returns(t) /\ value' = value /\ state' = state
      /\ IF t \in Timed THEN timed_lock_over(t, ~mc[t].cancelled) ELSE wait' = wait
  BY DEF wait_lock_returns
<1>2. /\ STypes /\ Place(t) /\ IInv /\ MutexTypes /\ SchedInv(sched)
  BY DEF SInv, IInv
<1>3. /\ Executing(t) /\ blocked[t] # NotBlocked /\ sched' = sched
      /\ blocked' = [blocked EXCEPT ![t] = NotBlocked]
      /\ mc' \in {mc, [mc EXCEPT ![t] = NoCancel]}
  BY <1>1 DEF lock_returns
<1>4. IInv'
  BY <1>1, <1>2, ReturnKeeps
<1>5. /\ blocked'[t] = NotBlocked
      /\ \A x \in Threads \ {t} : blocked'[x] = blocked[x] /\ mc'[x].mutex = mc[x].mutex
      /\ mc'[t].mutex \in {mc[t].mutex, NoMutex} /\ mc[t].cancelled \in BOOLEAN
  BY <1>2, <1>3 DEF MutexTypes, NoCancel
<1>6. Waiting' = Waiting /\ t \notin Waiting
  BY <1>2, <1>3, ExecutingHead DEF Waiting
<1>7. wait[t].did_block /\ (t \notin Timed => wait[t].at = "locked")
  BY <1>2, <1>3 DEF Place
<1>8. /\ wait' \in [Threads -> Records] /\ wait'[t].at = "locked"
      /\ wait'[t].did_block = wait[t].did_block
      /\ \A x \in Threads \ {t} : wait'[x] = wait[x]
  <2>1. CASE t \in Timed
    <3>1. timed_lock_over(t, ~mc[t].cancelled) /\ (~mc[t].cancelled) \in BOOLEAN
      BY <1>1, <1>5, <2>1
    <3> QED
      BY <1>2, <3>1, LockOverIs
  <2>2. CASE t \notin Timed
    BY <1>1, <1>2, <1>7, <2>2 DEF STypes, Records
  <2> QED
    BY <2>1, <2>2
<1> QED
  BY <1>1, <1>4, <1>5, <1>6, <1>7, <1>8, ComesOut

\* The timer takes the thread out of the queue, or comes too late.
LEMMA ExpireKeeps ==
    ASSUME SInv, NEW t \in Threads, TimerExpires(t)
    PROVE  SInv'
<1> DEFINE w == [wait[t] EXCEPT !.timer = FALSE]
<1>1. /\ IsrCancel(t) /\ cancel(t) /\ mc[t] # NoCancel
      /\ mc' = [mc EXCEPT ![t].cancelled = TRUE] /\ blocked' = blocked
      /\ wait' = [wait EXCEPT ![t].timer = FALSE]
      /\ value' = value /\ state' = state
  BY DEF TimerExpires, IsrCancel, cancel
<1>2. /\ STypes /\ Place(t) /\ IInv /\ MutexTypes
      /\ sched.status \in [Threads -> Status]
  BY SchedFields DEF SInv, IInv, SchedInv
<1>3. IInv'
  BY <1>1, <1>2, MutexCancelKeeps
<1>4. \A x \in Threads : x \in Waiting' => x \in Waiting
  <2>1. sched'.status = IF CancelDequeues(t)
                        THEN [sched.status EXCEPT ![t] = "PENDING"]
                        ELSE sched.status
    BY <1>1, <1>2, CancelWakes
  <2> QED
    BY <1>2, <2>1 DEF Waiting
<1>5. \A x \in Threads : mc'[x].mutex = mc[x].mutex
  BY <1>1, <1>2 DEF MutexTypes
<1>6. queue'[M] # NULL => queue[M] # NULL
  <2>1. mc[t].mutex = M
    BY <1>1, <1>2 DEF Place, MutexTypes
  <2>2. CASE CancelDequeues(t)
    BY <2>1, <2>2 DEF CancelDequeues, Waiters, HasWaiters
  <2>3. CASE ~CancelDequeues(t)
    BY <1>1, <2>3 DEF cancel
  <2> QED
    BY <2>2, <2>3
<1>7. wait \in [Threads -> Records]
  BY <1>2 DEF STypes, Records
<1>8. /\ wait' = [wait EXCEPT ![t] = w] /\ w \in Records
      /\ w.at = wait[t].at /\ w.did_block = wait[t].did_block /\ w.block = wait[t].block
  BY <1>1, <1>7 DEF Records
<1> HIDE DEF w
<1>9. wait'[t] = w /\ \A x \in Threads \ {t} : wait'[x] = wait[x]
  BY <1>7, <1>8
<1>10. STypes'
  BY <1>1, <1>2, <1>7, <1>8 DEF STypes, Records
<1>11. Place(t)'
  BY <1>1, <1>2, <1>4, <1>5, <1>8, <1>9 DEF Place
<1>12. (Carries(t) => Carries(t)') /\ (PassesOn(t) => PassesOn(t)')
  BY <1>1, <1>4, <1>8, <1>9 DEF Carries, PassesOn, ComesBack
<1> QED
  BY <1>1, <1>3, <1>4, <1>5, <1>6, <1>9, <1>10, <1>11, <1>12, StepKeeps

-----------------------------------------------------------------------------
(* Unlocking, and a new semaphore *)

\* mutex_unlock() hands the mutex, and the duty to unlock it, to the first
\* waiter; without waiters the mutex is unlocked.
LEMMA UnlocksKeep ==
    ASSUME ~PriorityInheritance, SInv, NEW t \in Threads, unlocks(t)
    PROVE  SInv'
<1>1. /\ At(t, "unlock") /\ unlock_section(t, M) /\ Returns(t)
      /\ value' = value /\ state' = state
      /\ unlock_queue(M) /\ mc' = mc /\ blocked' = blocked /\ held' \in SUBSET held
  BY DEF unlocks, unlock_section
<1>2. /\ STypes /\ Place(t) /\ Running(t) /\ blocked[t] = NotBlocked
      /\ t \notin Waiting /\ IInv
  BY <1>1, AtLabel DEF SInv
<1>3. SchedInv(sched') /\ sched'.status = Woken(M)
  BY <1>1, <1>2, UnlockWakes, TheMutex
<1>4. IInv'
  BY <1>1, <1>2, <1>3, WokenIs, UnlockKeeps, TheMutex
<1>5. \A x \in Threads : x \in Waiting' => x \in Waiting
  BY <1>2, <1>3, WokenIs, TheMutex DEF Waiting
<1>6. /\ wait' \in [Threads -> Records] /\ wait'[t].at = "none" /\ ~wait'[t].block
      /\ \A x \in Threads \ {t} : wait'[x] = wait[x]
  BY <1>1, <1>2, ReturnsIs
<1>7. STypes'
  BY <1>1, <1>2, <1>6 DEF STypes, Records
<1>8. Place(t)'
  BY <1>1, <1>2, <1>5, <1>6 DEF Place
<1>9. queue'[M] # NULL => \E u \in Threads : Carries(u)' /\ PassesOn(u)'
  <2>1. CASE HasWaiters(M)
    BY <1>1, <1>2, <1>3, <1>6, <2>1, FirstCarries
  <2>2. CASE ~HasWaiters(M)
    BY <1>1, <1>2, <2>2, TheMutex DEF unlock_queue, IInv, MutexTypes
  <2> QED
    BY <2>1, <2>2
<1> QED
  BY <1>1, <1>4, <1>5, <1>6, <1>7, <1>8, <1>9, StepKeeps

LEMMA IsrPostKeeps ==
    ASSUME ~PriorityInheritance, SInv, IsrPost
    PROVE  SInv'
<1>1. value' = value + 1 /\ state' = state /\ wait' = wait
  BY DEF IsrPost
<1>2. STypes /\ IInv /\ value \in Nat /\ MutexTypes
  BY DEF SInv, STypes, IInv
<1>3. STypes'
  BY <1>1, <1>2 DEF STypes
<1>4. PICK t \in Threads : TRUE
  BY KernelAssumption
<1>5. CASE value = 0 /\ queue[M] # NULL
  <2>1. IsrUnlock(M)
    BY <1>5 DEF IsrPost
  <2>2. unlock_queue(M) /\ mc' = mc /\ blocked' = blocked
    BY <2>1 DEF IsrUnlock
  <2>3. IInv' /\ sched'.status = Woken(M)
    BY <1>2, <2>1, IsrUnlockKeeps, IsrUnlockWakes, TheMutex
  <2>4. \A x \in Threads : x \in Waiting' => x \in Waiting
    BY <1>2, <2>3, WokenIs, TheMutex DEF Waiting
  <2>5. queue'[M] # NULL => \E u \in Threads : Carries(u)' /\ PassesOn(u)'
    <3>1. CASE HasWaiters(M)
      BY <1>1, <2>2, <2>3, <3>1, FirstCarries
    <3>2. CASE ~HasWaiters(M)
      BY <1>2, <2>2, <3>2, TheMutex DEF unlock_queue, MutexTypes
    <3> QED
      BY <3>1, <3>2
  <2>6. Place(t)'
    BY <1>1, <2>2, <2>4, OtherPlace DEF SInv
  <2> QED
    BY <1>1, <1>3, <2>2, <2>3, <2>4, <2>5, <2>6, StepKeeps
<1>6. CASE ~(value = 0 /\ queue[M] # NULL)
  <2>1. UNCHANGED <<sched, queue, mc, blocked, held, holder>>
    BY <1>6 DEF IsrPost, mutexvars
  <2>2. IInv'
    BY <1>2, <2>1, Untouched DEF IInv
  <2>3. Waiting' = Waiting
    BY <2>1 DEF Waiting
  <2>4. Place(t)' /\ (Carries(t) => Carries(t)') /\ (PassesOn(t) => PassesOn(t)')
    BY <1>1, <2>1, <2>3, OtherPlace DEF SInv
  <2>5. queue[M] # NULL => value > 0
    BY <1>2, <1>6
  <2> QED
    BY <1>1, <1>3, <2>1, <2>2, <2>3, <2>4, <2>5, StepKeeps
<1> QED
  BY <1>5, <1>6

\* Nobody uses the semaphore that is created.
LEMMA CreateKeeps ==
    ASSUME SInv, NEW t \in Threads, NEW v \in Values, sema_create(t, v)
    PROVE  SInv'
<1>1. /\ value' = v /\ state' = "SEMA_OK" /\ wait' = wait
      /\ queue' = [queue EXCEPT ![M] = IF v = 0 THEN MUTEX_LOCKED ELSE NULL]
      /\ holder' = [holder EXCEPT ![M] = IF v = 0 THEN t ELSE NoThread]
      /\ held' \in SUBSET held
      /\ UNCHANGED <<sched, mc, blocked>>
      /\ \A u \in Threads : wait[u].at = "none"
  BY SMTT(30) DEF sema_create, Outside
<1>2. /\ STypes /\ IInv /\ MutexTypes /\ QueueExact /\ MutualExclusion
      /\ Cancelable /\ SchedInv(sched) /\ v \in Nat
  BY SemaAssumption DEF SInv, IInv
<1>3. \A x \in Threads : blocked[x] = NotBlocked /\ sched.status[x] # "MUTEX_BLOCKED"
  BY <1>1 DEF SInv, Place, Waiting
<1>4. /\ queue[M] \in Seq(Threads) \cup {MUTEX_LOCKED}
      /\ queue[M] = NULL \/ queue[M] = MUTEX_LOCKED
      /\ Exact(queue[M], holder[M], BlockedOn(M))
  <2>1. ~HasWaiters(M)
    BY <1>2, <1>3, FirstWaiter, TheMutex
  <2> QED
    BY <1>2, <2>1, QueueExactIs, TheMutex DEF HasWaiters, MutexTypes
<1>5. MutexTypes'
  BY <1>1, <1>2, QueueForms, TheMutex DEF MutexTypes
<1>6. QueueExact'
  <2>1. /\ queue'[M] = IF v = 0 THEN MUTEX_LOCKED ELSE NULL
        /\ holder'[M] = IF v = 0 THEN t ELSE NoThread
        /\ \A k \in Mutexes \ {M} : queue'[k] = queue[k] /\ holder'[k] = holder[k]
    BY <1>1, <1>2, TheMutex DEF MutexTypes
  <2>2. \A k \in Mutexes : BlockedOn(k)' = BlockedOn(k)
    BY <1>1 DEF BlockedOn
  <2>3. Exact(NULL, NoThread, BlockedOn(M)) /\ Exact(MUTEX_LOCKED, t, BlockedOn(M))
    BY <1>4, ExactFree
  <2>4. Exact(queue'[M], holder'[M], BlockedOn(M)')
    BY <2>1, <2>2, <2>3, TheMutex
  <2> QED
    BY <1>2, <1>5, <2>1, <2>2, <2>4, OneQueue, TheMutex
<1>7. MutualExclusion'
  BY <1>1, <1>2, TheMutex DEF MutualExclusion, MutexTypes
<1>8. HandedOver' /\ Cancelable'
  BY <1>1, <1>2, <1>3 DEF HandedOver, Cancelable
<1>9. IInv'
  BY <1>1, <1>2, <1>5, <1>6, <1>7, <1>8 DEF IInv
<1>10. STypes'
  BY <1>1, <1>2 DEF STypes
<1>11. Waiting' = Waiting
  BY <1>1 DEF Waiting
<1>12. Place(t)'
  BY <1>1, <1>11, OtherPlace DEF SInv
<1>13. value' > 0 => queue'[M] = NULL
  BY SMTT(30), <1>1, <1>2, TheMutex DEF MutexTypes
<1> QED
  BY <1>1, <1>9, <1>10, <1>11, <1>12, <1>13, StepKeeps

-----------------------------------------------------------------------------
(* The theorems *)

LEMMA SemaInitInv == SemaInit => SInv
<1> SUFFICES ASSUME SemaInit PROVE SInv
  OBVIOUS
<1>1. IInv
  BY InitInv DEF SemaInit
<1>2. /\ value = 0 /\ state = "none" /\ wait = [t \in Threads |-> Outside]
      /\ blocked = [t \in Threads |-> NotBlocked] /\ mc = [t \in Threads |-> NoCancel]
      /\ sched = Booted
  BY DEF SemaInit, Init
<1>3. STypes
  BY <1>2 DEF STypes, Outside, Labels
<1>4. \A t \in Threads : t \notin Waiting
  BY <1>2, BootedInv DEF Waiting, on_runqueue, OnRunqueue
<1>5. ASSUME NEW t \in Threads PROVE Place(t)
  BY <1>2, <1>4 DEF Place, Outside, NoCancel
<1>6. Posted /\ Destroyed
  BY <1>2 DEF Posted, Destroyed
<1> QED
  BY <1>1, <1>3, <1>5, <1>6 DEF SInv

LEMMA SemaNextInv ==
    ASSUME ~PriorityInheritance
    PROVE  SInv /\ [SemaNext]_allvars => SInv'
<1> SUFFICES ASSUME SInv, [SemaNext]_allvars PROVE SInv'
  OBVIOUS
<1>1. IInv
  BY DEF SInv
<1>2. CASE UNCHANGED allvars
  <2>1. UNCHANGED <<sched, queue, mc, blocked, held, holder, value, state, wait>>
    BY <1>2 DEF allvars
  <2>2. IInv' /\ Waiting' = Waiting
    BY <1>1, <2>1, Untouched DEF IInv, Waiting
  <2> QED
    BY <2>1, <2>2, KernelLike
<1>3. CASE Kernel /\ UNCHANGED svars
  <2>1. IInv' /\ SameWaits
    BY <1>1, <1>3, KernelKeeps, KernelWaits
  <2>2. Waiting' \subseteq Waiting
    BY <2>1 DEF SameWaits, Waiting
  <2> QED
    BY <1>3, <2>1, <2>2, KernelLike DEF Kernel, svars
<1>4. ASSUME NEW t \in Threads, SemaSleep(t) \/ SemaExit(t) \/ (Wakeup(t) /\ UNCHANGED svars)
      PROVE  SInv'
  <2>1. Exit(t) \/ Sleep(t) \/ Yield(t) \/ Wakeup(t)
    BY <1>4 DEF SemaSleep, SemaExit
  <2>2. IInv' /\ SameWaits
    BY <1>1, <2>1, OthersKeep, OtherWaits
  <2>3. Waiting' \subseteq Waiting
    BY <2>2 DEF SameWaits, Waiting
  <2>4. UNCHANGED <<value, state, wait, queue, blocked, mc>>
    BY <1>4 DEF SemaSleep, SemaExit, Exit, Sleep, Wakeup, svars
  <2> QED
    BY <2>2, <2>3, <2>4, KernelLike
<1>5. ASSUME NEW t \in Threads, Proceeds(t) PROVE SInv'
  BY <1>5, UnlocksKeep, TestKeeps, LocksKeep, SetTimerKeeps, CancelableKeeps,
     LockReturnKeeps, LockedKeeps DEF Proceeds
<1>6. ASSUME NEW t \in Threads,
             \/ \E v \in Values : sema_create(t, v)
             \/ sema_destroy(t)
             \/ sema_post(t)
             \/ \E b \in BOOLEAN : sema_wait(t, b)
             \/ TimerExpires(t)
      PROVE  SInv'
  BY <1>6, CreateKeeps, DestroyKeeps, PostKeeps, WaitKeeps, ExpireKeeps
<1>7. CASE IsrPost
  BY <1>7, IsrPostKeeps
<1> QED
  BY <1>2, <1>3, <1>4, <1>5, <1>6, <1>7 DEF SemaNext

\* The inductive invariant holds in every state: while the mutex is locked
\* although the value is positive, or the semaphore destroyed, a thread is on
\* its way to unlock it.
THEOREM SemaInductive ==
    ASSUME ~PriorityInheritance
    PROVE  SemaSpec => []SInv
<1>1. SemaInit => SInv
  BY SemaInitInv
<1>2. SInv /\ [SemaNext]_allvars => SInv'
  BY SemaNextInv
<1> QED
  BY <1>1, <1>2, PTL DEF SemaSpec

\* No post is lost: while a thread is blocked although the value is positive,
\* another one is on its way to wake it, whatever timers cancelled meanwhile
\* and whoever took the value.
THEOREM PostsKept ==
    ASSUME ~PriorityInheritance
    PROVE  SemaSpec => []NoLostPost
<1>1. SInv => NoLostPost
  <2> SUFFICES ASSUME SInv, value > 0, Waiting # {}
               PROVE  \E u \in Threads : Carries(u)
    BY DEF NoLostPost, Carries
  <2> QED
    BY WaitingInQueue DEF SInv, Posted
<1> QED
  BY <1>1, SemaInductive, PTL

\* The unlock of sema_destroy() is passed on until nobody waits.
THEOREM DestroyReleases ==
    ASSUME ~PriorityInheritance
    PROVE  SemaSpec => []DestroyPassedOn
<1>1. SInv => DestroyPassedOn
  <2> SUFFICES ASSUME SInv, state = "SEMA_DESTROY", Waiting # {}
               PROVE  \E u \in Threads : PassesOn(u)
    BY DEF DestroyPassedOn, PassesOn
  <2> QED
    BY WaitingInQueue DEF SInv, Destroyed
<1> QED
  BY <1>1, SemaInductive, PTL

=============================================================================
