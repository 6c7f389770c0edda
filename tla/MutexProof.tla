---------------------------- MODULE MutexProof -----------------------------
(***************************************************************************)
(* Theorems about Mutex without priority inheritance, for every set of     *)
(* threads and of mutexes, whichever of them are used with cancelable      *)
(* locks or unlocked by handlers: mutual exclusion, the exactness of the   *)
(* wait queues, and the order in which the waiters are served.             *)
(*                                                                         *)
(* Mutual exclusion is not inductive.  A thread that comes back from       *)
(* _block() concludes that it holds the mutex from the fact that it runs   *)
(* again; what makes that right is that a thread inside _block() is either *)
(* in the queue, or has been handed the mutex, or was cancelled in a call  *)
(* that looks at mc->cancelled (HandedOver).                               *)
(*                                                                         *)
(* For the order of service the queues must be sorted, and stably so, in   *)
(* every state (InLine); that a waiter leaves from the middle of a queue   *)
(* only when it is cancelled needs that it was not cancelled before        *)
(* (WaitsUncancelled).                                                     *)
(***************************************************************************)
EXTENDS Mutex, SchedProof

\* Each variable has its type.
MutexTypes ==
    /\ queue \in [Mutexes -> Seq(Threads) \cup {MUTEX_LOCKED}]
    /\ mc \in [Threads -> [mutex : Mutexes \cup {NoMutex}, cancelled : BOOLEAN]]
    /\ blocked \in [Threads -> [mutex : Mutexes \cup {NoMutex},
                                fn : {"none", "mutex_lock", "mutex_lock_cancelable"}]]
    /\ held \in SUBSET (Threads \X Mutexes)
    /\ holder \in [Mutexes -> Threads \cup {NoThread}]
    /\ \A t \in Threads : mc[t].mutex = NoMutex => mc[t] = NoCancel
    /\ \A t \in Threads : blocked[t].mutex = NoMutex => blocked[t] = NotBlocked

\* A thread that left the queue of the mutex it is blocked on was handed the
\* mutex, or was cancelled in a call that will see it.
HandedOver ==
    \A t \in Threads :
        /\ blocked[t] # NotBlocked
        /\ blocked[t].mutex \notin Signals
        /\ sched.status[t] # "MUTEX_BLOCKED"
        => \/ holder[blocked[t].mutex] = t
           \/ blocked[t].fn = "mutex_lock_cancelable" /\ mc[t].cancelled

\* A thread waits for the mutex of its mutex_cancel_t in a cancelable call.
Cancelable ==
    \A t \in Threads :
        /\ blocked[t] # NotBlocked
        /\ mc[t].mutex = blocked[t].mutex
        => blocked[t].fn = "mutex_lock_cancelable"

\* The inductive invariant.
IInv ==
    /\ MutexTypes
    /\ SchedInv(sched)
    /\ QueueExact
    /\ MutualExclusion
    /\ HandedOver
    /\ Cancelable

-----------------------------------------------------------------------------
(* One wait queue *)

\* The threads that are blocked in a lock call on m.
BlockedOn(m) ==
    {t \in Threads : sched.status[t] = "MUTEX_BLOCKED" /\ blocked[t].mutex = m}

\* q is the queue of a mutex that h holds and the threads B wait for.
Exact(q, h, B) ==
    /\ q = NULL <=> h = NoThread
    /\ \A t \in Threads : q \in Seq(Threads) /\ Occurs(q, t) <=> t \in B
    /\ q \in Seq(Threads) => NoDup(q)

\* A queue is NULL, MUTEX_LOCKED or a list of waiters.
LEMMA QueueForms ==
    NULL \in Seq(Threads) /\ NULL # MUTEX_LOCKED /\ \A t : ~Occurs(NULL, t)
<1>1. << >> \in Seq(Threads) /\ DOMAIN << >> = {}
  OBVIOUS
<1> QED
  BY <1>1, MutexAssumption DEF NULL, Occurs

\* QueueExact says that the queue of every mutex is exact.
LEMMA QueueExactIs ==
    ASSUME MutexTypes
    PROVE  QueueExact <=> \A m \in Mutexes : Exact(queue[m], holder[m], BlockedOn(m))
<1>1. ASSUME NEW m \in Mutexes
      PROVE  /\ queue[m] \in Seq(Threads) \/ queue[m] = MUTEX_LOCKED
             /\ HasWaiters(m) <=> queue[m] \in Seq(Threads) /\ queue[m] # NULL
  BY MutexAssumption DEF MutexTypes, HasWaiters
<1>2. ASSUME NEW m \in Mutexes, NEW t \in Threads
      PROVE  /\ t \in Waiters(m) <=> queue[m] \in Seq(Threads) /\ Occurs(queue[m], t)
             /\ t \in BlockedOn(m) <=>
                    sched.status[t] = "MUTEX_BLOCKED" /\ blocked[t].mutex = m
  BY <1>1, QueueForms DEF Waiters, Occurs, BlockedOn
<1>3. ASSUME NEW m \in Mutexes
      PROVE  (HasWaiters(m) => NoDup(queue[m])) <=> (queue[m] \in Seq(Threads) => NoDup(queue[m]))
  BY <1>1 DEF NoDup, NULL
<1> QED
  BY <1>2, <1>3 DEF QueueExact, Exact, NoDup

\* The same of the next state.
LEMMA QueueExactNext ==
    ASSUME MutexTypes'
    PROVE  QueueExact' <=> \A m \in Mutexes : Exact(queue'[m], holder'[m], BlockedOn(m)')
<1>1. ASSUME NEW m \in Mutexes
      PROVE  /\ queue'[m] \in Seq(Threads) \/ queue'[m] = MUTEX_LOCKED
             /\ HasWaiters(m)' <=> queue'[m] \in Seq(Threads) /\ queue'[m] # NULL
  BY MutexAssumption DEF MutexTypes, HasWaiters
<1>2. ASSUME NEW m \in Mutexes, NEW t \in Threads
      PROVE  /\ t \in Waiters(m)' <=> queue'[m] \in Seq(Threads) /\ Occurs(queue'[m], t)
             /\ t \in BlockedOn(m)' <=>
                    sched'.status[t] = "MUTEX_BLOCKED" /\ blocked'[t].mutex = m
  BY <1>1, QueueForms DEF Waiters, Occurs, BlockedOn
<1>3. ASSUME NEW m \in Mutexes
      PROVE  (HasWaiters(m)' => NoDup(queue'[m]))
                 <=> (queue'[m] \in Seq(Threads) => NoDup(queue'[m]))
  BY <1>1 DEF NoDup, NULL
<1> QED
  BY <1>2, <1>3 DEF QueueExact, Exact, NoDup

\* _block() adds a waiter.
LEMMA ExactAdd ==
    ASSUME NEW q \in Seq(Threads) \cup {MUTEX_LOCKED}, q # NULL, NEW h, NEW B,
           Exact(q, h, B), NEW t \in Threads, t \notin B, NEW s \in SchedState
    PROVE  LET r == IF q = MUTEX_LOCKED THEN <<t>> ELSE thread_add_to_list(s, q, t)
           IN  r \in Seq(Threads) /\ Exact(r, h, B \cup {t})
<1>1. CASE q = MUTEX_LOCKED
  <2>1. /\ <<t>> \in Seq(Threads) /\ <<t>> # NULL /\ NoDup(<<t>>)
        /\ \A x : Occurs(<<t>>, x) <=> x = t
    BY DEF NULL, NoDup, Occurs
  <2> QED
    BY <1>1, <2>1, MutexAssumption DEF Exact
<1>2. CASE q # MUTEX_LOCKED
  <2>1. q \in Seq(Threads) /\ NoDup(q) /\ ~Occurs(q, t)
    BY <1>2 DEF Exact
  <2>2. LET r == thread_add_to_list(s, q, t)
        IN  /\ r \in Seq(Threads) /\ r # NULL /\ NoDup(r)
            /\ \A x : Occurs(r, x) <=> Occurs(q, x) \/ x = t
    BY <2>1, AddToList DEF NULL
  <2> QED
    BY <1>2, <2>1, <2>2 DEF Exact
<1> QED
  BY <1>1, <1>2

\* mutex_unlock() hands the mutex to the first waiter.
LEMMA ExactHead ==
    ASSUME NEW q \in Seq(Threads), q # NULL, NEW h, NEW B, Exact(q, h, B)
    PROVE  LET r == IF Tail(q) = NULL THEN MUTEX_LOCKED ELSE Tail(q)
           IN  /\ Head(q) \in Threads /\ Head(q) \in B
               /\ r \in Seq(Threads) \cup {MUTEX_LOCKED}
               /\ Exact(r, Head(q), B \ {Head(q)})
<1>1. /\ Tail(q) \in Seq(Threads) /\ NoDup(Tail(q))
      /\ Head(q) \in Threads /\ Occurs(q, Head(q))
      /\ \A x : Occurs(Tail(q), x) <=> Occurs(q, x) /\ x # Head(q)
  BY TailQueue DEF Exact, NULL
<1>2. Head(q) # NoThread
  BY <1>1, SchedAssumption
<1>3. CASE Tail(q) = NULL
  BY <1>1, <1>2, <1>3, QueueForms, MutexAssumption DEF Exact
<1>4. CASE Tail(q) # NULL
  BY <1>1, <1>2, <1>4 DEF Exact
<1> QED
  BY <1>3, <1>4

\* mutex_cancel() takes a waiter out of the queue.
LEMMA ExactRemove ==
    ASSUME NEW q \in Seq(Threads), NEW h, NEW B, Exact(q, h, B),
           NEW u \in Threads, Occurs(q, u)
    PROVE  LET rest == list_remove(q, u)
               r == IF rest = NULL THEN MUTEX_LOCKED ELSE rest
           IN  /\ r \in Seq(Threads) \cup {MUTEX_LOCKED}
               /\ Exact(r, h, B \ {u})
<1> DEFINE rest == list_remove(q, u)
<1>1. /\ rest \in Seq(Threads) /\ NoDup(rest)
      /\ \A x : Occurs(rest, x) <=> Occurs(q, x) /\ x # u
  BY RemoveFromList DEF Exact
<1>2. q # NULL
  BY QueueForms
<1> HIDE DEF rest
<1>3. CASE rest = NULL
  BY <1>1, <1>2, <1>3, QueueForms, MutexAssumption DEF Exact, rest
<1>4. CASE rest # NULL
  BY <1>1, <1>2, <1>4 DEF Exact, rest
<1> QED
  BY <1>3, <1>4

\* A mutex nobody waits for is unlocked, and one that is unlocked is locked.
LEMMA ExactFree ==
    ASSUME NEW q \in Seq(Threads) \cup {MUTEX_LOCKED}, NEW h, NEW B, Exact(q, h, B),
           q = NULL \/ q = MUTEX_LOCKED
    PROVE  /\ Exact(NULL, NoThread, B)
           /\ \A t \in Threads : Exact(MUTEX_LOCKED, t, B)
  BY QueueForms, MutexAssumption, SchedAssumption DEF Exact, NoDup, NULL

\* A step that changes the queue of m only.
LEMMA OneQueue ==
    ASSUME MutexTypes, MutexTypes', QueueExact, NEW m \in Mutexes,
           \A k \in Mutexes \ {m} : /\ queue'[k] = queue[k]
                                    /\ holder'[k] = holder[k]
                                    /\ BlockedOn(k)' = BlockedOn(k),
           Exact(queue'[m], holder'[m], BlockedOn(m)')
    PROVE  QueueExact'
  BY QueueExactIs, QueueExactNext

\* A step that changes no queue.
LEMMA SameQueue ==
    ASSUME MutexTypes, MutexTypes', QueueExact, queue' = queue, holder' = holder,
           \A k \in Mutexes : BlockedOn(k)' = BlockedOn(k)
    PROVE  QueueExact'
  BY QueueExactIs, QueueExactNext

-----------------------------------------------------------------------------
(* What the steps do to the scheduler *)

\* A thread in application code may be taken off its run queue.
LEMMA RunningThread ==
    ASSUME SchedInv(sched), NEW t \in Threads, Running(t)
    PROVE  /\ Executing(t) /\ t # Idle /\ blocked[t] = NotBlocked
           /\ sched.active = t
           /\ sched.status[t] = "RUNNING"
           /\ on_runqueue(sched, t)
           /\ IsHead(sched, t)
  BY ExecutingHead DEF Running

\* The end of a handler.
LEMMA IsrInv ==
    ASSUME NEW s, SchedInv(s), NEW p, IsrEnds(s, p)
    PROVE  SchedInv(sched') /\ sched'.status = s.status
  BY IsrEndInv DEF IsrEnds

\* Without priority inheritance a hand-over wakes the first waiter, and that
\* is all it does to the scheduler.
LEMMA HandOverWakes ==
    ASSUME ~PriorityInheritance, NEW s, NEW m
    PROVE  hand_over(s, m) = sched_set_status(s, Head(queue[m]), "PENDING")
  BY DEF hand_over, restore_priority, HasOwner

\* A waiter is woken by a thread, which then calls sched_switch().
LEMMA WakeAndSwitch ==
    ASSUME SchedInv(sched), NEW t \in Threads, Running(t), NEW u \in Threads,
           sched.status[u] = "MUTEX_BLOCKED", NEW c \in Calls,
           c.op \in {"switch", "switch_to"},
           sched' = [sched_set_status(sched, u, "PENDING") EXCEPT !.call[t] = c]
    PROVE  SchedInv(sched') /\ sched'.status = [sched.status EXCEPT ![u] = "PENDING"]
<1>1. ~on_runqueue(sched, u) /\ "PENDING" \in OnRunqueue
  BY DEF on_runqueue, OnRunqueue
<1>2. sched.active = t /\ sched.status[t] = "RUNNING" /\ IsHead(sched, t)
  BY RunningThread
<1>3. c.op \in YieldOps \cup SwitchOps
  BY DEF SwitchOps
<1> QED
  BY <1>1, <1>2, <1>3, WakeAndCall

\* A waiter is woken by a handler.
LEMMA WakeByIsr ==
    ASSUME SchedInv(sched), NEW u \in Threads, NEW p,
           sched.status[u] \notin OnRunqueue, NEW st \in OnRunqueue,
           IsrEnds(sched_set_status(sched, u, st), p)
    PROVE  SchedInv(sched') /\ sched'.status = [sched.status EXCEPT ![u] = st]
<1> DEFINE r == sched_set_status(sched, u, st)
<1>1. ~on_runqueue(sched, u)
  BY DEF on_runqueue
<1>2. SchedInv(r) /\ r.status = [sched.status EXCEPT ![u] = st]
  BY <1>1, PushInv
<1>3. IsrEnds(r, p)
  OBVIOUS
<1> HIDE DEF r
<1> QED
  BY <1>2, <1>3, IsrInv

-----------------------------------------------------------------------------
(* Steps that touch no mutex *)

\* A step that neither blocks a thread in a lock call nor releases one.
LEMMA Untouched ==
    ASSUME IInv, UNCHANGED <<queue, mc, blocked, held, holder>>, SchedInv(sched'),
           \A x \in Threads : sched'.status[x] = "MUTEX_BLOCKED"
                                  <=> sched.status[x] = "MUTEX_BLOCKED"
    PROVE  IInv'
<1>1. MutexTypes' /\ MutualExclusion' /\ Cancelable'
  BY DEF IInv, MutexTypes, MutualExclusion, Cancelable
<1>2. HandedOver'
  BY DEF IInv, HandedOver
<1>3. \A k \in Mutexes : BlockedOn(k)' = BlockedOn(k)
  BY DEF BlockedOn
<1>4. QueueExact'
  BY <1>1, <1>3, SameQueue DEF IInv
<1> QED
  BY <1>1, <1>2, <1>4 DEF IInv

\* A step after which the same threads are blocked at a mutex or a condition
\* variable.
SameWaits ==
    /\ SchedInv(sched')
    /\ \A x \in Threads :
           \/ sched'.status[x] = sched.status[x]
           \/ /\ sched.status[x] \notin {"MUTEX_BLOCKED", "COND_BLOCKED"}
              /\ sched'.status[x] \notin {"MUTEX_BLOCKED", "COND_BLOCKED"}

\* The kernel's own steps: PendSV, the way out of the idle loop, and the calls
\* of sched_switch() and thread_yield_higher().
LEMMA KernelWaits ==
    ASSUME IInv, Kernel
    PROVE  SameWaits
<1>1. SchedInv(sched)
  BY DEF IInv
<1>2. CASE PendSV \/ IdleWake
  <2>1. /\ SchedInv(sched')
        /\ \A x \in Threads : \/ sched'.status[x] = sched.status[x]
                              \/ on_runqueue(sched, x) /\ on_runqueue(sched', x)
    BY <1>1, <1>2, PendSVInv, IdleWakeInv
  <2> QED
    BY <2>1 DEF SameWaits, on_runqueue, OnRunqueue
<1>3. CASE \E t \in Threads : SchedCall(t)
  BY <1>1, <1>3, SchedCallInv DEF SameWaits
<1> QED
  BY <1>2, <1>3 DEF Kernel, KernelStep

LEMMA KernelKeeps ==
    ASSUME IInv, Kernel
    PROVE  IInv'
<1>1. UNCHANGED <<queue, mc, blocked, held, holder>>
  BY DEF Kernel, hvars
<1> QED
  BY <1>1, KernelWaits, Untouched DEF SameWaits

\* sched_task_exit(), thread_sleep(), thread_yield() and the wakeup of a
\* sleeping thread.
LEMMA OtherWaits ==
    ASSUME IInv, NEW t \in Threads, Exit(t) \/ Sleep(t) \/ Yield(t) \/ Wakeup(t)
    PROVE  SameWaits
<1>1. SchedInv(sched) /\ sched.status \in [Threads -> Status]
  BY SchedFields DEF IInv, SchedInv
<1>2. CASE Exit(t)
  <2>1. /\ sched.status[t] = "RUNNING"
        /\ SchedInv(sched') /\ sched'.status = [sched.status EXCEPT ![t] = "STOPPED"]
    BY <1>1, <1>2, RunningThread, ExitInv DEF Exit
  <2> QED
    BY <1>1, <2>1 DEF SameWaits
<1>3. CASE Sleep(t)
  <2>1. sched' = [sched_set_status(sched, t, "SLEEPING") EXCEPT !.call[t] = CallYield]
    BY <1>3 DEF Sleep, Sleeps
  <2>2. /\ sched.status[t] = "RUNNING"
        /\ SchedInv(sched') /\ sched'.status = [sched.status EXCEPT ![t] = "SLEEPING"]
    BY <1>1, <1>3, <2>1, RunningThread, BlockYield DEF Sleep, BlockedStatus
  <2> QED
    BY <1>1, <2>2 DEF SameWaits
<1>4. CASE Yield(t)
  <2>1. SchedInv(sched') /\ sched'.status = sched.status
    BY <1>1, <1>4, RunningThread, YieldInv DEF Yield
  <2> QED
    BY <2>1 DEF SameWaits
<1>5. CASE Wakeup(t)
  <2>1. /\ sched.status[t] = "SLEEPING"
        /\ IsrEnds(sched_set_status(sched, t, "RUNNING"), sched.priority[t])
    BY <1>5 DEF Wakeup, IsrWakes, wakeup
  <2>2. SchedInv(sched') /\ sched'.status = [sched.status EXCEPT ![t] = "RUNNING"]
    BY <1>1, <2>1, WakeByIsr DEF OnRunqueue
  <2> QED
    BY <1>1, <2>1, <2>2 DEF SameWaits
<1> QED
  BY <1>2, <1>3, <1>4, <1>5

LEMMA OthersKeep ==
    ASSUME IInv, NEW t \in Threads, Exit(t) \/ Sleep(t) \/ Yield(t) \/ Wakeup(t)
    PROVE  IInv'
<1>1. UNCHANGED <<queue, mc, blocked, held, holder>>
  BY DEF Exit, Sleep, Yield, Wakeup, hvars
<1> QED
  BY <1>1, OtherWaits, Untouched DEF SameWaits

-----------------------------------------------------------------------------
(* Locking *)

\* The mutex_cancel_t of a call that is over.
LEMMA ForgetCancel ==
    ASSUME MutexTypes, NEW t \in Threads, mc' \in {mc, [mc EXCEPT ![t] = NoCancel]}
    PROVE  /\ mc' \in [Threads -> [mutex : Mutexes \cup {NoMutex}, cancelled : BOOLEAN]]
           /\ \A x \in Threads : mc'[x].mutex = NoMutex => mc'[x] = NoCancel
<1>1. NoCancel \in [mutex : Mutexes \cup {NoMutex}, cancelled : BOOLEAN]
  BY DEF NoCancel
<1>2. CASE mc' = mc
  BY <1>2 DEF MutexTypes
<1>3. CASE mc' = [mc EXCEPT ![t] = NoCancel]
  BY <1>1, <1>3 DEF MutexTypes
<1> QED
  BY <1>2, <1>3

\* The mutex was unlocked: nobody holds it and nobody has been handed it.
LEMMA AcquireKeeps ==
    ASSUME IInv, NEW t \in Threads, NEW m \in Mutexes, acquire(t, m),
           blocked[t] = NotBlocked, mc' \in {mc, [mc EXCEPT ![t] = NoCancel]}
    PROVE  IInv'
<1>1. /\ queue[m] = NULL /\ queue' = [queue EXCEPT ![m] = MUTEX_LOCKED]
      /\ held' = held \cup {<<t, m>>}
      /\ holder' = [holder EXCEPT ![m] = t]
      /\ sched' = sched /\ blocked' = blocked
  BY DEF acquire
<1>2. MutexTypes /\ QueueExact /\ MutualExclusion /\ HandedOver /\ Cancelable
  BY DEF IInv
<1>3. Exact(queue[m], holder[m], BlockedOn(m))
  BY <1>2, QueueExactIs
<1>4. holder[m] = NoThread
  BY <1>1, <1>3 DEF Exact
<1>5. MutexTypes'
  BY SMTT(30), <1>1, <1>2, ForgetCancel DEF MutexTypes
<1>6. \A k \in Mutexes : BlockedOn(k)' = BlockedOn(k)
  BY <1>1 DEF BlockedOn
<1>7. QueueExact'
  <2>1. queue'[m] = MUTEX_LOCKED /\ holder'[m] = t
    BY <1>1, <1>2 DEF MutexTypes
  <2>2. Exact(queue'[m], holder'[m], BlockedOn(m)')
    BY <1>1, <1>3, <1>6, <2>1, QueueForms, ExactFree
  <2> QED
    BY <1>1, <1>2, <1>5, <1>6, <2>2, OneQueue DEF MutexTypes
<1>8. MutualExclusion'
  BY <1>1, <1>2, <1>4, SchedAssumption DEF MutualExclusion, MutexTypes
<1>9. HandedOver'
  <2> SUFFICES ASSUME NEW x \in Threads, blocked'[x] # NotBlocked,
                      blocked'[x].mutex \notin Signals,
                      sched'.status[x] # "MUTEX_BLOCKED"
               PROVE  \/ holder'[blocked'[x].mutex] = x
                      \/ blocked'[x].fn = "mutex_lock_cancelable" /\ mc'[x].cancelled
    BY DEF HandedOver
  <2>1. x # t /\ mc'[x] = mc[x]
    BY <1>1, <1>2 DEF MutexTypes
  <2>2. \/ holder[blocked[x].mutex] = x
        \/ blocked[x].fn = "mutex_lock_cancelable" /\ mc[x].cancelled
    BY <1>1, <1>2 DEF HandedOver
  <2>3. holder[blocked[x].mutex] = x => blocked[x].mutex # m
    BY <1>4, SchedAssumption
  <2> QED
    BY <1>1, <1>2, <2>1, <2>2, <2>3 DEF MutexTypes
<1>10. Cancelable'
  BY <1>1, <1>2 DEF Cancelable, MutexTypes
<1> QED
  BY <1>1, <1>5, <1>7, <1>8, <1>9, <1>10 DEF IInv

\* _block() blocks the caller.
LEMMA BlockWaits ==
    ASSUME ~PriorityInheritance, IInv, NEW t \in Threads, NEW m, NEW fn,
           Running(t), block(t, m, fn)
    PROVE  SchedInv(sched') /\ sched'.status = [sched.status EXCEPT ![t] = "MUTEX_BLOCKED"]
<1>1. sched' = [sched_set_status(sched, t, "MUTEX_BLOCKED") EXCEPT !.call[t] = CallYield]
  BY DEF block, HasOwner
<1>2. SchedInv(sched) /\ "MUTEX_BLOCKED" \in BlockedStatus
  BY DEF IInv, BlockedStatus
<1>3. /\ sched.active = t /\ t # Idle
      /\ on_runqueue(sched, t) /\ IsHead(sched, t)
  BY <1>2, RunningThread
<1> QED
  BY <1>1, <1>2, <1>3, BlockYield

\* _block() puts the thread into the queue and takes it off the run queue.
LEMMA BlockKeeps ==
    ASSUME ~PriorityInheritance, IInv, NEW t \in Threads, NEW m \in Mutexes,
           NEW fn \in {"mutex_lock", "mutex_lock_cancelable"},
           Running(t), block(t, m, fn), mc' = mc,
           mc[t].mutex = m => fn = "mutex_lock_cancelable"
    PROVE  IInv'
<1> DEFINE s1 == sched_set_status(sched, t, "MUTEX_BLOCKED")
<1>1. /\ queue[m] # NULL
      /\ queue' = [queue EXCEPT ![m] = IF @ = MUTEX_LOCKED THEN <<t>>
                                       ELSE thread_add_to_list(s1, @, t)]
      /\ sched' = [s1 EXCEPT !.call[t] = CallYield]
      /\ blocked' = [blocked EXCEPT ![t] = [mutex |-> m, fn |-> fn]]
      /\ held' = held /\ holder' = holder
  BY DEF block, HasOwner
<1>2. /\ MutexTypes /\ QueueExact /\ MutualExclusion /\ HandedOver /\ Cancelable
      /\ SchedInv(sched) /\ sched.status \in [Threads -> Status]
  BY SchedFields DEF IInv, SchedInv
<1>3. /\ SchedInv(sched') /\ sched'.status = [sched.status EXCEPT ![t] = "MUTEX_BLOCKED"]
      /\ s1 \in SchedState
  <2>1. "MUTEX_BLOCKED" \in BlockedStatus
    BY DEF BlockedStatus
  <2>2. /\ sched.active = t /\ t # Idle
        /\ on_runqueue(sched, t) /\ IsHead(sched, t)
    BY <1>2, RunningThread
  <2> QED
    BY <1>2, <2>1, <2>2, BlockSelf, BlockWaits
<1> HIDE DEF s1
<1>4. Exact(queue[m], holder[m], BlockedOn(m))
  BY <1>2, QueueExactIs
<1>5. /\ t \notin BlockedOn(m)
      /\ BlockedOn(m)' = BlockedOn(m) \cup {t}
      /\ \A k \in Mutexes \ {m} : BlockedOn(k)' = BlockedOn(k)
  <2>1. sched.status[t] = "RUNNING" /\ blocked[t] = NotBlocked
    BY <1>2, RunningThread
  <2> QED
    BY <1>1, <1>2, <1>3, <2>1 DEF BlockedOn, MutexTypes
<1>6. queue'[m] \in Seq(Threads) /\ Exact(queue'[m], holder'[m], BlockedOn(m)')
  <2>1. queue'[m] = IF queue[m] = MUTEX_LOCKED THEN <<t>>
                    ELSE thread_add_to_list(s1, queue[m], t)
    BY <1>1, <1>2 DEF MutexTypes
  <2>2. queue[m] \in Seq(Threads) \cup {MUTEX_LOCKED}
    BY <1>2 DEF MutexTypes
  <2> DEFINE r == IF queue[m] = MUTEX_LOCKED THEN <<t>>
                  ELSE thread_add_to_list(s1, queue[m], t)
  <2>3. r \in Seq(Threads) /\ Exact(r, holder[m], BlockedOn(m) \cup {t})
    BY <1>1, <1>3, <1>4, <1>5, <2>2, ExactAdd
  <2> HIDE DEF r
  <2> QED
    BY <1>1, <1>5, <2>1, <2>3 DEF r
<1>7. MutexTypes'
  <2>1. queue' \in [Mutexes -> Seq(Threads) \cup {MUTEX_LOCKED}]
    <3>1. queue' = [queue EXCEPT ![m] = queue'[m]]
      BY <1>1, <1>2 DEF MutexTypes
    <3> QED
      BY <1>2, <1>6, <3>1 DEF MutexTypes
  <2> QED
    BY <1>1, <1>2, <2>1, MutexAssumption DEF MutexTypes
<1>8. QueueExact'
  <2>1. \A k \in Mutexes \ {m} : queue'[k] = queue[k]
    BY <1>1, <1>2 DEF MutexTypes
  <2> QED
    BY <1>1, <1>2, <1>5, <1>6, <1>7, <2>1, OneQueue
<1>9. MutualExclusion'
  BY <1>1, <1>2 DEF MutualExclusion
<1>10. HandedOver'
  BY <1>1, <1>2, <1>3 DEF HandedOver, MutexTypes
<1>11. Cancelable'
  BY <1>1, <1>2 DEF Cancelable, MutexTypes
<1> QED
  BY <1>3, <1>7, <1>8, <1>9, <1>10, <1>11 DEF IInv

\* The lock calls.
LEMMA LockKeeps ==
    ASSUME ~PriorityInheritance, IInv, NEW t \in Threads,
           \/ mutex_lock_cancelable(t)
           \/ \E m \in Mutexes : mutex_lock(t, m) \/ mutex_trylock(t, m)
    PROVE  IInv'
<1>1. /\ MutexTypes /\ QueueExact /\ MutualExclusion /\ HandedOver /\ Cancelable
      /\ SchedInv(sched)
  BY DEF IInv
<1>2. CASE \E m \in Mutexes : mutex_lock(t, m) \/ mutex_trylock(t, m)
  <2>1. PICK m \in Mutexes : mutex_lock(t, m) \/ mutex_trylock(t, m)
    BY <1>2
  <2>2. /\ Running(t) /\ mc' = mc /\ mc[t].mutex # m /\ blocked[t] = NotBlocked
        /\ acquire(t, m) \/ block(t, m, "mutex_lock")
    BY <2>1 DEF mutex_lock, mutex_trylock, Running
  <2> QED
    BY <1>1, <2>2, AcquireKeeps, BlockKeeps
<1>3. CASE mutex_lock_cancelable(t)
  <2>1. /\ Running(t) /\ blocked[t] = NotBlocked /\ mc[t].mutex \in Mutexes
        /\ \/ /\ mc' = [mc EXCEPT ![t] = NoCancel]
              /\ UNCHANGED <<sched, queue, blocked, held, holder>>
           \/ acquire(t, mc[t].mutex) /\ mc' = [mc EXCEPT ![t] = NoCancel]
           \/ block(t, mc[t].mutex, "mutex_lock_cancelable") /\ mc' = mc
    BY <1>1, <1>3 DEF mutex_lock_cancelable, Running, MutexTypes, hvars
  <2>2. CASE /\ mc' = [mc EXCEPT ![t] = NoCancel]
             /\ UNCHANGED <<sched, queue, blocked, held, holder>>
    <3>1. MutexTypes'
      BY <1>1, <2>2 DEF MutexTypes, NoCancel
    <3>2. \A k \in Mutexes : BlockedOn(k)' = BlockedOn(k)
      BY <2>2 DEF BlockedOn
    <3>3. QueueExact'
      BY <1>1, <2>2, <3>1, <3>2, SameQueue
    <3>4. MutualExclusion' /\ HandedOver' /\ Cancelable'
      BY <1>1, <2>1, <2>2 DEF MutualExclusion, HandedOver, Cancelable, MutexTypes
    <3> QED
      BY <1>1, <2>2, <3>1, <3>3, <3>4 DEF IInv
  <2>3. CASE acquire(t, mc[t].mutex) /\ mc' = [mc EXCEPT ![t] = NoCancel]
    BY <1>1, <2>1, <2>3, AcquireKeeps
  <2>4. CASE block(t, mc[t].mutex, "mutex_lock_cancelable") /\ mc' = mc
    BY <1>1, <2>1, <2>4, BlockKeeps
  <2> QED
    BY <2>1, <2>2, <2>3, <2>4
<1> QED
  BY <1>2, <1>3

\* mutex_cancel_init() by a thread that is in no lock call.
LEMMA CancelInitKeeps ==
    ASSUME IInv, NEW t \in Threads, NEW m \in Mutexes, blocked[t] = NotBlocked,
           mc' = [mc EXCEPT ![t] = [mutex |-> m, cancelled |-> FALSE]],
           UNCHANGED <<sched, queue, blocked, held, holder>>
    PROVE  IInv'
<1>1. /\ MutexTypes /\ QueueExact /\ MutualExclusion /\ HandedOver /\ Cancelable
      /\ SchedInv(sched)
  BY DEF IInv
<1>2. /\ mc' = [mc EXCEPT ![t] = [mutex |-> m, cancelled |-> FALSE]]
      /\ blocked[t] = NotBlocked
      /\ UNCHANGED <<sched, queue, blocked, held, holder>>
  OBVIOUS
<1>3. MutexTypes'
  BY SMTT(30), <1>1, <1>2, MutexAssumption DEF MutexTypes
<1>4. \A k \in Mutexes : BlockedOn(k)' = BlockedOn(k)
  BY <1>2 DEF BlockedOn
<1>5. QueueExact'
  BY <1>1, <1>2, <1>3, <1>4, SameQueue
<1>6. MutualExclusion' /\ HandedOver' /\ Cancelable'
  BY <1>1, <1>2 DEF MutualExclusion, HandedOver, Cancelable, MutexTypes
<1> QED
  BY <1>1, <1>2, <1>3, <1>5, <1>6 DEF IInv

\* A lock call that returns after it blocked: the thread was handed the
\* mutex, or returns -ECANCELED.
LEMMA ReturnKeeps ==
    ASSUME IInv, NEW t \in Threads, lock_returns(t)
    PROVE  IInv'
<1>1. /\ MutexTypes /\ QueueExact /\ MutualExclusion /\ HandedOver /\ Cancelable
      /\ SchedInv(sched)
  BY DEF IInv
<1>2. /\ Executing(t) /\ blocked[t] # NotBlocked
      /\ blocked' = [blocked EXCEPT ![t] = NotBlocked]
      /\ UNCHANGED <<sched, queue, holder>>
      /\ mc' \in {mc, [mc EXCEPT ![t] = NoCancel]}
  BY DEF lock_returns
<1>3. sched.status[t] = "RUNNING"
  BY <1>1, <1>2, ExecutingHead
<1>4. blocked[t].mutex \in Mutexes
  BY <1>1, <1>2 DEF MutexTypes
<1>5. held' = held \/ held' = held \cup {<<t, blocked[t].mutex>>}
  BY DEF lock_returns
<1>6. /\ blocked[t].mutex \notin Signals
      /\ held' # held
      => holder[blocked[t].mutex] = t
  BY <1>1, <1>2, <1>3 DEF HandedOver, lock_returns
<1>7. MutexTypes'
  <2>1. /\ blocked' \in [Threads -> [mutex : Mutexes \cup {NoMutex},
                fn : {"none", "mutex_lock", "mutex_lock_cancelable"}]]
        /\ \A x \in Threads : blocked'[x].mutex = NoMutex => blocked'[x] = NotBlocked
    BY <1>1, <1>2 DEF MutexTypes, NotBlocked
  <2>2. held' \in SUBSET (Threads \X Mutexes)
    BY <1>1, <1>4, <1>5 DEF MutexTypes
  <2> QED
    BY <1>1, <1>2, <2>1, <2>2, ForgetCancel DEF MutexTypes
<1>8. \A k \in Mutexes : BlockedOn(k)' = BlockedOn(k)
  BY <1>1, <1>2, <1>3 DEF BlockedOn, MutexTypes
<1>9. QueueExact'
  BY <1>1, <1>2, <1>7, <1>8, SameQueue
<1>10. MutualExclusion'
  <2> SUFFICES ASSUME NEW k \in Mutexes \ Signals, NEW x \in Threads, <<x, k>> \in held'
               PROVE  holder'[k] = x
    BY DEF MutualExclusion
  <2>1. CASE <<x, k>> \in held
    BY <1>1, <1>2, <2>1 DEF MutualExclusion
  <2>2. CASE <<x, k>> \notin held
    <3>1. x = t /\ k = blocked[t].mutex /\ held' # held
      BY <1>5, <2>2
    <3> QED
      BY <1>2, <1>6, <3>1
  <2> QED
    BY <2>1, <2>2
<1>11. HandedOver' /\ Cancelable'
  BY <1>1, <1>2 DEF HandedOver, Cancelable, MutexTypes
<1> QED
  BY <1>1, <1>2, <1>7, <1>9, <1>10, <1>11 DEF IInv

-----------------------------------------------------------------------------
(* Unlocking *)

\* The first of the queue is blocked in a lock call on the mutex.
LEMMA FirstWaiter ==
    ASSUME IInv, NEW m \in Mutexes, HasWaiters(m)
    PROVE  /\ queue[m] \in Seq(Threads) /\ queue[m] # NULL
           /\ Head(queue[m]) \in Threads
           /\ sched.status[Head(queue[m])] = "MUTEX_BLOCKED"
           /\ blocked[Head(queue[m])].mutex = m
           /\ dequeue(m) \in Seq(Threads) \cup {MUTEX_LOCKED}
           /\ Exact(dequeue(m), Head(queue[m]), BlockedOn(m) \ {Head(queue[m])})
<1>1. queue[m] \in Seq(Threads) /\ queue[m] # NULL
  BY DEF IInv, MutexTypes, HasWaiters
<1>2. Exact(queue[m], holder[m], BlockedOn(m))
  BY QueueExactIs DEF IInv
<1>3. /\ Head(queue[m]) \in Threads /\ Head(queue[m]) \in BlockedOn(m)
      /\ dequeue(m) \in Seq(Threads) \cup {MUTEX_LOCKED}
      /\ Exact(dequeue(m), Head(queue[m]), BlockedOn(m) \ {Head(queue[m])})
  BY <1>1, <1>2, ExactHead DEF dequeue
<1> QED
  BY <1>1, <1>3 DEF BlockedOn

\* An unlock whose caller sees to the scheduler: the first waiter is woken.
LEMMA UnlockKeeps ==
    ASSUME IInv, NEW m \in Mutexes, unlock_queue(m), mc' = mc, blocked' = blocked,
           SchedInv(sched'),
           \A x \in Threads : sched'.status[x] = "MUTEX_BLOCKED" <=>
               /\ sched.status[x] = "MUTEX_BLOCKED"
               /\ HasWaiters(m) => x # Head(queue[m]),
           held' \in SUBSET held,
           m \notin Signals => \A x \in Threads : <<x, m>> \notin held',
           m \notin Signals => /\ holder[m] \in Threads
                               /\ blocked[holder[m]] = NotBlocked
    PROVE  IInv'
<1>1. MutexTypes /\ QueueExact /\ MutualExclusion /\ HandedOver /\ Cancelable
  BY DEF IInv
<1>2. Exact(queue[m], holder[m], BlockedOn(m))
  BY <1>1, QueueExactIs
<1>3. MutexTypes' /\ Exact(queue'[m], holder'[m], BlockedOn(m)')
  <2>1. CASE HasWaiters(m)
    <3>1. /\ queue' = [queue EXCEPT ![m] = dequeue(m)]
          /\ holder' = [holder EXCEPT ![m] = Head(queue[m])]
      BY <2>1 DEF unlock_queue
    <3>2. BlockedOn(m)' = BlockedOn(m) \ {Head(queue[m])}
      BY <2>1 DEF BlockedOn
    <3>3. queue'[m] = dequeue(m) /\ holder'[m] = Head(queue[m])
      BY <1>1, <3>1 DEF MutexTypes
    <3>4. MutexTypes'
      BY <1>1, <2>1, <3>1, FirstWaiter DEF MutexTypes
    <3> QED
      BY <2>1, <3>2, <3>3, <3>4, FirstWaiter
  <2>2. CASE ~HasWaiters(m)
    <3>1. /\ queue' = [queue EXCEPT ![m] = NULL]
          /\ holder' = [holder EXCEPT ![m] = NoThread]
      BY <2>2 DEF unlock_queue
    <3>2. BlockedOn(m)' = BlockedOn(m)
      BY <2>2 DEF BlockedOn
    <3>3. queue'[m] = NULL /\ holder'[m] = NoThread
      BY <1>1, <3>1 DEF MutexTypes
    <3>4. MutexTypes'
      BY <1>1, <3>1, QueueForms DEF MutexTypes
    <3>5. /\ queue[m] \in Seq(Threads) \cup {MUTEX_LOCKED}
          /\ queue[m] = NULL \/ queue[m] = MUTEX_LOCKED
      BY <1>1, <2>2 DEF HasWaiters, MutexTypes
    <3> QED
      BY <1>2, <3>2, <3>3, <3>4, <3>5, ExactFree
  <2> QED
    BY <2>1, <2>2
<1>4. \A k \in Mutexes \ {m} : queue'[k] = queue[k] /\ holder'[k] = holder[k]
  BY <1>1 DEF unlock_queue, MutexTypes
<1>5. \A k \in Mutexes \ {m} : BlockedOn(k)' = BlockedOn(k)
  BY FirstWaiter DEF BlockedOn
<1>6. QueueExact'
  BY <1>1, <1>3, <1>4, <1>5, OneQueue
<1>7. MutualExclusion'
  BY <1>1, <1>4 DEF MutualExclusion
<1>8. HandedOver'
  <2> SUFFICES ASSUME NEW x \in Threads, blocked[x] # NotBlocked,
                      blocked[x].mutex \notin Signals,
                      sched'.status[x] # "MUTEX_BLOCKED"
               PROVE  \/ holder'[blocked[x].mutex] = x
                      \/ blocked[x].fn = "mutex_lock_cancelable" /\ mc[x].cancelled
    BY DEF HandedOver
  <2>1. blocked[x].mutex \in Mutexes
    <3>1. /\ blocked[x].mutex \in Mutexes \cup {NoMutex}
          /\ blocked[x].mutex = NoMutex => blocked[x] = NotBlocked
      BY <1>1 DEF MutexTypes
    <3> QED
      BY <3>1
  <2>2. CASE sched.status[x] = "MUTEX_BLOCKED"
    <3>1. HasWaiters(m) /\ x = Head(queue[m])
      BY <2>2
    <3>2. blocked[x].mutex = m /\ holder' = [holder EXCEPT ![m] = x]
      BY <3>1, FirstWaiter DEF unlock_queue
    <3> QED
      BY <1>1, <3>2 DEF MutexTypes
  <2>3. CASE sched.status[x] # "MUTEX_BLOCKED"
    <3>1. \/ holder[blocked[x].mutex] = x
          \/ blocked[x].fn = "mutex_lock_cancelable" /\ mc[x].cancelled
      BY <1>1, <2>3 DEF HandedOver
    <3>2. holder[blocked[x].mutex] = x => blocked[x].mutex # m
      OBVIOUS
    <3> QED
      BY <1>4, <2>1, <3>1, <3>2
  <2> QED
    BY <2>2, <2>3
<1>9. Cancelable'
  BY <1>1 DEF Cancelable
<1> QED
  BY <1>3, <1>6, <1>7, <1>8, <1>9 DEF IInv

\* The statuses after an unlock of m.
Woken(m) == IF HasWaiters(m) THEN [sched.status EXCEPT ![Head(queue[m])] = "PENDING"]
            ELSE sched.status

\* The first waiter is no longer blocked.
LEMMA WokenIs ==
    ASSUME IInv, NEW m \in Mutexes
    PROVE  \A x \in Threads : Woken(m)[x] = "MUTEX_BLOCKED" <=>
               sched.status[x] = "MUTEX_BLOCKED" /\ (HasWaiters(m) => x # Head(queue[m]))
<1>1. sched.status \in [Threads -> Status]
  BY SchedFields DEF IInv, SchedInv
<1> QED
  BY <1>1 DEF Woken

\* mutex_unlock() wakes the first waiter, and the caller goes on to call
\* sched_switch().
LEMMA UnlockWakes ==
    ASSUME ~PriorityInheritance, IInv, NEW t \in Threads, NEW m \in Mutexes,
           Running(t), unlock_section(t, m)
    PROVE  SchedInv(sched') /\ sched'.status = Woken(m)
<1>1. /\ SchedInv(sched) /\ sched.status \in [Threads -> Status]
      /\ sched.priority \in [Threads -> Prios]
  BY SchedFields DEF IInv, SchedInv
<1>2. CASE HasWaiters(m)
  <2> DEFINE u == Head(queue[m])
             c == CallSwitch(sched.priority[u])
  <2>1. u \in Threads /\ sched.status[u] = "MUTEX_BLOCKED"
    BY <1>2, FirstWaiter
  <2>2. sched' = [sched_set_status(sched, u, "PENDING") EXCEPT !.call[t] = c]
    BY <1>2, HandOverWakes DEF unlock_section
  <2>3. c \in Calls /\ c.op \in {"switch", "switch_to"}
    BY <1>1, <2>1, CallTypes
  <2>4. Woken(m) = [sched.status EXCEPT ![u] = "PENDING"]
    BY <1>2 DEF Woken
  <2> HIDE DEF c, u
  <2> QED
    BY <1>1, <2>1, <2>2, <2>3, <2>4, WakeAndSwitch
<1>3. CASE ~HasWaiters(m)
  BY <1>1, <1>3 DEF unlock_section, Woken
<1> QED
  BY <1>2, <1>3

\* mutex_unlock_and_sleep() wakes the first waiter and puts the caller to
\* sleep.
LEMMA SleepWakes ==
    ASSUME IInv, NEW t \in Threads, NEW m \in Mutexes, mutex_unlock_and_sleep(t, m)
    PROVE  SchedInv(sched') /\ sched'.status = [Woken(m) EXCEPT ![t] = "SLEEPING"]
<1>1. SchedInv(sched) /\ sched.status \in [Threads -> Status]
  BY SchedFields DEF IInv, SchedInv
<1>2. /\ sched.active = t /\ t # Idle /\ sched.status[t] = "RUNNING"
      /\ on_runqueue(sched, t) /\ IsHead(sched, t)
  BY <1>1, RunningThread DEF mutex_unlock_and_sleep
<1>3. "SLEEPING" \in BlockedStatus /\ "PENDING" \in OnRunqueue
  BY DEF BlockedStatus, OnRunqueue
<1>4. CASE HasWaiters(m)
  <2> DEFINE u == Head(queue[m])
             s == sched_set_status(sched, u, "PENDING")
  <2>1. u \in Threads /\ sched.status[u] = "MUTEX_BLOCKED"
    BY <1>4, FirstWaiter
  <2>2. sched' = [sched_set_status(s, t, "SLEEPING") EXCEPT !.call[t] = CallYield]
    BY <1>4 DEF mutex_unlock_and_sleep
  <2>3. ~on_runqueue(sched, u)
    BY <2>1 DEF on_runqueue, OnRunqueue
  <2>4. /\ SchedInv(s)
        /\ s.status = [sched.status EXCEPT ![u] = "PENDING"]
        /\ SameButQueues(s, sched)
        /\ \A x \in Threads : IsHead(sched, x) => IsHead(s, x)
    BY <1>1, <1>3, <2>1, <2>3, PushInv
  <2>5. Woken(m) = [sched.status EXCEPT ![u] = "PENDING"]
    BY <1>4 DEF Woken
  <2> HIDE DEF s, u
  <2>6. s.active = t /\ on_runqueue(s, t) /\ IsHead(s, t)
    BY <1>1, <1>2, <2>1, <2>4 DEF SameButQueues, on_runqueue, OnRunqueue
  <2>7. SchedInv(s) /\ t # Idle
    BY <1>2, <2>4
  <2>8. LET r == [sched_set_status(s, t, "SLEEPING") EXCEPT !.call[t] = CallYield]
        IN  SchedInv(r) /\ r.status = [s.status EXCEPT ![t] = "SLEEPING"]
    BY <1>3, <2>6, <2>7, BlockYield
  <2> QED
    BY <2>2, <2>4, <2>5, <2>8
<1>5. CASE ~HasWaiters(m)
  <2>1. sched' = [sched_set_status(sched, t, "SLEEPING") EXCEPT !.call[t] = CallYield]
    BY <1>5 DEF mutex_unlock_and_sleep
  <2>2. SchedInv(sched') /\ sched'.status = [sched.status EXCEPT ![t] = "SLEEPING"]
    BY <1>1, <1>2, <1>3, <2>1, BlockYield
  <2> QED
    BY <1>5, <2>2 DEF Woken
<1> QED
  BY <1>4, <1>5

\* mutex_unlock() and mutex_unlock_and_sleep() by a thread that holds the
\* mutex.
LEMMA ThreadUnlockKeeps ==
    ASSUME ~PriorityInheritance, IInv, NEW t \in Threads, NEW m \in Mutexes,
           mutex_unlock(t, m) \/ mutex_unlock_and_sleep(t, m)
    PROVE  IInv'
<1>1. MutualExclusion /\ SchedInv(sched) /\ sched.status \in [Threads -> Status]
  BY SchedFields DEF IInv, SchedInv
<1>2. /\ Running(t) /\ <<t, m>> \in held /\ unlock_queue(m)
      /\ mc' = mc /\ blocked' = blocked /\ blocked[t] = NotBlocked
  BY DEF mutex_unlock, mutex_unlock_and_sleep, unlock_section, Running
<1>3. sched.status[t] = "RUNNING"
  BY <1>1, <1>2, RunningThread
<1>4. m \notin Signals => holder[m] = t /\ \A x \in Threads : <<x, m>> \in held => x = t
  BY <1>1, <1>2 DEF MutualExclusion
<1>5. held' \in SUBSET held /\ (m \notin Signals => \A x \in Threads : <<x, m>> \notin held')
  BY <1>4 DEF mutex_unlock, mutex_unlock_and_sleep, unlock_section
<1>6. /\ SchedInv(sched')
      /\ \A x \in Threads : sched'.status[x] = "MUTEX_BLOCKED" <=> Woken(m)[x] = "MUTEX_BLOCKED"
  <2>1. CASE mutex_unlock(t, m)
    BY <2>1, UnlockWakes DEF mutex_unlock
  <2>2. CASE mutex_unlock_and_sleep(t, m)
    <3>1. SchedInv(sched') /\ sched'.status = [Woken(m) EXCEPT ![t] = "SLEEPING"]
      BY <2>2, SleepWakes
    <3>2. Woken(m) \in [Threads -> Status] /\ Woken(m)[t] # "MUTEX_BLOCKED"
      <4>1. Woken(m) \in [Threads -> Status]
        BY <1>1 DEF Woken, Status, OnRunqueue
      <4> QED
        BY <1>3, <4>1, WokenIs
    <3> QED
      BY <3>1, <3>2
  <2> QED
    BY <2>1, <2>2
<1> QED
  BY <1>2, <1>4, <1>5, <1>6, WokenIs, UnlockKeeps

\* mutex_unlock() by a handler, of a mutex that is used as a signal.
LEMMA IsrUnlockWakes ==
    ASSUME ~PriorityInheritance, IInv, NEW m \in Mutexes, IsrUnlock(m)
    PROVE  SchedInv(sched') /\ sched'.status = Woken(m)
<1>1. SchedInv(sched)
  BY DEF IInv
<1>2. CASE HasWaiters(m)
  <2> DEFINE u == Head(queue[m])
  <2>1. u \in Threads /\ sched.status[u] = "MUTEX_BLOCKED"
    BY <1>2, FirstWaiter
  <2>2. IsrEnds(sched_set_status(sched, u, "PENDING"), sched.priority[u])
    BY <1>2, HandOverWakes DEF IsrUnlock
  <2>3. Woken(m) = [sched.status EXCEPT ![u] = "PENDING"]
    BY <1>2 DEF Woken
  <2> HIDE DEF u
  <2> QED
    BY <1>1, <2>1, <2>2, <2>3, WakeByIsr DEF OnRunqueue
<1>3. CASE ~HasWaiters(m)
  BY <1>1, <1>3 DEF IsrUnlock, Woken
<1> QED
  BY <1>2, <1>3

LEMMA IsrUnlockKeeps ==
    ASSUME ~PriorityInheritance, IInv, NEW m \in Mutexes, IsrUnlock(m)
    PROVE  IInv'
<1>1. /\ m \in Signals /\ unlock_queue(m) /\ mc' = mc /\ blocked' = blocked
      /\ held' \in SUBSET held
  BY DEF IsrUnlock
<1>2. SchedInv(sched') /\ sched'.status = Woken(m)
  BY IsrUnlockWakes
<1> QED
  BY <1>1, <1>2, WokenIs, UnlockKeeps

-----------------------------------------------------------------------------
(* Cancellation *)

\* mutex_cancel() of a call that has not blocked, or has been handed the
\* mutex, marks it; of one that waits it takes the thread out of the queue.
LEMMA CancelKeeps ==
    ASSUME IInv, NEW u \in Threads, cancel(u), SchedInv(sched'),
           sched'.status = IF CancelDequeues(u)
                           THEN [sched.status EXCEPT ![u] = "PENDING"]
                           ELSE sched.status
    PROVE  IInv'
<1>1. /\ MutexTypes /\ QueueExact /\ MutualExclusion /\ HandedOver /\ Cancelable
      /\ sched.status \in [Threads -> Status]
  BY SchedFields DEF IInv, SchedInv
<1>2. /\ mc[u] # NoCancel /\ mc' = [mc EXCEPT ![u].cancelled = TRUE]
      /\ blocked' = blocked /\ held' = held /\ holder' = holder
      /\ ~CancelDequeues(u) => queue' = queue
  BY DEF cancel
<1>3. PICK m \in Mutexes : m = mc[u].mutex
  BY <1>1, <1>2 DEF MutexTypes
<1>4. /\ \A x \in Threads : /\ mc'[x].mutex = mc[x].mutex
                            /\ mc[x].cancelled => mc'[x].cancelled
      /\ mc'[u].cancelled
      /\ mc' \in [Threads -> [mutex : Mutexes \cup {NoMutex}, cancelled : BOOLEAN]]
  <2>1. mc \in [Threads -> [mutex : Mutexes \cup {NoMutex}, cancelled : BOOLEAN]]
    BY <1>1 DEF MutexTypes
  <2>2. mc' = [mc EXCEPT ![u] = [mc[u] EXCEPT !.cancelled = TRUE]]
    BY <1>2
  <2>3. LET c == [mc[u] EXCEPT !.cancelled = TRUE]
        IN  /\ c \in [mutex : Mutexes \cup {NoMutex}, cancelled : BOOLEAN]
            /\ c.mutex = mc[u].mutex /\ c.cancelled
    BY <2>1
  <2> QED
    BY <2>1, <2>2, <2>3
<1>5. \A x \in Threads : mc'[x].mutex = NoMutex => mc'[x] = NoCancel
  BY <1>1, <1>2, <1>3, MutexAssumption DEF MutexTypes
<1>6. MutualExclusion' /\ Cancelable'
  BY <1>1, <1>2, <1>4 DEF MutualExclusion, Cancelable
<1>7. CASE ~CancelDequeues(u)
  <2>1. MutexTypes'
    BY <1>1, <1>2, <1>4, <1>5, <1>7 DEF MutexTypes
  <2>2. \A k \in Mutexes : BlockedOn(k)' = BlockedOn(k)
    BY <1>2, <1>7 DEF BlockedOn
  <2>3. QueueExact'
    BY <1>1, <1>2, <1>7, <2>1, <2>2, SameQueue
  <2>4. HandedOver'
    BY <1>1, <1>2, <1>4, <1>7 DEF HandedOver
  <2> QED
    BY <1>6, <2>1, <2>3, <2>4 DEF IInv
<1>8. CASE CancelDequeues(u)
  <2> DEFINE rest == list_remove(queue[m], u)
             r == IF rest = NULL THEN MUTEX_LOCKED ELSE rest
  <2>1. queue' = [queue EXCEPT ![m] = r]
    BY <1>3, <1>8 DEF cancel
  <2>2. u \in Waiters(m)
    BY <1>3, <1>8 DEF CancelDequeues
  <2>3. queue[m] \in Seq(Threads) /\ Occurs(queue[m], u)
    BY <1>1, <1>3, <2>2 DEF Waiters, HasWaiters, MutexTypes, Occurs
  <2>4. Exact(queue[m], holder[m], BlockedOn(m))
    BY <1>1, <1>3, QueueExactIs
  <2>5. /\ r \in Seq(Threads) \cup {MUTEX_LOCKED}
        /\ Exact(r, holder[m], BlockedOn(m) \ {u})
    BY <2>3, <2>4, ExactRemove
  <2> HIDE DEF r, rest
  <2>6. sched.status[u] = "MUTEX_BLOCKED" /\ blocked[u].mutex = m
    <3>1. \A x \in Threads : x \in Waiters(m) <=>
              sched.status[x] = "MUTEX_BLOCKED" /\ blocked[x].mutex = m
      BY <1>1 DEF QueueExact
    <3> QED
      BY <2>2, <3>1
  <2>7. blocked[u] # NotBlocked /\ blocked[u].fn = "mutex_lock_cancelable"
    <3>1. m # NoMutex /\ NotBlocked.mutex = NoMutex
      BY MutexAssumption DEF NotBlocked
    <3>2. blocked[u] # NotBlocked
      BY <2>6, <3>1
    <3> QED
      BY <1>1, <1>3, <2>6, <3>2 DEF Cancelable
  <2>8. MutexTypes'
    BY <1>1, <1>2, <1>3, <1>4, <1>5, <2>1, <2>5 DEF MutexTypes
  <2>9. /\ BlockedOn(m)' = BlockedOn(m) \ {u}
        /\ \A k \in Mutexes \ {m} : BlockedOn(k)' = BlockedOn(k)
    BY <1>1, <1>2, <1>8, <2>6 DEF BlockedOn
  <2>10. QueueExact'
    <3>1. queue'[m] = r /\ \A k \in Mutexes \ {m} : queue'[k] = queue[k]
      BY <1>1, <1>3, <2>1 DEF MutexTypes
    <3>2. Exact(queue'[m], holder'[m], BlockedOn(m)')
      BY <1>2, <2>5, <2>9, <3>1
    <3> QED
      BY <1>1, <1>2, <2>8, <2>9, <3>1, <3>2, OneQueue
  <2>11. HandedOver'
    BY <1>1, <1>2, <1>4, <1>8, <2>7 DEF HandedOver
  <2> QED
    BY <1>6, <2>8, <2>10, <2>11 DEF IInv
<1> QED
  BY <1>7, <1>8

\* mutex_cancel() wakes a thread that it takes out of the queue.
LEMMA CancelWakes ==
    ASSUME IInv, NEW u \in Threads,
           IsrCancel(u) \/ \E t \in Threads : mutex_cancel(t, u)
    PROVE  /\ SchedInv(sched')
           /\ sched'.status = IF CancelDequeues(u)
                              THEN [sched.status EXCEPT ![u] = "PENDING"]
                              ELSE sched.status
<1>1. MutexTypes /\ QueueExact /\ SchedInv(sched)
  BY DEF IInv
<1>2. CASE ~CancelDequeues(u)
  BY <1>1, <1>2 DEF IsrCancel, mutex_cancel
<1>3. CASE CancelDequeues(u)
  <2>1. mc[u].mutex \in Mutexes
    BY <1>1 DEF MutexTypes, IsrCancel, mutex_cancel, cancel
  <2>2. sched.status[u] = "MUTEX_BLOCKED"
    BY SMTT(30), <1>1, <1>3, <2>1 DEF CancelDequeues, QueueExact
  <2>3. CASE IsrCancel(u)
    <3>1. IsrEnds(sched_set_status(sched, u, "PENDING"), sched.priority[u])
      BY <1>3, <2>3 DEF IsrCancel
    <3> QED
      BY <1>1, <1>3, <2>2, <3>1, WakeByIsr DEF OnRunqueue
  <2>4. ASSUME NEW t \in Threads, mutex_cancel(t, u)
        PROVE  SchedInv(sched') /\ sched'.status = [sched.status EXCEPT ![u] = "PENDING"]
    <3>1. /\ Running(t)
          /\ sched' = [sched_set_status(sched, u, "PENDING")
                          EXCEPT !.call[t] = CallSwitchTo(u)]
      BY <1>3, <2>4 DEF mutex_cancel
    <3>2. CallSwitchTo(u) \in Calls /\ CallSwitchTo(u).op \in {"switch", "switch_to"}
      BY CallTypes
    <3> QED
      BY <1>1, <2>2, <3>1, <3>2, WakeAndSwitch
  <2> QED
    BY <1>3, <2>3, <2>4
<1> QED
  BY <1>2, <1>3

LEMMA MutexCancelKeeps ==
    ASSUME IInv, NEW u \in Threads,
           IsrCancel(u) \/ \E t \in Threads : mutex_cancel(t, u)
    PROVE  IInv'
<1>1. cancel(u)
  BY DEF IsrCancel, mutex_cancel
<1> QED
  BY <1>1, CancelWakes, CancelKeeps

-----------------------------------------------------------------------------
(* The theorems *)

\* The threads have been created, and sched_run() has chosen the first one.
LEMMA BootedInv ==
    SchedInv(Booted) /\ \A x \in Threads : on_runqueue(Booted, x)
<1>1. /\ \A t \in Threads, p \in Prios : Occurs(Runqueues[p], t) <=> Priority[t] = p
      /\ \A p \in Prios : NoDup(Runqueues[p])
  BY KernelAssumption DEF Occurs, NoDup
<1>2. /\ Threads # {} /\ Priority \in [Threads -> Prios]
      /\ Runqueues \in [Prios -> Seq(Threads)]
  BY KernelAssumption
<1> QED
  BY <1>1, <1>2, BootInv, Zenon DEF Booted

\* The invariant holds when the application starts.
LEMMA InitInv == Init => IInv
<1> SUFFICES ASSUME Init PROVE IInv
  OBVIOUS
<1>1. SchedInv(sched) /\ \A x \in Threads : sched.status[x] # "MUTEX_BLOCKED"
  BY BootedInv DEF Init, on_runqueue, OnRunqueue
<1>2. MutexTypes
  BY QueueForms DEF Init, MutexTypes, NoCancel, NotBlocked
<1>3. MutualExclusion /\ HandedOver /\ Cancelable
  BY DEF Init, MutualExclusion, HandedOver, Cancelable
<1>4. ASSUME NEW m \in Mutexes PROVE Exact(queue[m], holder[m], BlockedOn(m))
  <2>1. queue[m] = NULL /\ holder[m] = NoThread /\ BlockedOn(m) = {}
    BY <1>1 DEF Init, BlockedOn
  <2>2. NoDup(NULL)
    BY DEF NoDup, NULL
  <2> QED
    BY <2>1, <2>2, QueueForms DEF Exact
<1>5. QueueExact
  BY <1>2, <1>4, QueueExactIs
<1> QED
  BY <1>1, <1>2, <1>3, <1>5 DEF IInv

\* Every step keeps the invariant.
LEMMA NextInv ==
    ASSUME ~PriorityInheritance
    PROVE  IInv /\ [Next]_vars => IInv'
<1> SUFFICES ASSUME IInv, [Next]_vars PROVE IInv'
  OBVIOUS
<1>1. CASE UNCHANGED vars
  BY <1>1, Untouched DEF vars, IInv
<1>2. CASE Kernel
  BY <1>2, KernelKeeps
<1>3. ASSUME NEW t \in Threads, ThreadStep(t) PROVE IInv'
  <2>1. CASE lock_returns(t)
    BY <2>1, ReturnKeeps
  <2>2. CASE Exit(t) \/ Sleep(t) \/ Yield(t)
    BY <2>2, OthersKeep
  <2>3. CASE \/ mutex_lock_cancelable(t)
             \/ \E m \in Mutexes : mutex_lock(t, m) \/ mutex_trylock(t, m)
    BY <2>3, LockKeeps
  <2>4. CASE \E m \in Mutexes : mutex_cancel_init(t, m)
    BY <2>4, CancelInitKeeps DEF mutex_cancel_init, Running, hvars
  <2>5. CASE \E m \in Mutexes : mutex_unlock(t, m) \/ mutex_unlock_and_sleep(t, m)
    BY <2>5, ThreadUnlockKeeps
  <2>6. CASE \E u \in Threads : mutex_cancel(t, u)
    BY <2>6, MutexCancelKeeps
  <2> QED
    BY <1>3, <2>1, <2>2, <2>3, <2>4, <2>5, <2>6 DEF ThreadStep
<1>4. ASSUME NEW t \in Threads, Wakeup(t) \/ IsrCancel(t) PROVE IInv'
  BY <1>4, OthersKeep, MutexCancelKeeps
<1>5. ASSUME NEW m \in Mutexes, IsrUnlock(m) PROVE IInv'
  BY <1>5, IsrUnlockKeeps
<1> QED
  BY <1>1, <1>2, <1>3, <1>4, <1>5 DEF Next

\* The inductive invariant holds in every state.
THEOREM Inductive ==
    ASSUME ~PriorityInheritance
    PROVE  Spec => []IInv
<1>1. Init => IInv
  BY InitInv
<1>2. IInv /\ [Next]_vars => IInv'
  BY NextInv
<1> QED
  BY <1>1, <1>2, PTL DEF Spec

\* No two threads have been told that they hold the same mutex, whatever
\* threads block, yield, sleep, are preempted, cancelled or exit in between.
THEOREM Exclusion ==
    ASSUME ~PriorityInheritance
    PROVE  Spec => []MutualExclusion
<1>1. IInv => MutualExclusion
  BY DEF IInv
<1> QED
  BY <1>1, Inductive, PTL

\* The wait queues name the blocked threads, each once, and a mutex is free
\* exactly while nobody holds it: no waiter is forgotten and none is woken
\* twice.
THEOREM QueuesExact ==
    ASSUME ~PriorityInheritance
    PROVE  Spec => []QueueExact
<1>1. IInv => QueueExact
  BY DEF IInv
<1> QED
  BY <1>1, Inductive, PTL

\* The status tells whether a thread is on its run queue.
THEOREM RunqueuesAgree ==
    ASSUME ~PriorityInheritance
    PROVE  Spec => []StatusMatchesRunqueue
<1>1. IInv => StatusMatchesRunqueue
  BY DEF IInv, SchedInv, StatusMatchesRunqueue
<1> QED
  BY <1>1, Inductive, PTL

-----------------------------------------------------------------------------
(* The order of the waiters *)

\* The waiters L stand in the order of their priorities pr, and those of the
\* same priority in the order of their arrival: b[x] came before x.
Ordered(L, pr, b) ==
    \A i, j \in DOMAIN L : i < j =>
        \/ pr[L[i]] < pr[L[j]]
        \/ pr[L[i]] = pr[L[j]] /\ L[j] \notin b[L[i]]

\* The order stays when fewer are known to have come before.
LEMMA OrderedSame ==
    ASSUME NEW L, NEW pr, NEW b, NEW c, Ordered(L, pr, b),
           \A i \in DOMAIN L : c[L[i]] \subseteq b[L[i]]
    PROVE  Ordered(L, pr, c)
  BY DEF Ordered

\* K is L with t at pos, behind all that have its priority; t has come before
\* none of L, and c tells of them what b tells.
JoinsAt(L, K, t, pos, pr, b, c) ==
    /\ Inserted(Threads, K, L, pos, t)
    /\ Ordered(L, pr, b)
    /\ \A i \in 1 .. pos - 1 : pr[L[i]] <= pr[t]
    /\ pos <= Len(L) => pr[L[pos]] > pr[t]
    /\ \A x : Occurs(L, x) => c[x] = b[x] /\ t \notin b[x]

\* Where the elements of L are after the insertion.
LEMMA JoinIndices ==
    ASSUME NEW i \in Int, NEW j \in Int, NEW pos \in Int, i < j
    PROVE  \/ i < pos /\ j < pos
           \/ i < pos /\ j > pos /\ i < j - 1
           \/ j = pos /\ i < pos
           \/ i = pos /\ j > pos /\ pos <= j - 1
           \/ i > pos /\ j > pos /\ i - 1 < j - 1
  OBVIOUS

\* A thread that comes in behind all that have its priority keeps the order.
LEMMA OrderedJoin ==
    ASSUME NEW L \in Seq(Threads), NEW K, NEW t \in Threads,
           NEW pos \in 1 .. Len(L) + 1, NEW pr \in [Threads -> Nat], NEW b, NEW c,
           JoinsAt(L, K, t, pos, pr, b, c)
    PROVE  Ordered(K, pr, c)
<1>1. Len(L) \in Nat /\ DOMAIN L = 1 .. Len(L) /\ pos \in Int
  OBVIOUS
<1>2. /\ DOMAIN K = 1 .. Len(L) + 1
      /\ \A i \in 1 .. pos - 1 : K[i] = L[i]
      /\ K[pos] = t
      /\ \A i \in pos + 1 .. Len(L) + 1 : K[i] = L[i - 1]
  BY DEF JoinsAt, Inserted
<1>3. /\ pr[t] \in Nat
      /\ \A i \in 1 .. Len(L) : /\ pr[L[i]] \in Nat
                                /\ c[L[i]] = b[L[i]]
                                /\ t \notin c[L[i]]
  <2>1. \A i \in 1 .. Len(L) : L[i] \in Threads /\ pr[L[i]] \in Nat
    BY <1>1
  <2>2. \A i \in 1 .. Len(L) : Occurs(L, L[i])
    BY <1>1 DEF Occurs
  <2>3. \A i \in 1 .. Len(L) : c[L[i]] = b[L[i]] /\ t \notin b[L[i]]
    BY <2>2 DEF JoinsAt
  <2>4. pr[t] \in Nat
    OBVIOUS
  <2> QED
    BY <2>1, <2>3, <2>4
<1> DEFINE Good(x, y) == pr[x] < pr[y] \/ (pr[x] = pr[y] /\ y \notin c[x])
<1>4. ASSUME NEW k \in 1 .. Len(L), NEW l \in 1 .. Len(L), k < l
      PROVE  Good(L[k], L[l]) /\ pr[L[k]] <= pr[L[l]]
  <2>1. \/ pr[L[k]] < pr[L[l]]
        \/ pr[L[k]] = pr[L[l]] /\ L[l] \notin b[L[k]]
    BY <1>1, <1>4 DEF JoinsAt, Ordered
  <2>2. pr[L[k]] \in Nat /\ pr[L[l]] \in Nat /\ c[L[k]] = b[L[k]]
    BY <1>3
  <2>3. Good(L[k], L[l])
    BY <2>1, <2>2
  <2>4. pr[L[k]] <= pr[L[l]]
    BY <2>1, <2>2
  <2> QED
    BY <2>3, <2>4
<1>5. ASSUME NEW k \in 1 .. Len(L) + 1, k < pos
      PROVE  K[k] = L[k] /\ k \in 1 .. Len(L) /\ k \in 1 .. pos - 1
  <2>1. k \in 1 .. Len(L) /\ k \in 1 .. pos - 1
    BY <1>1, <1>5
  <2> QED
    BY <1>2, <2>1
<1>6. ASSUME NEW k \in 1 .. Len(L) + 1, k > pos
      PROVE  K[k] = L[k - 1] /\ k - 1 \in 1 .. Len(L)
  <2>1. k - 1 \in 1 .. Len(L) /\ k \in pos + 1 .. Len(L) + 1
    BY <1>1, <1>6
  <2> QED
    BY <1>2, <2>1
<1>7. ASSUME NEW k \in 1 .. Len(L), k <= pos - 1 PROVE Good(L[k], t)
  <2>1. k \in 1 .. pos - 1
    BY <1>1, <1>7
  <2>2. pr[L[k]] <= pr[t]
    BY <2>1 DEF JoinsAt
  <2>3. pr[L[k]] \in Nat /\ pr[t] \in Nat /\ t \notin c[L[k]]
    BY <1>3
  <2> QED
    BY <2>2, <2>3
<1>8. ASSUME NEW l \in 1 .. Len(L), pos <= l PROVE Good(t, L[l])
  <2>1. pos \in 1 .. Len(L) /\ pos <= Len(L)
    BY <1>1, <1>8
  <2>2. pr[L[pos]] > pr[t]
    BY <2>1 DEF JoinsAt
  <2>3. pr[L[pos]] <= pr[L[l]]
    <3>1. CASE pos = l
      BY <1>3, <3>1
    <3>2. CASE pos < l
      BY <1>4, <2>1, <3>2
    <3> QED
      BY <1>1, <1>8, <3>1, <3>2
  <2>4. pr[L[pos]] \in Nat /\ pr[L[l]] \in Nat /\ pr[t] \in Nat
    BY <1>3, <2>1
  <2>5. pr[t] < pr[L[l]]
    BY <2>2, <2>3, <2>4
  <2> QED
    BY <2>5
<1> SUFFICES ASSUME NEW i \in 1 .. Len(L) + 1, NEW j \in 1 .. Len(L) + 1, i < j
             PROVE  Good(K[i], K[j])
  BY <1>2 DEF Ordered
<1> HIDE DEF Good
<1>9. i \in Int /\ j \in Int /\ pos \in Int
  BY <1>1
<1>10. CASE i < pos /\ j < pos
  <2>1. K[i] = L[i] /\ i \in 1 .. Len(L) /\ K[j] = L[j] /\ j \in 1 .. Len(L)
    BY <1>5, <1>10
  <2> QED
    BY <1>4, <2>1
<1>11. CASE i < pos /\ j > pos /\ i < j - 1
  <2>1. K[i] = L[i] /\ i \in 1 .. Len(L)
    BY <1>5, <1>11
  <2>2. K[j] = L[j - 1] /\ j - 1 \in 1 .. Len(L)
    BY <1>6, <1>11
  <2>3. Good(L[i], L[j - 1])
    BY <1>4, <1>11, <2>1, <2>2
  <2> QED
    BY <2>1, <2>2, <2>3
<1>12. CASE j = pos /\ i < pos
  <2>1. K[i] = L[i] /\ i \in 1 .. Len(L) /\ K[j] = t
    BY <1>2, <1>5, <1>12
  <2>2. i <= pos - 1
    BY <1>9, <1>12
  <2> QED
    BY <1>7, <2>1, <2>2
<1>13. CASE i = pos /\ j > pos /\ pos <= j - 1
  <2>1. K[i] = t /\ K[j] = L[j - 1] /\ j - 1 \in 1 .. Len(L)
    BY <1>2, <1>6, <1>13
  <2>2. Good(t, L[j - 1])
    BY <1>8, <1>13, <2>1
  <2> QED
    BY <2>1, <2>2
<1>14. CASE i > pos /\ j > pos /\ i - 1 < j - 1
  <2>1. /\ K[i] = L[i - 1] /\ i - 1 \in 1 .. Len(L)
        /\ K[j] = L[j - 1] /\ j - 1 \in 1 .. Len(L)
    BY <1>6, <1>14
  <2>2. Good(L[i - 1], L[j - 1])
    BY <1>4, <1>14, <2>1
  <2> QED
    BY <2>1, <2>2
<1> QED
  BY <1>9, <1>10, <1>11, <1>12, <1>13, <1>14, JoinIndices

\* A thread that leaves, from wherever it stands, keeps the order.
LEMMA OrderedLeave ==
    ASSUME NEW L \in Seq(Threads), NEW K, NEW pos \in DOMAIN L,
           Removed(Threads, K, L, pos), NEW pr, NEW b, Ordered(L, pr, b)
    PROVE  Ordered(K, pr, b)
<1>1. Len(L) \in Nat /\ DOMAIN L = 1 .. Len(L) /\ pos \in 1 .. Len(L)
  OBVIOUS
<1>2. /\ DOMAIN K = 1 .. Len(L) - 1
      /\ \A i \in 1 .. pos - 1 : K[i] = L[i]
      /\ \A i \in pos .. Len(L) - 1 : K[i] = L[i + 1]
  BY DEF Removed
<1> DEFINE From(i) == IF i < pos THEN i ELSE i + 1
<1>3. ASSUME NEW i \in 1 .. Len(L) - 1
      PROVE  From(i) \in 1 .. Len(L) /\ K[i] = L[From(i)]
  <2>1. CASE i < pos
    <3>1. i \in 1 .. pos - 1 /\ i \in 1 .. Len(L)
      BY <1>1, <2>1
    <3> QED
      BY <1>2, <2>1, <3>1
  <2>2. CASE ~(i < pos)
    <3>1. i \in pos .. Len(L) - 1 /\ i + 1 \in 1 .. Len(L)
      BY <1>1, <2>2
    <3> QED
      BY <1>2, <2>2, <3>1
  <2> QED
    BY <2>1, <2>2
<1>4. ASSUME NEW i \in 1 .. Len(L) - 1, NEW j \in 1 .. Len(L) - 1, i < j
      PROVE  From(i) < From(j)
  BY <1>1, <1>4
<1> HIDE DEF From
<1> SUFFICES ASSUME NEW i \in 1 .. Len(L) - 1, NEW j \in 1 .. Len(L) - 1, i < j
             PROVE  \/ pr[K[i]] < pr[K[j]]
                    \/ pr[K[i]] = pr[K[j]] /\ K[j] \notin b[K[i]]
  BY <1>2 DEF Ordered
<1>5. /\ From(i) \in 1 .. Len(L) /\ K[i] = L[From(i)]
      /\ From(j) \in 1 .. Len(L) /\ K[j] = L[From(j)]
      /\ From(i) < From(j)
  <2>1. From(i) \in 1 .. Len(L) /\ K[i] = L[From(i)]
    BY <1>3
  <2>2. From(j) \in 1 .. Len(L) /\ K[j] = L[From(j)]
    BY <1>3
  <2>3. From(i) < From(j)
    BY <1>4
  <2> QED
    BY <2>1, <2>2, <2>3
<1>6. \/ pr[L[From(i)]] < pr[L[From(j)]]
      \/ pr[L[From(i)]] = pr[L[From(j)]] /\ L[From(j)] \notin b[L[From(i)]]
  BY <1>1, <1>5 DEF Ordered
<1> QED
  BY <1>5, <1>6

\* The waiters of m, in the order of its queue.
Line(m) == IF HasWaiters(m) THEN queue[m] ELSE NULL

\* Every queue is in order.
InLine == \A m \in Mutexes : Ordered(Line(m), sched.priority, before)

\* Those that came before a waiter and still wait do so for the same mutex:
\* the history names no thread that has left.
SeenBefore ==
    /\ before \in [Threads -> SUBSET Threads]
    /\ \A m \in Mutexes : \A t \in Waiters(m) : before[t] \subseteq Waiters(m)

\* A call that still waits has not been cancelled.
WaitsUncancelled ==
    \A t \in Threads :
        sched.status[t] = "MUTEX_BLOCKED" /\ mc[t].mutex = blocked[t].mutex
            => ~mc[t].cancelled

\* The inductive invariant of NoOvertaking.
OInv == IInv /\ InLine /\ SeenBefore /\ WaitsUncancelled

\* The line of m names the waiters of m.
LinesExact ==
    \A m \in Mutexes :
        /\ Line(m) \in Seq(Threads)
        /\ NoDup(Line(m))
        /\ \A t \in Threads : t \in Waiters(m) <=> Occurs(Line(m), t)

LEMMA LinesAre == IInv => LinesExact
<1> SUFFICES ASSUME IInv, NEW m \in Mutexes
             PROVE  /\ Line(m) \in Seq(Threads)
                    /\ NoDup(Line(m))
                    /\ \A t \in Threads : t \in Waiters(m) <=> Occurs(Line(m), t)
  BY DEF LinesExact
<1>1. /\ HasWaiters(m) => queue[m] \in Seq(Threads)
      /\ Exact(queue[m], holder[m], BlockedOn(m))
  BY QueueExactIs DEF IInv, MutexTypes, HasWaiters
<1>2. CASE HasWaiters(m)
  BY <1>1, <1>2 DEF Line, Waiters, Occurs, Exact
<1>3. CASE ~HasWaiters(m)
  <2>1. NoDup(NULL)
    BY DEF NoDup, NULL
  <2> QED
    BY <1>3, <2>1, QueueForms DEF Line, Waiters
<1> QED
  BY <1>2, <1>3

LEMMA LinesNext == IInv' => LinesExact'
  BY LinesAre, PTL

\* No line changes.
SameLines == before' = before /\ \A k \in Mutexes : Line(k)' = Line(k)

\* t begins to wait for m, behind the waiters that have its priority, in a
\* call that has not been cancelled.
JoinsLine(t, m) ==
    /\ mc' = mc /\ ~(mc[t].mutex = m /\ mc[t].cancelled)
    /\ \A k \in Mutexes : ~Occurs(Line(k), t)
    /\ \A k \in Mutexes \ {m} : Line(k)' = Line(k)
    /\ \E pos \in 1 .. Len(Line(m)) + 1 :
          /\ Inserted(Threads, Line(m)', Line(m), pos, t)
          /\ \A i \in 1 .. pos - 1 : sched.priority[Line(m)[i]] <= sched.priority[t]
          /\ pos <= Len(Line(m)) => sched.priority[Line(m)[pos]] > sched.priority[t]
    /\ before' = [before EXCEPT ![t] = Waiters(m)]

\* u stops waiting for m: it was the first, or its call is cancelled.
LeavesLine(u, m) ==
    /\ \A k \in Mutexes \ {m} : Line(k)' = Line(k)
    /\ \E pos \in DOMAIN Line(m) :
          /\ Line(m)[pos] = u
          /\ Removed(Threads, Line(m)', Line(m), pos)
          /\ pos = 1 \/ mc'[u] # mc[u]
    /\ before' = Leaves(u)

\* What a step does to the lines.
LineStep ==
    \/ SameLines
    \/ \E t \in Threads, m \in Mutexes : JoinsLine(t, m) \/ LeavesLine(t, m)

LEMMA WiderRange ==
    ASSUME NEW S, NEW T, NEW U, T \subseteq U, NEW f \in [S -> T]
    PROVE  f \in [S -> U]
  OBVIOUS

LEMMA PrioritiesNat ==
    ASSUME OInv
    PROVE  sched.priority \in [Threads -> Nat]
<1>1. Prios \subseteq Nat
  BY SchedAssumption DEF Prios
<1>2. sched \in SchedState
  BY DEF OInv, IInv, SchedInv
<1>3. sched.priority \in [Threads -> Prios]
  BY <1>2, SchedFields
<1> QED
  BY ZenonT(30), <1>1, <1>3, WiderRange

\* Such a step keeps the order.
LEMMA LineStepKeeps ==
    ASSUME OInv, IInv', LineStep, sched'.priority = sched.priority
    PROVE  InLine' /\ SeenBefore'
<1>1. /\ LinesExact /\ LinesExact' /\ InLine /\ SeenBefore
      /\ sched.priority \in [Threads -> Nat]
  <2>1. sched.priority \in [Threads -> Nat]
    BY PrioritiesNat
  <2> QED
    BY <2>1, LinesAre, LinesNext DEF OInv
<1>2. CASE SameLines
  <2>1. ASSUME NEW m \in Mutexes PROVE Waiters(m)' = Waiters(m)
    BY SMTT(30), <1>1, <1>2 DEF LinesExact, SameLines, Waiters
  <2> QED
    BY <1>1, <1>2, <2>1 DEF SameLines, InLine, SeenBefore
<1>3. ASSUME NEW t \in Threads, NEW m \in Mutexes, JoinsLine(t, m)
      PROVE  InLine' /\ SeenBefore'
  <2>1. /\ \A k \in Mutexes : ~Occurs(Line(k), t)
        /\ \A k \in Mutexes \ {m} : Line(k)' = Line(k)
        /\ before' = [before EXCEPT ![t] = Waiters(m)]
    BY <1>3 DEF JoinsLine
  <2>2. PICK pos \in 1 .. Len(Line(m)) + 1 :
          /\ Inserted(Threads, Line(m)', Line(m), pos, t)
          /\ \A i \in 1 .. pos - 1 : sched.priority[Line(m)[i]] <= sched.priority[t]
          /\ pos <= Len(Line(m)) => sched.priority[Line(m)[pos]] > sched.priority[t]
    BY <1>3 DEF JoinsLine
  <2>3. \A k \in Mutexes : /\ Line(k) \in Seq(Threads)
                           /\ \A x \in Threads : x \in Waiters(k) <=> Occurs(Line(k), x)
                           /\ \A x \in Threads : x \in Waiters(k)' <=> Occurs(Line(k)', x)
    BY <1>1 DEF LinesExact
  <2>4. \A k \in Mutexes : \A x : Occurs(Line(k), x) => x \in Threads
    BY <2>3 DEF Occurs
  <2>5. \A x : Occurs(Line(m)', x) <=> Occurs(Line(m), x) \/ x = t
    BY <2>2, <2>3, InsertedList
  <2>6. /\ \A x \in Threads \ {t} : before'[x] = before[x]
        /\ before'[t] = Waiters(m)
        /\ before' \in [Threads -> SUBSET Threads]
    BY <1>1, <2>1 DEF SeenBefore, Waiters
  <2>7. ASSUME NEW k \in Mutexes
        PROVE  \A x : Occurs(Line(k), x) => before'[x] = before[x] /\ t \notin before[x]
    <3> SUFFICES ASSUME NEW x, Occurs(Line(k), x)
                 PROVE  before'[x] = before[x] /\ t \notin before[x]
      OBVIOUS
    <3>1. x \in Threads /\ x # t /\ x \in Waiters(k) /\ t \notin Waiters(k)
      BY <2>1, <2>3, <2>4
    <3>2. before[x] \subseteq Waiters(k)
      BY <1>1, <3>1 DEF SeenBefore
    <3> QED
      BY <2>6, <3>1, <3>2
  <2>8. ASSUME NEW k \in Mutexes
        PROVE  Ordered(Line(k)', sched.priority, before')
    <3>1. Ordered(Line(k), sched.priority, before)
      BY <1>1 DEF InLine
    <3>2. CASE k = m
      <4>1. JoinsAt(Line(m), Line(m)', t, pos, sched.priority, before, before')
        BY <2>2, <2>7, <3>1, <3>2 DEF JoinsAt
      <4> QED
        BY <1>1, <2>3, <3>2, <4>1, OrderedJoin
    <3>3. CASE k # m
      <4>1. Line(k)' = Line(k)
        BY <2>1, <3>3
      <4>2. \A i \in DOMAIN Line(k) : before'[Line(k)[i]] \subseteq before[Line(k)[i]]
        BY <2>7 DEF Occurs
      <4>3. Ordered(Line(k), sched.priority, before')
        BY <3>1, <4>2, OrderedSame
      <4> QED
        BY <4>1, <4>3
    <3> QED
      BY <3>2, <3>3
  <2>9. ASSUME NEW k \in Mutexes, NEW x \in Waiters(k)' PROVE before'[x] \subseteq Waiters(k)'
    <3>1. x \in Threads /\ Occurs(Line(k)', x) /\ Waiters(k) \subseteq Threads
      BY <2>3 DEF Waiters
    <3>2. Waiters(k) \subseteq Waiters(k)'
      BY <2>1, <2>3, <2>5, <3>1
    <3>3. CASE x = t
      <4>1. k = m
        BY <2>1, <3>1, <3>3
      <4> QED
        BY <2>6, <3>2, <3>3, <4>1
    <3>4. CASE x # t
      <4>1. x \in Waiters(k)
        BY <2>1, <2>3, <2>5, <3>1, <3>4
      <4> QED
        BY <1>1, <2>6, <3>1, <3>2, <3>4, <4>1 DEF SeenBefore
    <3> QED
      BY <3>3, <3>4
  <2> QED
    BY <2>6, <2>8, <2>9 DEF InLine, SeenBefore
<1>4. ASSUME NEW u \in Threads, NEW m \in Mutexes, LeavesLine(u, m)
      PROVE  InLine' /\ SeenBefore'
  <2>1. /\ \A k \in Mutexes \ {m} : Line(k)' = Line(k)
        /\ before' = Leaves(u)
    BY <1>4 DEF LeavesLine
  <2>2. PICK pos \in DOMAIN Line(m) :
            Line(m)[pos] = u /\ Removed(Threads, Line(m)', Line(m), pos)
    BY <1>4 DEF LeavesLine
  <2>3. \A k \in Mutexes : /\ Line(k) \in Seq(Threads) /\ NoDup(Line(k))
                           /\ \A x \in Threads : x \in Waiters(k) <=> Occurs(Line(k), x)
                           /\ \A x \in Threads : x \in Waiters(k)' <=> Occurs(Line(k)', x)
    BY <1>1 DEF LinesExact
  <2>4. \A x : Occurs(Line(m)', x) <=> Occurs(Line(m), x) /\ x # u
    BY SMTT(30), <2>2, <2>3, RemovedList
  <2>5. /\ \A x \in Threads : before'[x] = IF x = u THEN {} ELSE before[x] \ {u}
        /\ before' \in [Threads -> SUBSET Threads]
    BY <1>1, <2>1 DEF SeenBefore, Leaves
  <2>6. ASSUME NEW k \in Mutexes
        PROVE  Ordered(Line(k)', sched.priority, before')
    <3>1. Ordered(Line(k), sched.priority, before)
      BY <1>1 DEF InLine
    <3>2. \A x \in Threads : before'[x] \subseteq before[x]
      BY <2>5
    <3>3. Ordered(Line(k)', sched.priority, before) /\ Line(k)' \in Seq(Threads)
      <4>1. CASE k = m
        BY <2>2, <2>3, <3>1, <4>1, OrderedLeave DEF Removed
      <4>2. CASE k # m
        BY <2>1, <2>3, <3>1, <4>2
      <4> QED
        BY <4>1, <4>2
    <3>4. \A i \in DOMAIN Line(k)' : Line(k)'[i] \in Threads
      <4> DEFINE q == Line(k)'
      <4>1. q \in Seq(Threads)
        BY <3>3
      <4> HIDE DEF q
      <4>2. \A i \in DOMAIN q : q[i] \in Threads
        BY <4>1
      <4> QED
        BY <4>2 DEF q
    <3> QED
      BY <3>2, <3>3, <3>4, OrderedSame
  <2>7. ASSUME NEW k \in Mutexes, NEW x \in Waiters(k)' PROVE before'[x] \subseteq Waiters(k)'
    <3>1. x \in Threads /\ Occurs(Line(k)', x)
      BY <2>3 DEF Waiters
    <3>2. x \in Waiters(k)
      BY <2>1, <2>3, <2>4, <3>1
    <3>3. before[x] \subseteq Waiters(k) /\ before[x] \subseteq Threads
      BY <1>1, <3>1, <3>2 DEF SeenBefore
    <3>4. \A y \in Waiters(k) \ {u} : y \in Threads => y \in Waiters(k)'
      BY <2>1, <2>3, <2>4
    <3> QED
      BY <2>5, <3>1, <3>3, <3>4
  <2> QED
    BY <2>5, <2>6, <2>7 DEF InLine, SeenBefore
<1> QED
  BY <1>2, <1>3, <1>4 DEF LineStep

\* Whoever stops waiting without having been cancelled was ahead of the others.
LEMMA FirstLeaves ==
    ASSUME OInv, IInv', LineStep, NEW m \in Mutexes,
           NEW u \in Waiters(m) \ Waiters(m)', mc'[u] = mc[u],
           NEW w \in Waiters(m) \ {u}
    PROVE  \/ sched.priority[w] > sched.priority[u]
           \/ sched.priority[w] = sched.priority[u] /\ w \notin before[u]
<1>1. LinesExact /\ LinesExact' /\ InLine
  BY LinesAre, LinesNext DEF OInv
<1>2. /\ u \in Threads /\ w \in Threads
      /\ Occurs(Line(m), u) /\ ~Occurs(Line(m)', u) /\ Occurs(Line(m), w)
      /\ Line(m) \in Seq(Threads)
  BY <1>1 DEF LinesExact, Waiters
<1>3. PICK t \in Threads, k \in Mutexes : JoinsLine(t, k) \/ LeavesLine(t, k)
  BY <1>2 DEF LineStep, SameLines
<1>4. k = m
  BY <1>2, <1>3 DEF JoinsLine, LeavesLine
<1>5. ~JoinsLine(t, m)
  <2> SUFFICES ASSUME JoinsLine(t, m) PROVE FALSE
    OBVIOUS
  <2>1. PICK pos \in 1 .. Len(Line(m)) + 1 : Inserted(Threads, Line(m)', Line(m), pos, t)
    BY DEF JoinsLine
  <2>2. \A x : Occurs(Line(m)', x) <=> Occurs(Line(m), x) \/ x = t
    BY <1>2, <2>1, InsertedList
  <2> QED
    BY <1>2, <2>2
<1>6. PICK pos \in DOMAIN Line(m) : /\ Line(m)[pos] = t
                                    /\ Removed(Threads, Line(m)', Line(m), pos)
                                    /\ pos = 1 \/ mc'[t] # mc[t]
  BY <1>3, <1>4, <1>5 DEF LeavesLine
<1>7. t = u
  <2>1. Removed(Threads, Line(m)', Line(m), pos) /\ Line(m)[pos] = t
    BY <1>6
  <2>2. \A x : x # Line(m)[pos] => (Occurs(Line(m)', x) <=> Occurs(Line(m), x))
    BY <1>2, <2>1, RemovedList
  <2> QED
    BY <1>2, <2>1, <2>2
<1>8. pos = 1 /\ Line(m)[1] = u
  BY <1>6, <1>7
<1>9. PICK j \in DOMAIN Line(m) : Line(m)[j] = w
  BY <1>2 DEF Occurs
<1>10. 1 \in DOMAIN Line(m) /\ 1 < j
  <2>1. 1 \in DOMAIN Line(m) /\ j # 1
    BY <1>6, <1>8, <1>9
  <2> DEFINE q == Line(m)
  <2>2. q \in Seq(Threads) /\ j \in DOMAIN q
    BY <1>2, <1>9
  <2> HIDE DEF q
  <2>3. j \in Nat /\ j >= 1
    BY <2>2
  <2> QED
    BY <2>1, <2>3
<1>11. \/ sched.priority[u] < sched.priority[w]
       \/ sched.priority[u] = sched.priority[w] /\ w \notin before[u]
  <2>1. Ordered(Line(m), sched.priority, before)
    BY <1>1 DEF InLine
  <2> QED
    BY <1>8, <1>9, <1>10, <2>1 DEF Ordered
<1>12. sched.priority[u] \in Nat /\ sched.priority[w] \in Nat
  BY <1>2, PrioritiesNat
<1> QED
  BY <1>11, <1>12

\* Without priority inheritance no step changes a priority.
LEMMA PriorityKept ==
    ASSUME ~PriorityInheritance, IInv, [Next]_vars
    PROVE  sched'.priority = sched.priority
<1>1. sched \in SchedState /\ RunqueueExact(sched) /\ SchedInv(sched)
  BY DEF IInv, SchedInv
<1>2. /\ {"PENDING", "RUNNING", "SLEEPING", "MUTEX_BLOCKED"} \subseteq Status
      /\ CallYield \in Calls
      /\ \A x \in Threads : /\ CallSwitch(sched.priority[x]) \in Calls
                            /\ CallSwitchTo(x) \in Calls
  BY <1>1, CallTypes, SchedFields DEF Status, OnRunqueue, BlockedStatus
<1>3. ASSUME NEW u \in Threads, NEW st \in Status, NEW p,
             IsrEnds(sched_set_status(sched, u, st), p)
      PROVE  sched'.priority = sched.priority
  <2>1. PICK garbage \in BOOLEAN :
            sched' = cortexm_isr_end(sched_switch_isr(sched_set_status(sched, u, st), p,
                                                      garbage))
    BY <1>3 DEF IsrEnds
  <2> QED
    BY <1>1, <2>1, IsrPriority
<1>4. CASE sched' = sched
  BY <1>4
<1>5. CASE Kernel
  BY <1>1, <1>5, KernelPriority DEF Kernel
<1>6. ASSUME NEW t \in Threads, ThreadStep(t), sched' # sched
      PROVE  sched'.priority = sched.priority
  <2>1. CASE Exit(t)
    BY <1>1, <2>1, ExitPriority DEF Exit
  <2>2. CASE Sleep(t)
    BY <1>1, <1>2, <2>2, StatusPriority DEF Sleep, Sleeps
  <2>3. CASE Yield(t)
    BY <1>1, <2>3, YieldPriority DEF Yield
  <2>4. ASSUME NEW m, NEW fn, block(t, m, fn) PROVE sched'.priority = sched.priority
    <3>1. sched' = [sched_set_status(sched, t, "MUTEX_BLOCKED") EXCEPT !.call[t] = CallYield]
      BY <2>4 DEF block, HasOwner
    <3> QED
      BY <1>1, <1>2, <3>1, StatusPriority
  <2>5. CASE mutex_lock_cancelable(t)
    BY <1>6, <2>4, <2>5 DEF mutex_lock_cancelable, acquire
  <2>6. ASSUME NEW m \in Mutexes, mutex_lock(t, m) PROVE sched'.priority = sched.priority
    BY <1>6, <2>4, <2>6 DEF mutex_lock, acquire
  <2>7. ASSUME NEW m \in Mutexes, mutex_unlock(t, m) PROVE sched'.priority = sched.priority
    <3>1. HasWaiters(m)
      BY <1>6, <2>7 DEF mutex_unlock, unlock_section
    <3>2. Head(queue[m]) \in Threads
      BY <3>1, FirstWaiter
    <3>3. sched' = [sched_set_status(sched, Head(queue[m]), "PENDING")
                       EXCEPT !.call[t] = CallSwitch(sched.priority[Head(queue[m])])]
      BY <2>7, <3>1, HandOverWakes DEF mutex_unlock, unlock_section
    <3> QED
      BY <1>1, <1>2, <3>2, <3>3, StatusPriority
  <2>8. ASSUME NEW m \in Mutexes, mutex_unlock_and_sleep(t, m)
        PROVE  sched'.priority = sched.priority
    <3> DEFINE s == IF HasWaiters(m)
                    THEN sched_set_status(sched, Head(queue[m]), "PENDING") ELSE sched
    <3>1. s \in SchedState /\ s.priority = sched.priority
      <4>1. CASE HasWaiters(m)
        <5>1. Head(queue[m]) \in Threads /\ "PENDING" \in Status
          BY <1>2, <4>1, FirstWaiter
        <5> QED
          BY <1>1, <4>1, <5>1, SetStatusOnly DEF SameButQueues
      <4>2. CASE ~HasWaiters(m)
        BY <1>1, <4>2
      <4> QED
        BY <4>1, <4>2
    <3>2. sched' = [sched_set_status(s, t, "SLEEPING") EXCEPT !.call[t] = CallYield]
      BY <2>8 DEF mutex_unlock_and_sleep
    <3> HIDE DEF s
    <3> QED
      BY <1>2, <3>1, <3>2, StatusPriority
  <2>9. ASSUME NEW u \in Threads, mutex_cancel(t, u) PROVE sched'.priority = sched.priority
    <3>1. sched' = [sched_set_status(sched, u, "PENDING") EXCEPT !.call[t] = CallSwitchTo(u)]
      BY <1>6, <2>9 DEF mutex_cancel
    <3> QED
      BY <1>1, <1>2, <3>1, StatusPriority
  <2> QED
    BY <1>6, <2>1, <2>2, <2>3, <2>5, <2>6, <2>7, <2>8, <2>9
       DEF ThreadStep, lock_returns, mutex_trylock, mutex_cancel_init, acquire
<1>7. ASSUME NEW t \in Threads, Wakeup(t) PROVE sched'.priority = sched.priority
  BY <1>2, <1>3, <1>7 DEF Wakeup, IsrWakes, wakeup
<1>8. ASSUME NEW t \in Threads, IsrCancel(t), sched' # sched
      PROVE  sched'.priority = sched.priority
  BY <1>2, <1>3, <1>8 DEF IsrCancel
<1>9. ASSUME NEW m \in Mutexes, IsrUnlock(m), sched' # sched
      PROVE  sched'.priority = sched.priority
  <2>1. HasWaiters(m)
    BY <1>9 DEF IsrUnlock
  <2>2. IsrEnds(sched_set_status(sched, Head(queue[m]), "PENDING"),
                sched.priority[Head(queue[m])])
    BY <1>9, <2>1, HandOverWakes DEF IsrUnlock
  <2> QED
    BY <1>2, <1>3, <2>1, <2>2, FirstWaiter
<1> QED
  BY <1>4, <1>5, <1>6, <1>7, <1>8, <1>9 DEF Next, vars

\* acquire() and the unlock of a mutex nobody waits for leave the lines alone.
LEMMA FreeLines ==
    ASSUME IInv, NEW m \in Mutexes, ~HasWaiters(m), before' = before,
           queue' \in {[queue EXCEPT ![m] = NULL], [queue EXCEPT ![m] = MUTEX_LOCKED]}
    PROVE  SameLines
<1>1. queue \in [Mutexes -> Seq(Threads) \cup {MUTEX_LOCKED}]
  BY DEF IInv, MutexTypes
<1>2. ASSUME NEW k \in Mutexes PROVE Line(k)' = Line(k)
  BY <1>1 DEF Line, HasWaiters
<1> QED
  BY <1>2 DEF SameLines

\* _block() puts the thread where thread_add_to_list() inserts it.
LEMMA BlockJoins ==
    ASSUME ~PriorityInheritance, IInv, NEW t \in Threads, NEW m \in Mutexes, NEW fn,
           Running(t), block(t, m, fn), mc' = mc, mc[t].mutex = m => ~mc[t].cancelled
    PROVE  JoinsLine(t, m)
<1> DEFINE s1 == sched_set_status(sched, t, "MUTEX_BLOCKED")
<1>1. /\ queue[m] # NULL
      /\ queue' = [queue EXCEPT ![m] = IF @ = MUTEX_LOCKED THEN <<t>>
                                       ELSE thread_add_to_list(s1, @, t)]
      /\ before' = [before EXCEPT ![t] = Waiters(m)]
  BY DEF block, HasOwner
<1>2. s1 \in SchedState /\ s1.priority = sched.priority
  BY SetStatusOnly DEF IInv, SchedInv, Status, BlockedStatus, SameButQueues
<1> HIDE DEF s1
<1>3. /\ queue \in [Mutexes -> Seq(Threads) \cup {MUTEX_LOCKED}] /\ LinesExact
      /\ QueueExact /\ SchedInv(sched)
  BY LinesAre DEF IInv, MutexTypes
<1>4. \A k \in Mutexes : ~Occurs(Line(k), t)
  BY <1>3, RunningThread DEF LinesExact, QueueExact
<1>5. \A k \in Mutexes \ {m} : Line(k)' = Line(k)
  BY <1>1, <1>3 DEF Line, HasWaiters
<1>6. \E pos \in 1 .. Len(Line(m)) + 1 :
          /\ Inserted(Threads, Line(m)', Line(m), pos, t)
          /\ \A i \in 1 .. pos - 1 : sched.priority[Line(m)[i]] <= sched.priority[t]
          /\ pos <= Len(Line(m)) => sched.priority[Line(m)[pos]] > sched.priority[t]
  <2>1. CASE queue[m] = MUTEX_LOCKED
    <3>1. queue'[m] = <<t>> /\ <<t>> # NULL /\ <<t>> # MUTEX_LOCKED
      <4>1. <<t>> \in Seq(Threads) /\ <<t>> # << >>
        OBVIOUS
      <4>2. queue'[m] = <<t>>
        BY <1>1, <1>3, <2>1
      <4> QED
        BY <4>1, <4>2, MutexAssumption DEF NULL
    <3>2. Line(m)' = <<t>> /\ Line(m) = << >>
      BY <2>1, <3>1 DEF Line, HasWaiters, NULL
    <3>3. Inserted(Threads, <<t>>, << >>, 1, t)
      BY DEF Inserted
    <3>4. Len(<< >>) = 0
      OBVIOUS
    <3> QED
      BY SMTT(30), <3>2, <3>3, <3>4
  <2>2. CASE queue[m] # MUTEX_LOCKED
    <3>1. queue[m] \in Seq(Threads) /\ Line(m) = queue[m]
      BY <1>1, <1>3, <2>2 DEF Line, HasWaiters
    <3> DEFINE r == thread_add_to_list(s1, queue[m], t)
    <3>2. r \in Seq(Threads) /\ r # << >>
      BY <1>2, <3>1, AddToList
    <3>3. PICK pos \in 1 .. Len(queue[m]) + 1 :
               /\ Inserted(Threads, r, queue[m], pos, t)
               /\ \A i \in 1 .. pos - 1 : s1.priority[queue[m][i]] <= s1.priority[t]
               /\ pos <= Len(queue[m]) => s1.priority[queue[m][pos]] > s1.priority[t]
      BY <1>2, <3>1, AddToListAt
    <3>4. queue'[m] = r
      BY <1>1, <1>3, <2>2
    <3> HIDE DEF r
    <3>5. Line(m)' = r
      BY <3>2, <3>4, MutexAssumption DEF Line, HasWaiters, NULL
    <3> QED
      BY <1>2, <3>1, <3>3, <3>5
  <2> QED
    BY <2>1, <2>2
<1> QED
  BY <1>1, <1>4, <1>5, <1>6 DEF JoinsLine

\* An unlock takes the first waiter off its line.
LEMMA UnlockLeaves ==
    ASSUME IInv, NEW m \in Mutexes, HasWaiters(m), unlock_queue(m)
    PROVE  Head(queue[m]) \in Threads /\ LeavesLine(Head(queue[m]), m)
<1>1. queue \in [Mutexes -> Seq(Threads) \cup {MUTEX_LOCKED}]
  BY DEF IInv, MutexTypes
<1>2. /\ queue[m] \in Seq(Threads) /\ queue[m] # << >> /\ Line(m) = queue[m]
      /\ Head(queue[m]) \in Threads
  BY FirstWaiter DEF Line, NULL
<1>3. queue' = [queue EXCEPT ![m] = dequeue(m)] /\ before' = Leaves(Head(queue[m]))
  BY DEF unlock_queue
<1>4. \A k \in Mutexes \ {m} : Line(k)' = Line(k)
  BY <1>1, <1>3 DEF Line, HasWaiters
<1>5. Line(m)' = Tail(queue[m])
  <2>1. queue'[m] = IF Tail(queue[m]) = NULL THEN MUTEX_LOCKED ELSE Tail(queue[m])
    BY <1>1, <1>3 DEF dequeue
  <2>2. Tail(queue[m]) \in Seq(Threads)
    BY <1>2
  <2> QED
    BY <2>1, <2>2, MutexAssumption DEF Line, HasWaiters
<1>6. /\ 1 \in DOMAIN queue[m] /\ queue[m][1] = Head(queue[m])
      /\ Removed(Threads, Tail(queue[m]), queue[m], 1)
  <2> DEFINE q == queue[m]
  <2>1. q \in Seq(Threads) /\ q # << >>
    BY <1>2
  <2> HIDE DEF q
  <2>2. 1 \in DOMAIN q /\ q[1] = Head(q) /\ Removed(Threads, Tail(q), q, 1)
    BY <2>1 DEF Removed
  <2> QED
    BY <2>2 DEF q
<1> QED
  BY <1>2, <1>3, <1>4, <1>5, <1>6 DEF LeavesLine

\* mutex_cancel() takes the waiter off its line, and changes its mc.
LEMMA CancelLeaves ==
    ASSUME OInv, NEW u \in Threads, cancel(u), CancelDequeues(u),
           NEW m \in Mutexes, m = mc[u].mutex
    PROVE  LeavesLine(u, m)
<1>1. /\ MutexTypes /\ QueueExact /\ LinesExact /\ WaitsUncancelled
      /\ queue \in [Mutexes -> Seq(Threads) \cup {MUTEX_LOCKED}]
  BY LinesAre DEF OInv, IInv, MutexTypes
<1> DEFINE rest == list_remove(queue[m], u)
<1>2. /\ mc[u] # NoCancel /\ mc' = [mc EXCEPT ![u].cancelled = TRUE]
      /\ queue' = [queue EXCEPT ![m] = IF rest = NULL THEN MUTEX_LOCKED ELSE rest]
      /\ before' = Leaves(u)
  BY DEF cancel
<1>3. u \in Waiters(m)
  BY DEF CancelDequeues
<1>4. mc'[u] # mc[u]
  <2>1. sched.status[u] = "MUTEX_BLOCKED" /\ blocked[u].mutex = m
    <3>1. \A x \in Threads : x \in Waiters(m) <=>
              sched.status[x] = "MUTEX_BLOCKED" /\ blocked[x].mutex = m
      BY <1>1 DEF QueueExact
    <3> QED
      BY <1>3, <3>1
  <2>2. ~mc[u].cancelled
    BY <1>1, <2>1 DEF WaitsUncancelled
  <2>3. /\ mc \in [Threads -> [mutex : Mutexes \cup {NoMutex}, cancelled : BOOLEAN]]
        /\ mc' = [mc EXCEPT ![u] = [mc[u] EXCEPT !.cancelled = TRUE]]
    BY <1>1, <1>2 DEF MutexTypes
  <2>4. mc'[u].cancelled
    BY <2>3
  <2> QED
    BY <2>2, <2>4
<1>5. queue[m] \in Seq(Threads) /\ Line(m) = queue[m] /\ Occurs(queue[m], u)
  BY <1>1, <1>3 DEF Line, HasWaiters, Waiters, Occurs
<1>6. PICK pos \in DOMAIN queue[m] :
          queue[m][pos] = u /\ Removed(Threads, rest, queue[m], pos)
  BY <1>5, RemoveFromListAt
<1> HIDE DEF rest
<1>7. rest \in Seq(Threads)
  BY <1>6 DEF Removed
<1>8. Line(m)' = rest
  <2>1. queue'[m] = IF rest = NULL THEN MUTEX_LOCKED ELSE rest
    BY <1>1, <1>2
  <2> QED
    BY <1>7, <2>1, MutexAssumption DEF Line, HasWaiters
<1>9. \A k \in Mutexes \ {m} : Line(k)' = Line(k)
  BY <1>1, <1>2 DEF Line, HasWaiters
<1> QED
  BY <1>2, <1>4, <1>5, <1>6, <1>8, <1>9 DEF LeavesLine

\* Every step is one of the three.
LEMMA EveryLineStep ==
    ASSUME ~PriorityInheritance, OInv, [Next]_vars
    PROVE  LineStep
<1>1. IInv
  BY DEF OInv
<1>2. CASE queue' = queue /\ before' = before
  BY <1>2 DEF LineStep, SameLines, Line, HasWaiters
<1>3. ASSUME NEW t \in Threads, NEW m \in Mutexes, acquire(t, m) PROVE LineStep
  BY <1>1, <1>3, FreeLines DEF acquire, HasWaiters, LineStep
<1>4. ASSUME NEW t \in Threads, NEW m \in Mutexes, NEW fn, Running(t), block(t, m, fn),
             mc' = mc, mc[t].mutex = m => ~mc[t].cancelled
      PROVE  LineStep
  BY <1>1, <1>4, BlockJoins DEF LineStep
<1>5. ASSUME NEW m \in Mutexes, unlock_queue(m) PROVE LineStep
  <2>1. CASE HasWaiters(m)
    BY <1>1, <1>5, <2>1, UnlockLeaves DEF LineStep
  <2>2. CASE ~HasWaiters(m)
    BY <1>1, <1>5, <2>2, FreeLines DEF unlock_queue, LineStep
  <2> QED
    BY <2>1, <2>2
<1>6. ASSUME NEW u \in Threads, cancel(u) PROVE LineStep
  <2>1. PICK m \in Mutexes : m = mc[u].mutex
    BY <1>1, <1>6 DEF cancel, IInv, MutexTypes
  <2>2. CASE CancelDequeues(u)
    BY <1>6, <2>1, <2>2, CancelLeaves DEF LineStep
  <2>3. CASE ~CancelDequeues(u)
    BY <1>2, <1>6, <2>3 DEF cancel
  <2> QED
    BY <2>2, <2>3
<1>7. ASSUME NEW t \in Threads, ThreadStep(t) PROVE LineStep
  <2>1. CASE lock_returns(t) \/ Exit(t) \/ Sleep(t) \/ Yield(t)
    BY <1>2, <2>1 DEF lock_returns, Exit, Sleep, Yield, hvars
  <2>2. CASE mutex_lock_cancelable(t)
    <3>1. mc[t].mutex \in Mutexes
      BY <1>1, <2>2 DEF mutex_lock_cancelable, IInv, MutexTypes
    <3> QED
      BY <1>2, <1>3, <1>4, <2>2, <3>1 DEF mutex_lock_cancelable, hvars
  <2>3. ASSUME NEW m \in Mutexes, mutex_lock(t, m) \/ mutex_trylock(t, m) PROVE LineStep
    BY <1>3, <1>4, <2>3 DEF mutex_lock, mutex_trylock
  <2>4. ASSUME NEW m \in Mutexes, mutex_cancel_init(t, m) PROVE LineStep
    BY <1>2, <2>4 DEF mutex_cancel_init, hvars
  <2>5. ASSUME NEW m \in Mutexes, mutex_unlock(t, m) \/ mutex_unlock_and_sleep(t, m)
        PROVE  LineStep
    BY <1>5, <2>5 DEF mutex_unlock, mutex_unlock_and_sleep, unlock_section
  <2>6. ASSUME NEW u \in Threads, mutex_cancel(t, u) PROVE LineStep
    BY <1>6, <2>6 DEF mutex_cancel
  <2> QED
    BY <1>7, <2>1, <2>2, <2>3, <2>4, <2>5, <2>6 DEF ThreadStep
<1>8. CASE Kernel \/ (\E t \in Threads : Wakeup(t)) \/ UNCHANGED vars
  BY <1>2, <1>8 DEF Kernel, Wakeup, vars, hvars
<1> QED
  BY <1>5, <1>6, <1>7, <1>8 DEF Next, IsrCancel, IsrUnlock

\* The mutex_cancel_t of a thread is written by the thread or to cancel it.
LEMMA WritesCancel ==
    ASSUME [Next]_vars, NEW x \in Threads, MutexTypes, mc'[x] # mc[x]
    PROVE  Executing(x) \/ cancel(x)
<1>1. mc' # mc
  OBVIOUS
<1>2. ASSUME NEW t \in Threads, mc' = [mc EXCEPT ![t] = mc'[t]] PROVE x = t
  BY <1>2 DEF MutexTypes
<1>3. ASSUME NEW u \in Threads, cancel(u) PROVE x = u
  <2>1. mc' = [mc EXCEPT ![u] = [mc[u] EXCEPT !.cancelled = TRUE]]
    BY <1>3 DEF cancel
  <2> QED
    BY <2>1 DEF MutexTypes
<1>4. ASSUME NEW t \in Threads, ThreadStep(t) PROVE Executing(x) \/ cancel(x)
  <2>1. CASE lock_returns(t)
    BY <1>1, <1>2, <2>1 DEF lock_returns, MutexTypes
  <2>2. CASE mutex_lock_cancelable(t)
    BY <1>1, <1>2, <2>2 DEF mutex_lock_cancelable, MutexTypes, Running
  <2>3. CASE \E m \in Mutexes : mutex_cancel_init(t, m)
    BY <1>1, <1>2, <2>3 DEF mutex_cancel_init, MutexTypes, Running
  <2>4. CASE \E u \in Threads : mutex_cancel(t, u)
    BY <1>3, <2>4 DEF mutex_cancel
  <2> QED
    BY <1>1, <1>4, <2>1, <2>2, <2>3, <2>4
       DEF ThreadStep, Exit, Sleep, Yield, mutex_lock, mutex_trylock, mutex_unlock,
           mutex_unlock_and_sleep, unlock_section
<1> QED
  BY <1>1, <1>3, <1>4 DEF Next, vars, Kernel, Wakeup, IsrCancel, IsrUnlock

\* A call that is not cancelled while it waits stays uncancelled.
LEMMA UncancelledKept ==
    ASSUME ~PriorityInheritance, OInv, [Next]_vars, IInv'
    PROVE  WaitsUncancelled'
<1>1. /\ MutexTypes /\ QueueExact /\ WaitsUncancelled /\ SchedInv(sched)
      /\ MutexTypes' /\ QueueExact' /\ LinesExact /\ LinesExact' /\ LineStep
  BY LinesAre, LinesNext, EveryLineStep DEF OInv, IInv
<1> SUFFICES ASSUME NEW x \in Threads, sched'.status[x] = "MUTEX_BLOCKED",
                    mc'[x].mutex = blocked'[x].mutex, mc'[x].cancelled
             PROVE  FALSE
  BY DEF WaitsUncancelled
<1>2. PICK m \in Mutexes : m = mc'[x].mutex
  <2>1. mc'[x].mutex # NoMutex
    <3>1. mc'[x].mutex = NoMutex => mc'[x] = NoCancel
      BY <1>1 DEF MutexTypes
    <3>2. ~NoCancel.cancelled
      BY DEF NoCancel
    <3> QED
      BY <3>1, <3>2
  <2> QED
    BY <1>1, <2>1 DEF MutexTypes
<1>3. Occurs(Line(m)', x)
  <2>1. x \in Waiters(m)'
    BY <1>1, <1>2 DEF QueueExact
  <2> QED
    BY <1>1, <2>1 DEF LinesExact
<1>4. CASE ~Occurs(Line(m), x)
  <2>1. PICK t \in Threads, k \in Mutexes : JoinsLine(t, k) \/ LeavesLine(t, k)
    BY <1>1, <1>3, <1>4 DEF LineStep, SameLines
  <2>2. k = m
    BY <1>3, <1>4, <2>1 DEF JoinsLine, LeavesLine
  <2>3. Line(m) \in Seq(Threads) /\ NoDup(Line(m))
    BY <1>1 DEF LinesExact
  <2>4. ~LeavesLine(t, m)
    <3> SUFFICES ASSUME LeavesLine(t, m) PROVE FALSE
      OBVIOUS
    <3>1. PICK pos \in DOMAIN Line(m) : Removed(Threads, Line(m)', Line(m), pos)
      BY DEF LeavesLine
    <3>2. /\ \A y : y # Line(m)[pos] => (Occurs(Line(m)', y) <=> Occurs(Line(m), y))
          /\ ~Occurs(Line(m)', Line(m)[pos])
      BY <2>3, <3>1, RemovedList
    <3> QED
      BY <1>3, <1>4, <3>2
  <2>5. JoinsLine(t, m)
    BY <2>1, <2>2, <2>4
  <2>6. PICK pos \in 1 .. Len(Line(m)) + 1 : Inserted(Threads, Line(m)', Line(m), pos, t)
    BY <2>5 DEF JoinsLine
  <2>7. x = t
    BY <1>3, <1>4, <2>3, <2>6, InsertedList
  <2> QED
    BY <1>2, <2>5, <2>7 DEF JoinsLine
<1>5. CASE Occurs(Line(m), x)
  <2>1. sched.status[x] = "MUTEX_BLOCKED" /\ blocked[x].mutex = m /\ x \in Waiters(m)
    BY ZenonT(30), <1>1, <1>5 DEF LinesExact, QueueExact
  <2>2. mc'[x] # mc[x]
    BY <1>1, <1>2, <2>1 DEF WaitsUncancelled
  <2>3. ~Executing(x)
    BY <1>1, <2>1, ExecutingHead
  <2>4. cancel(x)
    BY <1>1, <2>2, <2>3, WritesCancel
  <2>5. m = mc[x].mutex
    <3>1. /\ mc \in [Threads -> [mutex : Mutexes \cup {NoMutex}, cancelled : BOOLEAN]]
          /\ mc' = [mc EXCEPT ![x] = [mc[x] EXCEPT !.cancelled = TRUE]]
      BY <1>1, <2>4 DEF MutexTypes, cancel
    <3> QED
      BY <1>2, <3>1
  <2>6. CancelDequeues(x)
    BY <2>1, <2>5 DEF CancelDequeues, on_runqueue, OnRunqueue
  <2>7. LeavesLine(x, m)
    BY <2>4, <2>5, <2>6, CancelLeaves
  <2>8. PICK pos \in DOMAIN Line(m) : /\ Line(m)[pos] = x
                                     /\ Removed(Threads, Line(m)', Line(m), pos)
    BY <2>7 DEF LeavesLine
  <2>9. Line(m) \in Seq(Threads) /\ NoDup(Line(m))
    BY <1>1 DEF LinesExact
  <2> QED
    BY <1>3, <2>8, <2>9, RemovedList
<1> QED
  BY <1>4, <1>5

\* A mutex is handed to a waiter of the highest priority, and among those to
\* the one that has waited longest, whatever lock calls were cancelled and
\* whoever unlocked, a thread or a handler.
THEOREM HandedInOrder ==
    ASSUME ~PriorityInheritance
    PROVE  Spec => NoOvertaking
<1>1. Init => OInv
  <2> SUFFICES ASSUME Init PROVE OInv
    OBVIOUS
  <2>1. IInv
    BY InitInv
  <2>2. \A m \in Mutexes : Line(m) = << >> /\ Waiters(m) = {}
    BY DEF Init, Line, Waiters, HasWaiters, NULL
  <2>3. InLine
    BY SMTT(30), <2>2 DEF InLine, Ordered
  <2>4. SeenBefore
    BY <2>2 DEF SeenBefore, Init
  <2>5. \A t \in Threads : ~mc[t].cancelled
    BY DEF Init, NoCancel
  <2> QED
    BY <2>1, <2>3, <2>4, <2>5 DEF OInv, WaitsUncancelled
<1>2. OInv /\ [Next]_vars => OInv'
  <2> SUFFICES ASSUME OInv, [Next]_vars PROVE OInv'
    OBVIOUS
  <2>1. IInv'
    BY NextInv DEF OInv
  <2>2. LineStep /\ sched'.priority = sched.priority
    BY EveryLineStep, PriorityKept DEF OInv
  <2> QED
    BY <2>1, <2>2, LineStepKeeps, UncancelledKept DEF OInv
<1>3. OInv /\ OInv' /\ [Next]_vars =>
        [\A m \in Mutexes : \A u \in Waiters(m) \ Waiters(m)' : mc'[u] = mc[u] =>
            \A w \in Waiters(m) \ {u} :
               \/ sched.priority[w] > sched.priority[u]
               \/ sched.priority[w] = sched.priority[u] /\ w \notin before[u]]_vars
  BY EveryLineStep, FirstLeaves DEF OInv
<1> QED
  BY <1>1, <1>2, <1>3, PTL DEF Spec, NoOvertaking
=============================================================================
