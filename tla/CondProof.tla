----------------------------- MODULE CondProof -----------------------------
(***************************************************************************)
(* Theorems about Cond without priority inheritance, for every set of      *)
(* threads: the queue of the condition variable holds exactly the threads  *)
(* that are COND_BLOCKED, and no signal is lost.                           *)
(*                                                                         *)
(* A thread that left the queue is known by its phase: it is waiting still *)
(* while it is not COND_BLOCKED any more, and until it has the mutex and   *)
(* has tested the condition it counts as the one that was told.  What the  *)
(* invariant adds is that a thread is COND_BLOCKED only in that phase, and *)
(* that it is inside no other call and holds no mutex then.                *)
(***************************************************************************)
EXTENDS Cond, MutexProof

\* Each variable of the condition variable has its type.
CTypes ==
    /\ cond_queue \in Seq(Threads)
    /\ phase \in [Threads -> {"none", "waiting", "testing"}]
    /\ ready \in BOOLEAN

\* The queue holds the threads that are COND_BLOCKED, each once.
InCondQueue ==
    /\ NoDup(cond_queue)
    /\ \A t \in Threads : Occurs(cond_queue, t) <=> sched.status[t] = "COND_BLOCKED"

\* What the phase of t says about it.
Place(t) ==
    /\ sched.status[t] = "COND_BLOCKED" => phase[t] = "waiting"
    /\ phase[t] = "waiting" => /\ blocked[t] = NotBlocked
                               /\ t # Idle
                               /\ \A m \in Mutexes : <<t, m>> \notin held
    /\ mc[t] = NoCancel

\* The inductive invariant.
CInv ==
    /\ IInv
    /\ CTypes
    /\ InCondQueue
    /\ \A t \in Threads : Place(t)
    /\ NoLostSignal

-----------------------------------------------------------------------------
(* The loop of _cond_signal() *)

\* There is a scheduler state after each round.
LEMMA Rounds ==
    ASSUME NEW s, NEW W \in Seq(Threads)
    PROVE  \E g : /\ g[0] = s
                  /\ \A i \in 1 .. Len(W) :
                         g[i] = sched_set_status(g[i - 1], W[i], "PENDING")
                  /\ wake_each(s, W) = g[Len(W)]
<1> DEFINE Is(g, k) == g = [i \in 0 .. k |->
                              IF i = 0 THEN s
                              ELSE sched_set_status(g[i - 1], W[i], "PENDING")]
           Upto(k) == \E g : Is(g, k)
<1>1. Upto(0)
  <2> DEFINE g == [i \in 0 .. 0 |-> s]
  <2>1. Is(g, 0)
    OBVIOUS
  <2> QED
    BY <2>1
<1>2. ASSUME NEW k \in Nat, Upto(k) PROVE Upto(k + 1)
  <2>1. PICK g : Is(g, k)
    BY <1>2
  <2> DEFINE h == [i \in 0 .. k + 1 |-> IF i <= k THEN g[i]
                      ELSE sched_set_status(g[k], W[k + 1], "PENDING")]
  <2>2. ASSUME NEW i \in 0 .. k + 1
        PROVE  h[i] = IF i = 0 THEN s ELSE sched_set_status(h[i - 1], W[i], "PENDING")
    <3>1. CASE i = 0
      BY <2>1, <3>1
    <3>2. CASE i \in 1 .. k
      <4>1. h[i] = g[i] /\ h[i - 1] = g[i - 1]
        BY <3>2
      <4>2. g[i] = sched_set_status(g[i - 1], W[i], "PENDING")
        BY <2>1, <3>2
      <4> QED
        BY <3>2, <4>1, <4>2
    <3>3. CASE i = k + 1
      <4>1. h[i] = sched_set_status(g[k], W[k + 1], "PENDING") /\ h[i - 1] = g[k]
        BY <3>3
      <4> QED
        BY <3>3, <4>1
    <3> QED
      BY <3>1, <3>2, <3>3
  <2>3. Is(h, k + 1)
    BY <2>2
  <2> QED
    BY <2>3
<1> HIDE DEF Is
<1>3. Upto(Len(W))
  <2> HIDE DEF Upto
  <2> DEFINE Bad == {k \in Nat : ~Upto(k)}
  <2>0. Len(W) \in Nat
    OBVIOUS
  <2>1. CASE Bad = {}
    BY <2>0, <2>1
  <2>2. CASE Bad # {}
    <3>1. PICK k \in Bad : \A n \in Bad : k <= n
      BY <2>2, LeastMember
    <3>2. k # 0 /\ k - 1 \in Nat /\ k - 1 \notin Bad
      BY <1>1, <3>1
    <3>3. Upto(k - 1)
      BY <3>2
    <3>4. Upto(k - 1 + 1)
      BY <1>2, <3>2, <3>3
    <3> QED
      BY <3>1, <3>4
  <2> QED
    BY <2>1, <2>2
<1> DEFINE f == CHOOSE g : Is(g, Len(W))
<1>4. Is(f, Len(W))
  BY <1>3
<1>5. wake_each(s, W) = f[Len(W)]
  BY Zenon DEF wake_each, Is
<1> HIDE DEF f
<1>6. Len(W) \in Nat /\ f = [i \in 0 .. Len(W) |->
                              IF i = 0 THEN s
                              ELSE sched_set_status(f[i - 1], W[i], "PENDING")]
  BY <1>4 DEF Is
<1>7. f[0] = s /\ \A i \in 1 .. Len(W) : f[i] = sched_set_status(f[i - 1], W[i], "PENDING")
  BY <1>6
<1> QED
  BY <1>5, <1>7

\* It wakes the threads of the list and nobody else.
LEMMA WakeEach ==
    ASSUME NEW s, SchedInv(s), NEW W \in Seq(Threads), NoDup(W),
           \A x \in Threads : Occurs(W, x) => s.status[x] = "COND_BLOCKED"
    PROVE  LET r == wake_each(s, W)
           IN  /\ SchedInv(r)
               /\ SameButQueues(r, s)
               /\ \A x \in Threads :
                      r.status[x] = IF Occurs(W, x) THEN "PENDING" ELSE s.status[x]
               /\ \A x \in Threads : IsHead(s, x) => IsHead(r, x)
<1>1. PICK g : /\ g[0] = s
               /\ \A i \in 1 .. Len(W) : g[i] = sched_set_status(g[i - 1], W[i], "PENDING")
               /\ wake_each(s, W) = g[Len(W)]
  BY Rounds
<1> DEFINE Done(i, x) == \E j \in 1 .. i : W[j] = x
           Good(i) == /\ SchedInv(g[i])
                      /\ SameButQueues(g[i], s)
                      /\ \A x \in Threads :
                             g[i].status[x] = IF Done(i, x) THEN "PENDING" ELSE s.status[x]
                      /\ \A x \in Threads : IsHead(s, x) => IsHead(g[i], x)
<1>2. Good(0)
  BY <1>1 DEF SameButQueues
<1>3. ASSUME NEW i \in Nat, i + 1 \in 1 .. Len(W), Good(i) PROVE Good(i + 1)
  <2>1. PICK u \in Threads : u = W[i + 1]
    BY <1>3
  <2>2. g[i + 1] = sched_set_status(g[i], u, "PENDING")
    BY <1>1, <1>3, <2>1
  <2>3. ~Done(i, u) /\ s.status[u] = "COND_BLOCKED"
    BY <1>3, <2>1 DEF NoDup, Occurs
  <2>4. g[i].status[u] = "COND_BLOCKED" /\ g[i].status \in [Threads -> Status]
    BY <1>3, <2>3, SchedFields DEF SchedInv
  <2>5. ~on_runqueue(g[i], u) /\ "PENDING" \in OnRunqueue
    BY <2>4 DEF on_runqueue, OnRunqueue
  <2>6. /\ SchedInv(g[i + 1])
        /\ g[i + 1].status = [g[i].status EXCEPT ![u] = "PENDING"]
        /\ SameButQueues(g[i + 1], g[i])
        /\ \A x \in Threads : IsHead(g[i], x) => IsHead(g[i + 1], x)
    BY <1>3, <2>2, <2>5, PushInv
  <2>7. SameButQueues(g[i + 1], s)
    BY <1>3, <2>6 DEF SameButQueues
  <2>8. ASSUME NEW x \in Threads
        PROVE  g[i + 1].status[x] = IF Done(i + 1, x) THEN "PENDING" ELSE s.status[x]
    <3>1. Done(i + 1, x) <=> Done(i, x) \/ x = u
      BY <1>3, <2>1
    <3>2. g[i].status[x] = IF Done(i, x) THEN "PENDING" ELSE s.status[x]
      BY <1>3
    <3> HIDE DEF Done
    <3> QED
      BY <2>4, <2>6, <3>1, <3>2
  <2> QED
    BY <1>3, <2>6, <2>7, <2>8
<1>4. Good(Len(W))
  <2> HIDE DEF Good
  <2> DEFINE Bad == {k \in 0 .. Len(W) : ~Good(k)}
  <2>1. Len(W) \in Nat /\ Bad \in SUBSET Nat
    OBVIOUS
  <2>2. CASE Bad = {}
    BY <2>1, <2>2
  <2>3. CASE Bad # {}
    <3>1. PICK k \in Bad : \A n \in Bad : k <= n
      BY <2>1, <2>3, LeastMember
    <3>2. k # 0 /\ k - 1 \in Nat /\ k - 1 \notin Bad /\ (k - 1) + 1 \in 1 .. Len(W)
      BY <1>2, <2>1, <3>1
    <3>3. Good(k - 1)
      BY <2>1, <3>1, <3>2
    <3>4. Good(k - 1 + 1)
      BY <1>3, <3>2, <3>3
    <3> QED
      BY <2>1, <3>1, <3>4
  <2> QED
    BY <2>2, <2>3
<1>5. \A x \in Threads : Done(Len(W), x) <=> Occurs(W, x)
  <2>1. DOMAIN W = 1 .. Len(W)
    OBVIOUS
  <2> QED
    BY <2>1, Zenon DEF Occurs
<1> HIDE DEF Done
<1> QED
  BY <1>1, <1>4, <1>5

\* _cond_signal() takes the first thread, or all, out of the queue.
LEMMA SignalledIs ==
    ASSUME CTypes, NoDup(cond_queue), NEW b \in BOOLEAN
    PROVE  /\ Signalled(b) \in Seq(Threads) /\ NoDup(Signalled(b))
           /\ dequeued(b) \in Seq(Threads) /\ NoDup(dequeued(b))
           /\ \A x : Occurs(cond_queue, x) <=> Occurs(Signalled(b), x) \/ Occurs(dequeued(b), x)
           /\ \A x : ~(Occurs(Signalled(b), x) /\ Occurs(dequeued(b), x))
           /\ cond_queue # << >> => Signalled(b) # << >>
<1> DEFINE q == cond_queue
<1>1. q \in Seq(Threads) /\ Len(q) \in Nat /\ NoDup(q)
  BY DEF CTypes
<1>2. CASE b \/ q = << >>
  <2>1. Signalled(b) = q
    BY <1>2 DEF Signalled
  <2>2. dequeued(b) = << >>
    BY <1>1, <2>1 DEF dequeued
  <2>3. NoDup(<< >>) /\ (\A x : ~Occurs(<< >>, x)) /\ << >> \in Seq(Threads)
    BY DEF NoDup, Occurs
  <2> QED
    BY <1>1, <2>1, <2>2, <2>3
<1>3. CASE ~b /\ q # << >>
  <2>1. Signalled(b) = <<Head(q)>> /\ Head(q) \in Threads
    BY <1>1, <1>3 DEF Signalled
  <2>2. dequeued(b) = Tail(q)
    BY <1>1, <1>3, <2>1 DEF dequeued
  <2>3. /\ Tail(q) \in Seq(Threads) /\ NoDup(Tail(q)) /\ ~Occurs(Tail(q), Head(q))
        /\ \A x : Occurs(q, x) <=> x = Head(q) \/ Occurs(Tail(q), x)
    BY <1>1, <1>3, TailMembers
  <2>4. NoDup(<<Head(q)>>) /\ (\A x : Occurs(<<Head(q)>>, x) <=> x = Head(q))
    BY DEF NoDup, Occurs
  <2> QED
    BY <2>1, <2>2, <2>3, <2>4
<1> QED
  BY <1>2, <1>3

\* The priority _cond_signal() switches to is one of a thread it woke.
LEMMA MinPrioIs ==
    ASSUME CTypes, NoDup(cond_queue), cond_queue # << >>, NEW b \in BOOLEAN,
           sched.priority \in [Threads -> Prios]
    PROVE  MinPrio(b) \in Prios
<1> DEFINE W == Signalled(b)
           P == {sched.priority[W[i]] : i \in DOMAIN W}
<1>1. W \in Seq(Threads) /\ W # << >>
  BY SignalledIs
<1> HIDE DEF W
<1>2. P \subseteq Prios /\ P # {} /\ Prios \subseteq Nat
  BY <1>1, SchedAssumption DEF Prios
<1>3. MinPrio(b) = CHOOSE p \in P : \A n \in P : p <= n
  BY DEF MinPrio, W
<1> HIDE DEF P
<1> QED
  BY <1>2, <1>3, LeastMember

-----------------------------------------------------------------------------
(* The steps *)

\* A step that leaves the condition variable alone.
LEMMA PlainStep ==
    ASSUME CInv, IInv', UNCHANGED cvars,
           \A x \in Threads : sched'.status[x] = "COND_BLOCKED"
                                  <=> sched.status[x] = "COND_BLOCKED",
           \A x \in Threads :
               /\ mc'[x] = NoCancel
               /\ phase[x] = "waiting" =>
                      /\ blocked'[x] = blocked[x]
                      /\ \A m \in Mutexes : <<x, m>> \in held' => <<x, m>> \in held
    PROVE  CInv'
<1>1. /\ CTypes /\ InCondQueue /\ NoLostSignal /\ \A x \in Threads : Place(x)
      /\ UNCHANGED <<cond_queue, phase, ready, announce>>
  BY DEF CInv, cvars
<1>2. CTypes' /\ InCondQueue'
  BY <1>1 DEF CTypes, InCondQueue
<1>3. ASSUME NEW x \in Threads PROVE Place(x)'
  BY <1>1 DEF Place
<1>4. NoLostSignal'
  BY <1>1 DEF NoLostSignal
<1> QED
  BY <1>2, <1>3, <1>4 DEF CInv

LEMMA SameSchedStep ==
    ASSUME CInv, IInv', SameWaits, UNCHANGED cvars, UNCHANGED <<mc, blocked, held>>
    PROVE  CInv'
<1>1. \A x \in Threads : mc[x] = NoCancel
  BY DEF CInv, Place
<1>2. \A x \in Threads : sched'.status[x] = "COND_BLOCKED"
                             <=> sched.status[x] = "COND_BLOCKED"
  BY DEF SameWaits
<1> QED
  BY <1>1, <1>2, PlainStep

\* An unlock wakes nobody who waits for the condition.
LEMMA WokenCond ==
    ASSUME IInv, NEW m \in Mutexes
    PROVE  /\ Woken(m) \in [Threads -> Status]
           /\ \A x \in Threads : Woken(m)[x] = "COND_BLOCKED"
                                     <=> sched.status[x] = "COND_BLOCKED"
<1>1. sched.status \in [Threads -> Status] /\ "PENDING" \in Status
  BY SchedFields DEF IInv, SchedInv, Status, OnRunqueue
<1>2. CASE HasWaiters(m)
  <2>1. Head(queue[m]) \in Threads /\ sched.status[Head(queue[m])] = "MUTEX_BLOCKED"
    BY <1>2, FirstWaiter
  <2> QED
    BY <1>1, <1>2, <2>1 DEF Woken
<1>3. CASE ~HasWaiters(m)
  BY <1>1, <1>3 DEF Woken
<1> QED
  BY <1>2, <1>3

\* The mutex operations of a thread outside cond_wait().
LEMMA MutexKeeps ==
    ASSUME ~PriorityInheritance, CInv, NEW t \in Threads, MutexStep(t)
    PROVE  CInv'
<1>1. UNCHANGED cvars /\ ThreadStep(t) /\ phase[t] # "waiting"
  BY DEF MutexStep, ThreadStep
<1>2. IInv /\ MutexTypes /\ SchedInv(sched) /\ \A x \in Threads : mc[x] = NoCancel
  BY DEF CInv, IInv, Place
<1>3. IInv'
  BY <1>1, <1>2, NextInv DEF Next
<1>4. \/ lock_returns(t)
      \/ Exit(t) \/ Sleep(t) \/ Yield(t)
      \/ \E m \in Mutexes : mutex_lock(t, m) \/ mutex_trylock(t, m)
      \/ \E m \in Mutexes : mutex_unlock(t, m) \/ mutex_unlock_and_sleep(t, m)
  <2>1. ~mutex_lock_cancelable(t)
    BY <1>2 DEF mutex_lock_cancelable
  <2>2. \A m \in Mutexes : ~mutex_cancel_init(t, m)
    BY CondAssumption DEF mutex_cancel_init
  <2>3. \A u \in Threads : ~mutex_cancel(t, u)
    BY <1>2 DEF mutex_cancel, cancel
  <2> QED
    BY <1>1, <2>1, <2>2, <2>3 DEF ThreadStep
<1>5. CASE lock_returns(t)
  <2>1. /\ sched' = sched /\ blocked' = [blocked EXCEPT ![t] = NotBlocked]
        /\ mc' \in {mc, [mc EXCEPT ![t] = NoCancel]}
        /\ held' \in {held, held \cup {<<t, blocked[t].mutex>>}}
    BY <1>5 DEF lock_returns
  <2>2. \A x \in Threads : mc'[x] = NoCancel
    BY <1>2, <2>1 DEF MutexTypes
  <2>3. \A x \in Threads \ {t} : /\ blocked'[x] = blocked[x]
                                 /\ \A m \in Mutexes : <<x, m>> \in held' => <<x, m>> \in held
    BY <1>2, <2>1 DEF MutexTypes
  <2> QED
    BY <1>1, <1>3, <2>1, <2>2, <2>3, PlainStep
<1>6. CASE Exit(t) \/ Sleep(t) \/ Yield(t)
  <2>1. SameWaits
    BY <1>2, <1>6, OtherWaits
  <2>2. UNCHANGED <<mc, blocked, held>>
    BY <1>6 DEF Exit, Sleep, Yield, hvars
  <2> QED
    BY <1>1, <1>3, <2>1, <2>2, SameSchedStep
<1>7. ASSUME NEW m \in Mutexes, mutex_lock(t, m) \/ mutex_trylock(t, m) PROVE CInv'
  <2>1. mc' = mc /\ Running(t) /\ (acquire(t, m) \/ block(t, m, "mutex_lock"))
    BY <1>7 DEF mutex_lock, mutex_trylock
  <2>2. CASE acquire(t, m)
    <3>1. sched' = sched /\ blocked' = blocked /\ held' = held \cup {<<t, m>>}
      BY <2>2 DEF acquire
    <3> QED
      BY <1>1, <1>2, <1>3, <2>1, <3>1, PlainStep
  <2>3. CASE block(t, m, "mutex_lock")
    <3>1. /\ held' = held
          /\ blocked' = [blocked EXCEPT ![t] = [mutex |-> m, fn |-> "mutex_lock"]]
      BY <2>3 DEF block
    <3>2. \A x \in Threads \ {t} : blocked'[x] = blocked[x]
      BY <1>2, <3>1 DEF MutexTypes
    <3>3. /\ sched'.status = [sched.status EXCEPT ![t] = "MUTEX_BLOCKED"]
          /\ sched.status \in [Threads -> Status] /\ sched.status[t] = "RUNNING"
      BY <1>2, <2>1, <2>3, BlockWaits, RunningThread, SchedFields DEF SchedInv
    <3>4. \A x \in Threads : sched'.status[x] = "COND_BLOCKED"
                                 <=> sched.status[x] = "COND_BLOCKED"
      BY <3>3
    <3> QED
      BY <1>1, <1>2, <1>3, <2>1, <3>1, <3>2, <3>4, PlainStep
  <2> QED
    BY <2>1, <2>2, <2>3
<1>8. ASSUME NEW m \in Mutexes, mutex_unlock(t, m) \/ mutex_unlock_and_sleep(t, m)
      PROVE  CInv'
  <2>1. mc' = mc /\ blocked' = blocked /\ held' \in SUBSET held /\ Running(t)
    BY <1>8 DEF mutex_unlock, unlock_section, mutex_unlock_and_sleep
  <2>2. \A x \in Threads : sched'.status[x] = "COND_BLOCKED"
                               <=> sched.status[x] = "COND_BLOCKED"
    <3>1. CASE mutex_unlock(t, m)
      BY <1>2, <3>1, UnlockWakes, WokenCond DEF mutex_unlock
    <3>2. CASE mutex_unlock_and_sleep(t, m)
      <4>1. /\ sched'.status = [Woken(m) EXCEPT ![t] = "SLEEPING"]
            /\ sched.status[t] = "RUNNING"
        BY <1>2, <2>1, <3>2, SleepWakes, RunningThread
      <4> QED
        BY <1>2, <4>1, WokenCond
    <3> QED
      BY <1>8, <3>1, <3>2
  <2> QED
    BY <1>1, <1>2, <1>3, <2>1, <2>2, PlainStep
<1> QED
  BY <1>4, <1>5, <1>6, <1>7, <1>8

\* The application makes the condition true or false.
LEMMA ApplicationKeeps ==
    ASSUME CInv, NEW t \in Threads, NEW m \in Mutexes, produce(t, m) \/ consume(t, m)
    PROVE  CInv'
<1>1. /\ UNCHANGED <<sched, queue, mc, blocked, held, holder, cond_queue>>
      /\ phase' \in {phase, [phase EXCEPT ![t] = "none"]}
      /\ ready' \in BOOLEAN /\ (ready' => announce' # {})
      /\ phase[t] # "waiting"
  BY DEF produce, consume, hvars, Tests, Phase
<1>2. /\ CTypes /\ InCondQueue /\ \A x \in Threads : Place(x)
      /\ IInv
  BY DEF CInv
<1>3. IInv'
  BY <1>1, <1>2, Untouched DEF IInv
<1>4. CTypes' /\ InCondQueue'
  BY <1>1, <1>2 DEF CTypes, InCondQueue
<1>5. ASSUME NEW x \in Threads PROVE Place(x)'
  <2>1. Place(x) /\ (x = t \/ phase'[x] = phase[x]) /\ phase'[t] # "waiting"
    BY <1>1, <1>2 DEF CTypes
  <2> QED
    BY <1>1, <2>1 DEF Place
<1>6. NoLostSignal'
  BY <1>1 DEF NoLostSignal
<1> QED
  BY <1>3, <1>4, <1>5, <1>6 DEF CInv

\* The critical section of cond_wait() wakes the first thread that waits for
\* the mutex, and blocks the caller.
LEMMA CondWaitSched ==
    ASSUME ~PriorityInheritance, IInv, NEW t \in Threads, NEW m \in Mutexes, cond_wait(t, m)
    PROVE  /\ SchedInv(sched')
           /\ sched'.status = [Woken(m) EXCEPT ![t] = "COND_BLOCKED"]
           /\ \E s \in SchedState : cond_queue' = thread_add_to_list(s, cond_queue, t)
<1> DEFINE p == sched.priority[Head(queue[m])]
<1>1. SchedInv(sched) /\ sched \in SchedState
  BY DEF IInv, SchedInv
<1>2. /\ sched.active = t /\ t # Idle /\ sched.status[t] = "RUNNING"
      /\ on_runqueue(sched, t) /\ IsHead(sched, t)
  BY <1>1, RunningThread DEF cond_wait, Tests
<1>3. PICK s : /\ s = IF HasWaiters(m) THEN sched_switch(hand_over(sched, m), p) ELSE sched
               /\ SchedInv(s) /\ s.status = Woken(m)
               /\ s.active = t /\ on_runqueue(s, t) /\ IsHead(s, t)
  <2>1. CASE HasWaiters(m)
    <3> DEFINE u == Head(queue[m])
               h == sched_set_status(sched, u, "PENDING")
               s == sched_switch(h, p)
    <3>1. u \in Threads /\ sched.status[u] = "MUTEX_BLOCKED"
      BY <2>1, FirstWaiter
    <3>2. ~on_runqueue(sched, u) /\ "PENDING" \in OnRunqueue
      BY <3>1 DEF on_runqueue, OnRunqueue
    <3>3. /\ SchedInv(h) /\ h.status = [sched.status EXCEPT ![u] = "PENDING"]
          /\ SameButQueues(h, sched) /\ (IsHead(sched, t) => IsHead(h, t))
      BY <1>1, <3>1, <3>2, PushInv
    <3>4. h.status = Woken(m) /\ hand_over(sched, m) = h
      BY <2>1, <3>3, HandOverWakes DEF Woken
    <3> HIDE DEF h, u, p
    <3>5. h \in SchedState /\ RunqueueExact(h) /\ h.active = t /\ IsHead(h, t)
      BY <1>2, <3>3 DEF SchedInv, SameButQueues
    <3>6. s \in SchedState /\ Quiet(s, h)
      BY <3>5, SwitchQuiet
    <3>7. SchedInv(s) /\ s.status = h.status
      BY <3>3, <3>6, QuietInv
    <3>8. IsHead(s, t) /\ s.active = t
      BY <3>5, <3>6, SameQueuesExact DEF Quiet
    <3>9. on_runqueue(s, t)
      <4>1. sched.status \in [Threads -> Status]
        BY <1>1, SchedFields
      <4> QED
        BY <1>2, <3>1, <3>3, <3>7, <4>1 DEF on_runqueue, OnRunqueue
    <3> HIDE DEF s
    <3>10. s = sched_switch(hand_over(sched, m), p)
      BY <3>4 DEF s
    <3> QED
      BY <2>1, <3>4, <3>7, <3>8, <3>9, <3>10
  <2>2. CASE ~HasWaiters(m)
    BY <1>1, <1>2, <2>2 DEF Woken
  <2> QED
    BY <2>1, <2>2
<1>4. /\ sched' = [sched_set_status(s, t, "COND_BLOCKED") EXCEPT !.call[t] = CallYield]
      /\ cond_queue' = thread_add_to_list(sched_set_status(s, t, "COND_BLOCKED"),
                                          cond_queue, t)
  BY <1>3 DEF cond_wait
<1>5. /\ "COND_BLOCKED" \in BlockedStatus /\ t # Idle
      /\ SchedInv(s) /\ s.active = t /\ on_runqueue(s, t) /\ IsHead(s, t)
  BY <1>2, <1>3 DEF BlockedStatus
<1>6. LET r == [sched_set_status(s, t, "COND_BLOCKED") EXCEPT !.call[t] = CallYield]
      IN  SchedInv(r) /\ r.status = [s.status EXCEPT ![t] = "COND_BLOCKED"]
  BY <1>5, BlockYield
<1>7. sched_set_status(s, t, "COND_BLOCKED") \in SchedState
  BY <1>5, BlockSelf
<1> QED
  BY <1>3, <1>4, <1>6, <1>7

LEMMA CondWaitKeeps ==
    ASSUME ~PriorityInheritance, CInv, NEW t \in Threads, NEW m \in Mutexes, cond_wait(t, m)
    PROVE  CInv'
<1>1. /\ Running(t) /\ <<t, m>> \in held /\ ~ready /\ ready' = ready
      /\ unlock_queue(m) /\ held' = held \ {<<t, m>>}
      /\ phase' = [phase EXCEPT ![t] = "waiting"] /\ mc' = mc /\ blocked' = blocked
  BY DEF cond_wait, Tests, Phase
<1>2. /\ IInv /\ CTypes /\ InCondQueue /\ MutexTypes /\ MutualExclusion
      /\ SchedInv(sched) /\ \A x \in Threads : Place(x)
  BY DEF CInv, IInv
<1>3. t # Idle /\ sched.status[t] = "RUNNING" /\ blocked[t] = NotBlocked
  BY <1>1, <1>2, RunningThread
<1>4. SchedInv(sched') /\ sched'.status = [Woken(m) EXCEPT ![t] = "COND_BLOCKED"]
  BY <1>2, CondWaitSched
<1>5. /\ \A x \in Threads \ {t} : sched'.status[x] = Woken(m)[x]
      /\ sched'.status[t] = "COND_BLOCKED"
  BY <1>2, <1>4, WokenCond
<1>6. IInv'
  <2>1. \A x \in Threads : sched'.status[x] = "MUTEX_BLOCKED" <=>
            /\ sched.status[x] = "MUTEX_BLOCKED"
            /\ HasWaiters(m) => x # Head(queue[m])
    BY <1>2, <1>3, <1>5, WokenIs
  <2>2. m \notin Signals => /\ holder[m] = t
                            /\ \A x \in Threads : <<x, m>> \in held => x = t
    BY <1>1, <1>2 DEF MutualExclusion
  <2>3. m \notin Signals => \A x \in Threads : <<x, m>> \notin held'
    BY <1>1, <2>2
  <2>4. held' \in SUBSET held
    BY <1>1
  <2> QED
    BY <1>1, <1>2, <1>3, <1>4, <2>1, <2>2, <2>3, <2>4, UnlockKeeps
<1>7. InCondQueue' /\ cond_queue' \in Seq(Threads)
  <2>1. PICK s \in SchedState : cond_queue' = thread_add_to_list(s, cond_queue, t)
    BY <1>2, CondWaitSched
  <2>2. cond_queue \in Seq(Threads) /\ NoDup(cond_queue) /\ ~Occurs(cond_queue, t)
    BY <1>2, <1>3 DEF CTypes, InCondQueue
  <2>3. /\ cond_queue' \in Seq(Threads) /\ NoDup(cond_queue')
        /\ \A x : Occurs(cond_queue', x) <=> Occurs(cond_queue, x) \/ x = t
    BY <2>1, <2>2, AddToList
  <2>4. \A x \in Threads : Occurs(cond_queue', x) <=> sched'.status[x] = "COND_BLOCKED"
    BY <1>2, <1>5, <2>3, WokenCond DEF InCondQueue
  <2> QED
    BY <2>3, <2>4 DEF InCondQueue
<1>8. CTypes'
  BY <1>1, <1>2, <1>7 DEF CTypes
<1>9. ASSUME NEW x \in Threads PROVE Place(x)'
  <2>1. CASE x = t
    <3>1. \A n \in Mutexes : <<t, n>> \notin held'
      BY <1>1, CondAssumption
    <3>2. phase'[t] = "waiting" /\ mc[t] = NoCancel
      BY <1>1, <1>2 DEF CTypes, Place
    <3> QED
      BY <1>1, <1>3, <2>1, <3>1, <3>2 DEF Place
  <2>2. CASE x # t
    <3>1. /\ phase'[x] = phase[x]
          /\ sched'.status[x] = "COND_BLOCKED" <=> sched.status[x] = "COND_BLOCKED"
      BY <1>1, <1>2, <1>5, <2>2, WokenCond DEF CTypes
    <3>2. Place(x) /\ \A n \in Mutexes : <<x, n>> \in held' => <<x, n>> \in held
      BY <1>1, <1>2
    <3> QED
      BY <1>1, <3>1, <3>2 DEF Place
  <2> QED
    BY <2>1, <2>2
<1>10. NoLostSignal'
  BY <1>1 DEF NoLostSignal
<1> QED
  BY <1>6, <1>7, <1>8, <1>9, <1>10 DEF CInv

\* A thread that was signalled locks the mutex, or waits for it.
LEMMA RelockKeeps ==
    ASSUME ~PriorityInheritance, CInv, NEW t \in Threads, NEW m \in Mutexes,
           cond_wait_relocks(t, m)
    PROVE  CInv'
<1>1. /\ Executing(t) /\ phase[t] = "waiting" /\ phase' = [phase EXCEPT ![t] = "testing"]
      /\ acquire(t, m) \/ block(t, m, "mutex_lock")
      /\ UNCHANGED <<mc, cond_queue, ready, announce>>
  BY DEF cond_wait_relocks, Phase
<1>2. /\ IInv /\ CTypes /\ InCondQueue /\ MutexTypes /\ NoLostSignal
      /\ SchedInv(sched) /\ \A x \in Threads : Place(x)
      /\ sched.status \in [Threads -> Status]
  BY SchedFields DEF CInv, IInv, SchedInv
<1>3. Running(t) /\ blocked[t] = NotBlocked /\ mc[t].mutex # m
  BY SMTT(30), <1>1, <1>2, MutexAssumption DEF Place, Running, NoCancel
<1>4. sched.status[t] = "RUNNING"
  BY <1>2, <1>3, RunningThread
<1>5. /\ IInv' /\ held' \in {held, held \cup {<<t, m>>}}
      /\ sched'.status \in {sched.status, [sched.status EXCEPT ![t] = "MUTEX_BLOCKED"]}
      /\ \A x \in Threads \ {t} : blocked'[x] = blocked[x]
  <2>1. CASE acquire(t, m)
    <3>1. IInv'
      BY <1>1, <1>2, <1>3, <2>1, AcquireKeeps
    <3> QED
      BY <2>1, <3>1 DEF acquire
  <2>2. CASE block(t, m, "mutex_lock")
    <3>1. IInv'
      BY <1>1, <1>2, <1>3, <2>2, BlockKeeps
    <3>2. sched'.status = [sched.status EXCEPT ![t] = "MUTEX_BLOCKED"]
      BY <1>2, <1>3, <2>2, BlockWaits
    <3>3. /\ held' = held
          /\ blocked' = [blocked EXCEPT ![t] = [mutex |-> m, fn |-> "mutex_lock"]]
      BY <2>2 DEF block
    <3>4. \A x \in Threads \ {t} : blocked'[x] = blocked[x]
      BY <1>2, <3>3 DEF MutexTypes
    <3> QED
      BY <3>1, <3>2, <3>3, <3>4
  <2> QED
    BY <1>1, <2>1, <2>2
<1>6. \A x \in Threads : sched'.status[x] = "COND_BLOCKED"
                             <=> sched.status[x] = "COND_BLOCKED"
  BY <1>2, <1>4, <1>5
<1>7. CTypes' /\ InCondQueue'
  BY <1>1, <1>2, <1>6 DEF CTypes, InCondQueue
<1>8. phase'[t] = "testing" /\ \A x \in Threads \ {t} : phase'[x] = phase[x]
  BY <1>1, <1>2 DEF CTypes
<1>9. ASSUME NEW x \in Threads PROVE Place(x)'
  <2>1. Place(x) /\ (x # t => \A n \in Mutexes : <<x, n>> \in held' => <<x, n>> \in held)
    BY <1>2, <1>5
  <2> QED
    BY <1>1, <1>4, <1>5, <1>6, <1>8, <2>1 DEF Place
<1>10. NoLostSignal'
  BY <1>1, <1>2, <1>6, <1>8 DEF NoLostSignal
<1> QED
  BY <1>5, <1>7, <1>9, <1>10 DEF CInv

\* A signal, from whatever context: a thread that it takes out of the queue is
\* the one that was told.
LEMMA SignalKeeps ==
    ASSUME CInv, NEW b \in BOOLEAN, SchedInv(sched'),
           \A x \in Threads : sched'.status[x] = IF Occurs(Signalled(b), x) THEN "PENDING"
                                                 ELSE sched.status[x],
           cond_queue' = dequeued(b),
           UNCHANGED <<queue, mc, blocked, held, holder, phase, ready>>
    PROVE  CInv'
<1>1. /\ IInv /\ CTypes /\ InCondQueue /\ NoDup(cond_queue) /\ \A x \in Threads : Place(x)
  BY DEF CInv, InCondQueue
<1>2. /\ dequeued(b) \in Seq(Threads) /\ NoDup(dequeued(b)) /\ Signalled(b) \in Seq(Threads)
      /\ \A x : Occurs(cond_queue, x) <=> Occurs(Signalled(b), x) \/ Occurs(dequeued(b), x)
      /\ \A x : ~(Occurs(Signalled(b), x) /\ Occurs(dequeued(b), x))
      /\ cond_queue # << >> => Signalled(b) # << >>
  BY <1>1, SignalledIs
<1>3. \A x \in Threads : Occurs(Signalled(b), x) => /\ sched.status[x] = "COND_BLOCKED"
                                                    /\ phase[x] = "waiting"
  BY <1>1, <1>2 DEF InCondQueue, Place
<1>4. IInv'
  BY <1>1, <1>3, Untouched
<1>5. CTypes'
  BY <1>1, <1>2 DEF CTypes
<1>6. InCondQueue'
  BY <1>1, <1>2, <1>3 DEF InCondQueue
<1>7. ASSUME NEW x \in Threads PROVE Place(x)'
  <2>1. Place(x) /\ (sched'.status[x] = "COND_BLOCKED" => sched.status[x] = "COND_BLOCKED")
    BY <1>1
  <2> QED
    BY <2>1 DEF Place
<1>8. NoLostSignal'
  <2> SUFFICES ASSUME dequeued(b) # << >>
               PROVE  \E u \in Threads : phase[u] = "waiting" /\ sched'.status[u] = "PENDING"
    BY DEF NoLostSignal
  <2>1. cond_queue # << >>
    <3>1. 1 \in DOMAIN dequeued(b) /\ Occurs(dequeued(b), dequeued(b)[1])
      BY <1>2 DEF Occurs
    <3>2. Occurs(cond_queue, dequeued(b)[1])
      BY <1>2, <3>1
    <3> QED
      BY <3>2 DEF Occurs
  <2>2. PICK u \in Threads : u = Signalled(b)[1] /\ Occurs(Signalled(b), u)
    BY <1>2, <2>1 DEF Occurs
  <2> QED
    BY <1>3, <2>2
<1> QED
  BY <1>4, <1>5, <1>6, <1>7, <1>8 DEF CInv

\* The threads that are woken, and what the loop makes of the scheduler.
LEMMA SectionIs ==
    ASSUME CInv, NEW b \in BOOLEAN
    PROVE  LET r == cond_signal_section(b)
           IN  /\ SchedInv(r)
               /\ SameButQueues(r, sched)
               /\ \A x \in Threads : r.status[x] = IF Occurs(Signalled(b), x) THEN "PENDING"
                                                   ELSE sched.status[x]
               /\ \A x \in Threads : IsHead(sched, x) => IsHead(r, x)
<1>1. SchedInv(sched) /\ CTypes /\ InCondQueue /\ NoDup(cond_queue)
  BY DEF CInv, IInv, InCondQueue
<1>2. /\ Signalled(b) \in Seq(Threads) /\ NoDup(Signalled(b))
      /\ \A x : Occurs(Signalled(b), x) => Occurs(cond_queue, x)
  BY <1>1, SignalledIs
<1>3. \A x \in Threads : Occurs(Signalled(b), x) => sched.status[x] = "COND_BLOCKED"
  BY <1>1, <1>2 DEF InCondQueue
<1> QED
  BY <1>1, <1>2, <1>3, WakeEach DEF cond_signal_section

LEMMA ThreadSignalKeeps ==
    ASSUME CInv, NEW t \in Threads, NEW b \in BOOLEAN, cond_signal(t, b)
    PROVE  CInv'
<1>1. /\ Running(t) /\ cond_queue' = dequeued(b)
      /\ UNCHANGED <<queue, mc, blocked, held, holder, phase, ready>>
  BY DEF cond_signal, hvars
<1>2. SchedInv(sched) /\ CTypes /\ NoDup(cond_queue) /\ sched.priority \in [Threads -> Prios]
  BY SchedFields DEF CInv, IInv, SchedInv, InCondQueue
<1>3. CASE cond_queue = << >>
  <2>1. sched' = sched /\ Signalled(b) = << >>
    BY <1>3 DEF cond_signal, Signalled
  <2>2. \A x : ~Occurs(<< >>, x)
    BY DEF Occurs
  <2> QED
    BY <1>1, <1>2, <2>1, <2>2, SignalKeeps
<1>4. CASE cond_queue # << >>
  <2> DEFINE r == cond_signal_section(b)
             c == CallSwitch(MinPrio(b))
  <2>1. sched' = [r EXCEPT !.call[t] = c]
    BY <1>4 DEF cond_signal
  <2>2. /\ SchedInv(r)
        /\ SameButQueues(r, sched)
        /\ \A x \in Threads : r.status[x] = IF Occurs(Signalled(b), x) THEN "PENDING"
                                            ELSE sched.status[x]
        /\ \A x \in Threads : IsHead(sched, x) => IsHead(r, x)
    BY SectionIs
  <2>3. c \in Calls /\ c.op = "switch"
    BY <1>2, <1>4, MinPrioIs, CallTypes
  <2>4. sched.active = t /\ sched.status[t] = "RUNNING" /\ IsHead(sched, t)
    BY <1>1, <1>2, RunningThread
  <2>5. ~Occurs(Signalled(b), t)
    BY <1>2, <2>4, SignalledIs DEF CInv, InCondQueue
  <2> HIDE DEF r, c
  <2>6. r.active = t /\ r.status[t] = "RUNNING" /\ IsHead(r, t)
    BY <2>2, <2>4, <2>5 DEF SameButQueues
  <2>7. r \in SchedState /\ RunqueueExact(r) /\ ThreadCalls(r) /\ IdleRunnable(r)
    BY <2>2 DEF SchedInv
  <2>8. LET q == [r EXCEPT !.call[t] = c] IN SchedInv(q) /\ q.status = r.status
    BY <2>3, <2>6, <2>7, CallInv DEF SwitchOps
  <2> QED
    BY <1>1, <2>1, <2>2, <2>8, SignalKeeps
<1> QED
  BY <1>3, <1>4

LEMMA IsrSignalKeeps ==
    ASSUME CInv, NEW b \in BOOLEAN, IsrSignal(b)
    PROVE  CInv'
<1> DEFINE r == cond_signal_section(b)
<1>1. /\ IsrEnds(r, MinPrio(b)) /\ cond_queue' = dequeued(b)
      /\ UNCHANGED <<queue, mc, blocked, held, holder, phase, ready>>
  BY DEF IsrSignal, hvars
<1>2. /\ SchedInv(r)
      /\ \A x \in Threads : r.status[x] = IF Occurs(Signalled(b), x) THEN "PENDING"
                                          ELSE sched.status[x]
  BY SectionIs
<1> HIDE DEF r
<1>3. SchedInv(sched') /\ sched'.status = r.status
  BY <1>1, <1>2, IsrInv
<1> QED
  BY <1>1, <1>2, <1>3, SignalKeeps

-----------------------------------------------------------------------------
(* The theorems *)

LEMMA CondInitInv == CondInit => CInv
<1> SUFFICES ASSUME CondInit PROVE CInv
  OBVIOUS
<1>1. IInv
  BY InitInv DEF CondInit
<1>2. /\ cond_queue = << >> /\ phase = [t \in Threads |-> "none"]
      /\ mc = [t \in Threads |-> NoCancel] /\ sched = Booted
  BY DEF CondInit, Init
<1>3. CTypes /\ NoLostSignal
  <2>1. ready \in BOOLEAN /\ ~ready
    BY Zenon DEF CondInit
  <2> QED
    BY <1>2, <2>1 DEF CTypes, NoLostSignal
<1>4. \A t \in Threads : sched.status[t] # "COND_BLOCKED"
  BY <1>2, BootedInv DEF on_runqueue, OnRunqueue
<1>5. InCondQueue
  BY <1>2, <1>4 DEF InCondQueue, NoDup, Occurs
<1>6. \A t \in Threads : Place(t)
  BY <1>2, <1>4 DEF Place
<1> QED
  BY <1>1, <1>3, <1>5, <1>6 DEF CInv

LEMMA CondNextInv ==
    ASSUME ~PriorityInheritance
    PROVE  CInv /\ [CondNext]_allvars => CInv'
<1> SUFFICES ASSUME CInv, [CondNext]_allvars PROVE CInv'
  OBVIOUS
<1>1. IInv /\ SchedInv(sched)
  BY DEF CInv, IInv
<1>2. CASE UNCHANGED allvars
  <2>1. UNCHANGED <<sched, queue, mc, blocked, held, holder>> /\ UNCHANGED cvars
    BY <1>2 DEF allvars, cvars
  <2>2. IInv' /\ SameWaits
    BY <1>1, <2>1, Untouched DEF SameWaits
  <2> QED
    BY <2>1, <2>2, SameSchedStep
<1>3. CASE Kernel /\ UNCHANGED cvars
  <2>1. IInv' /\ SameWaits /\ UNCHANGED <<mc, blocked, held>>
    BY <1>1, <1>3, KernelKeeps, KernelWaits DEF Kernel, hvars
  <2> QED
    BY <1>3, <2>1, SameSchedStep
<1>4. ASSUME NEW t \in Threads, Wakeup(t) /\ UNCHANGED cvars PROVE CInv'
  <2>1. IInv' /\ SameWaits /\ UNCHANGED <<mc, blocked, held>>
    BY <1>1, <1>4, OthersKeep, OtherWaits DEF Wakeup, hvars
  <2> QED
    BY <1>4, <2>1, SameSchedStep
<1>5. ASSUME NEW t \in Threads, MutexStep(t) \/ \E b \in BOOLEAN : cond_signal(t, b)
      PROVE  CInv'
  BY <1>5, MutexKeeps, ThreadSignalKeeps
<1>6. ASSUME NEW t \in Threads, NEW m \in Mutexes,
             cond_wait(t, m) \/ cond_wait_relocks(t, m) \/ produce(t, m) \/ consume(t, m)
      PROVE  CInv'
  BY <1>6, CondWaitKeeps, RelockKeeps, ApplicationKeeps
<1>7. ASSUME NEW b \in BOOLEAN, IsrSignal(b) PROVE CInv'
  BY <1>7, IsrSignalKeeps
<1> QED
  BY <1>2, <1>3, <1>4, <1>5, <1>6, <1>7 DEF CondNext

\* The inductive invariant holds in every state: cond_wait(), the mutex
\* operations and a signal from a thread or a handler keep it.
THEOREM CondInductive ==
    ASSUME ~PriorityInheritance
    PROVE  CondSpec => []CInv
<1>1. CondInit => CInv
  BY CondInitInv
<1>2. CInv /\ [CondNext]_allvars => CInv'
  BY CondNextInv
<1> QED
  BY <1>1, <1>2, PTL DEF CondSpec

\* The queue holds exactly the threads that are COND_BLOCKED, and those hold
\* no mutex and wait for none.
THEOREM CondQueue ==
    ASSUME ~PriorityInheritance
    PROVE  CondSpec => []CondQueueExact
<1>1. CInv => CondQueueExact
  <2> SUFFICES ASSUME CInv, NEW t \in Threads
               PROVE  LET at == {i \in DOMAIN cond_queue : cond_queue[i] = t}
                      IN  /\ \A i, j \in at : i = j
                          /\ at # {} <=> sched.status[t] = "COND_BLOCKED"
                          /\ at # {} => /\ \A m \in Mutexes : t \notin Waiters(m)
                                        /\ \A m \in Mutexes : <<t, m>> \notin held
    BY DEF CondQueueExact
  <2> DEFINE at == {i \in DOMAIN cond_queue : cond_queue[i] = t}
  <2>1. InCondQueue /\ QueueExact /\ Place(t)
    BY DEF CInv, IInv
  <2>2. \A i, j \in at : i = j
    BY <2>1 DEF InCondQueue, NoDup
  <2>3. at # {} <=> sched.status[t] = "COND_BLOCKED"
    BY <2>1 DEF InCondQueue, Occurs
  <2>4. sched.status[t] = "COND_BLOCKED" => /\ \A m \in Mutexes : t \notin Waiters(m)
                                            /\ \A m \in Mutexes : <<t, m>> \notin held
    BY <2>1 DEF Place, QueueExact
  <2> QED
    BY <2>2, <2>3, <2>4
<1> QED
  BY <1>1, CondInductive, PTL

\* No signal is lost: while the condition is true and a thread waits for it, a
\* producer is about to signal or a thread that was woken is about to test.
THEOREM SignalsKept ==
    ASSUME ~PriorityInheritance
    PROVE  CondSpec => []NoLostSignal
<1>1. CInv => NoLostSignal
  BY DEF CInv
<1> QED
  BY <1>1, CondInductive, PTL

=============================================================================
