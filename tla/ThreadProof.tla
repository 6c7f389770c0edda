---------------------------- MODULE ThreadProof ----------------------------
(***************************************************************************)
(* Theorems about Thread, for every set of threads, every number of        *)
(* priorities and every size of the thread table: the type invariant, the  *)
(* exactness of the run queues and of the thread table, that the thread    *)
(* that executes has the highest priority, and that a terminated thread    *)
(* stays down.                                                             *)
(*                                                                         *)
(* They are proved for applications in which a thread changes only its own *)
(* priority (~ChangeOthers): _runqueue_pop() removes the head of a queue,  *)
(* and only the thread that has the CPU is known to be the head of one.    *)
(*                                                                         *)
(* That no runnable thread has a higher priority than the executing one is *)
(* not inductive: a thread that has just woken another one has still to    *)
(* call sched_switch(), and handlers may come in between.  NoneHigher      *)
(* follows the thread on the CPU through what it has left to call.         *)
(***************************************************************************)
EXTENDS Thread, SchedProof, FiniteSetTheorems

\* The inductive invariant.
IInv == TypeOK /\ SchedInv(sched) /\ ThreadTableExact

-----------------------------------------------------------------------------
(* The thread table *)

Occupied == {i \in Pids : sched_threads[i] # NoThread}

\* sched_num_threads cannot leave its type while the table is exact.
LEMMA OccupiedFinite ==
    IsFiniteSet(Occupied) /\ Cardinality(Occupied) \in 0 .. MaxPid
<1>1. IsFiniteSet(Pids) /\ Cardinality(Pids) = MaxPid
  BY FS_Interval, ThreadAssumption DEF Pids
<1>2. Occupied \in SUBSET Pids
  BY DEF Occupied
<1>3. IsFiniteSet(Occupied) /\ Cardinality(Occupied) <= MaxPid
  BY <1>1, <1>2, FS_Subset
<1>4. Cardinality(Occupied) \in Nat
  BY <1>3, FS_CardinalityType
<1> QED
  BY <1>3, <1>4, ThreadAssumption

\* A step that terminates no thread and creates none keeps the table exact.
LEMMA TableKept ==
    ASSUME TypeOK, ThreadTableExact, UNCHANGED tvars, sched' \in SchedState,
           noyield' \in BOOLEAN,
           \A x \in Threads : sched'.status[x] = "STOPPED"
                                  <=> sched.status[x] = "STOPPED"
    PROVE  TypeOK' /\ ThreadTableExact'
<1>1. /\ sched_threads' = sched_threads
      /\ sched_num_threads' = sched_num_threads
      /\ pid' = pid
  BY DEF tvars
<1>2. TypeOK'
  BY <1>1 DEF TypeOK
<1>3. ThreadTableExact'
  BY <1>1 DEF ThreadTableExact
<1> QED
  BY <1>2, <1>3

\* thread_create(): the control block c gets the free slot i.
LEMMA TableEnter ==
    ASSUME TypeOK, ThreadTableExact, sched' \in SchedState, noyield' \in BOOLEAN,
           NEW c \in Threads, sched.status[c] = "STOPPED",
           NEW i \in Pids, sched_threads[i] = NoThread,
           sched_threads' = [sched_threads EXCEPT ![i] = c],
           pid' = [pid EXCEPT ![c] = i],
           sched_num_threads' = sched_num_threads + 1,
           sched'.status[c] # "STOPPED",
           \A x \in Threads \ {c} : sched'.status[x] = sched.status[x]
    PROVE  TypeOK' /\ ThreadTableExact'
<1> USE SchedAssumption
<1>1. /\ sched_threads \in [Pids -> Threads \cup {NoThread}]
      /\ sched_threads' \in [Pids -> Threads \cup {NoThread}]
      /\ pid \in [Threads -> Pids \cup {NoPid}]
      /\ pid' \in [Threads -> Pids \cup {NoPid}]
  BY DEF TypeOK
<1>2. /\ \A j \in Pids : sched_threads'[j] = IF j = i THEN c ELSE sched_threads[j]
      /\ \A x \in Threads : pid'[x] = IF x = c THEN i ELSE pid[x]
  BY <1>1
<1>3. /\ \A t \in Threads : sched.status[t] # "STOPPED" <=>
             pid[t] \in Pids /\ sched_threads[pid[t]] = t
      /\ \A j \in Pids : sched_threads[j] # NoThread => pid[sched_threads[j]] = j
      /\ sched_num_threads = Cardinality(Occupied)
  BY DEF ThreadTableExact, Occupied
<1>4. ASSUME NEW t \in Threads
      PROVE  sched'.status[t] # "STOPPED" <=>
                 pid'[t] \in Pids /\ sched_threads'[pid'[t]] = t
  <2>1. CASE t = c
    BY <1>2, <2>1
  <2>2. CASE t # c
    BY <1>2, <1>3, <2>2
  <2> QED
    BY <2>1, <2>2
<1>5. ASSUME NEW j \in Pids, sched_threads'[j] # NoThread
      PROVE  pid'[sched_threads'[j]] = j
  <2>1. CASE j = i
    BY <1>2, <2>1
  <2>2. CASE j # i
    <3>1. /\ sched_threads'[j] = sched_threads[j]
          /\ sched_threads[j] \in Threads
          /\ pid[sched_threads[j]] = j
      BY <1>1, <1>2, <1>3, <1>5, <2>2
    <3>2. sched_threads[j] # c
      BY <1>3, <3>1
    <3> QED
      BY <1>2, <3>1, <3>2
  <2> QED
    BY <2>1, <2>2
<1>6. Occupied' = Occupied \cup {i} /\ i \notin Occupied
  BY <1>2 DEF Occupied
<1>7. /\ sched_num_threads' = Cardinality(Occupied')
      /\ Cardinality(Occupied') \in 0 .. MaxPid
  <2>1. IsFiniteSet(Occupied) /\ Cardinality(Occupied) \in 0 .. MaxPid
    BY OccupiedFinite
  <2>2. Cardinality(Occupied \cup {i}) = Cardinality(Occupied) + 1
    BY <1>6, <2>1, FS_AddElement
  <2>3. Occupied' \in SUBSET Pids
    BY <1>6 DEF Occupied
  <2>4. IsFiniteSet(Pids) /\ Cardinality(Pids) = MaxPid
    BY FS_Interval, ThreadAssumption DEF Pids
  <2>5. Cardinality(Occupied') <= MaxPid
    BY <2>3, <2>4, FS_Subset
  <2> QED
    BY <1>3, <1>6, <2>1, <2>2, <2>5, ThreadAssumption
<1>8. TypeOK'
  BY <1>1, <1>7 DEF TypeOK
<1>9. ThreadTableExact'
  BY <1>4, <1>5, <1>7 DEF ThreadTableExact, Occupied
<1> QED
  BY <1>8, <1>9

\* release(): the control block u leaves its slot.
LEMMA TableLeave ==
    ASSUME TypeOK, ThreadTableExact, sched' \in SchedState, noyield' \in BOOLEAN,
           NEW u \in Threads, sched.status[u] # "STOPPED", release(u),
           sched'.status[u] = "STOPPED",
           \A x \in Threads \ {u} : sched'.status[x] = sched.status[x]
    PROVE  TypeOK' /\ ThreadTableExact'
<1> USE SchedAssumption
<1> DEFINE i == pid[u]
<1>1. /\ sched_threads \in [Pids -> Threads \cup {NoThread}]
      /\ pid \in [Threads -> Pids \cup {NoPid}]
  BY DEF TypeOK
<1>2. /\ \A t \in Threads : sched.status[t] # "STOPPED" <=>
             pid[t] \in Pids /\ sched_threads[pid[t]] = t
      /\ \A j \in Pids : sched_threads[j] # NoThread => pid[sched_threads[j]] = j
      /\ sched_num_threads = Cardinality(Occupied)
  BY DEF ThreadTableExact, Occupied
<1>3. i \in Pids /\ sched_threads[i] = u
  BY <1>2
<1>4. /\ sched_threads' = [sched_threads EXCEPT ![i] = NoThread]
      /\ sched_num_threads' = sched_num_threads - 1
      /\ pid' = pid
  BY DEF release
<1> HIDE DEF i
<1>5. /\ sched_threads' \in [Pids -> Threads \cup {NoThread}]
      /\ \A j \in Pids : sched_threads'[j] = IF j = i THEN NoThread ELSE sched_threads[j]
  BY <1>1, <1>3, <1>4
<1>6. ASSUME NEW t \in Threads
      PROVE  sched'.status[t] # "STOPPED" <=>
                 pid'[t] \in Pids /\ sched_threads'[pid'[t]] = t
  <2>1. CASE t = u
    BY <1>3, <1>4, <1>5, <2>1 DEF i
  <2>2. CASE t # u
    BY <1>2, <1>3, <1>4, <1>5, <2>2
  <2> QED
    BY <2>1, <2>2
<1>7. ASSUME NEW j \in Pids, sched_threads'[j] # NoThread
      PROVE  pid'[sched_threads'[j]] = j
  BY <1>2, <1>4, <1>5, <1>7
<1>8. Occupied' = Occupied \ {i} /\ i \in Occupied
  BY <1>3, <1>5 DEF Occupied
<1>9. /\ sched_num_threads' = Cardinality(Occupied')
      /\ Cardinality(Occupied') \in 0 .. MaxPid
  <2>1. IsFiniteSet(Occupied) /\ Cardinality(Occupied) \in 0 .. MaxPid
    BY OccupiedFinite
  <2>2. /\ IsFiniteSet(Occupied \ {i})
        /\ Cardinality(Occupied \ {i}) = Cardinality(Occupied) - 1
    BY <1>8, <2>1, FS_RemoveElement
  <2>3. Cardinality(Occupied \ {i}) \in Nat
    BY <2>2, FS_CardinalityType
  <2> QED
    BY <1>2, <1>4, <1>8, <2>1, <2>2, <2>3, ThreadAssumption
<1>10. TypeOK'
  BY <1>1, <1>4, <1>5, <1>9 DEF TypeOK
<1>11. ThreadTableExact'
  BY <1>6, <1>7, <1>9 DEF ThreadTableExact, Occupied
<1> QED
  BY <1>10, <1>11

-----------------------------------------------------------------------------
(* The control block of a new thread *)

\* The control block thread_create() fills in.
LEMMA NewThread ==
    ASSUME SchedInv(sched), NEW c \in Threads, sched.status[c] = "STOPPED",
           sched.active # c, NEW p \in Prios
    PROVE  LET r == [sched EXCEPT !.priority[c] = p, !.status[c] = "STOPPED",
                                  !.call[c] = NoCall]
           IN  /\ SchedInv(r)
               /\ r.status = sched.status
               /\ r.active = sched.active
               /\ \A x \in Threads \ {c} : IsHead(sched, x) => IsHead(r, x)
<1> DEFINE r == [sched EXCEPT !.priority[c] = p, !.status[c] = "STOPPED",
                              !.call[c] = NoCall]
<1>1. sched \in SchedState
  BY DEF SchedInv
<1>2. /\ [sched.priority EXCEPT ![c] = p] \in [Threads -> Prios]
      /\ [sched.status EXCEPT ![c] = "STOPPED"] = sched.status
      /\ [sched.call EXCEPT ![c] = NoCall] \in [Threads -> Calls]
  BY <1>1, SchedFields, CallTypes
<1>3. r = [sched EXCEPT !.priority = [sched.priority EXCEPT ![c] = p],
                        !.status = [sched.status EXCEPT ![c] = "STOPPED"],
                        !.call = [sched.call EXCEPT ![c] = NoCall]]
  OBVIOUS
<1> HIDE DEF r
<1>4. /\ r \in SchedState
      /\ r.status = sched.status
      /\ r.priority = [sched.priority EXCEPT ![c] = p]
      /\ r.call = [sched.call EXCEPT ![c] = NoCall]
      /\ r.runqueues = sched.runqueues
      /\ r.bitcache = sched.bitcache
      /\ r.active = sched.active
      /\ r.pendsv = sched.pendsv
      /\ r.idle = sched.idle
  BY <1>1, <1>2, <1>3 DEF SchedState
<1>5. /\ \A x \in Threads \ {c} : r.priority[x] = sched.priority[x]
      /\ \A x \in Threads : r.call[x] = IF x = c THEN NoCall ELSE sched.call[x]
      /\ \A x \in Threads : on_runqueue(r, x) <=> on_runqueue(sched, x)
      /\ ~on_runqueue(sched, c)
  BY <1>1, <1>4, SchedFields DEF on_runqueue, OnRunqueue
<1>6. RunqueueExact(r)
  BY <1>4, <1>5, ExactOnly DEF SchedInv
<1>7. \A x \in Threads \ {c} : IsHead(sched, x) <=> IsHead(r, x)
  BY <1>4, <1>5 DEF IsHead
<1>8. ThreadCalls(r) /\ IdleRunnable(r)
  BY <1>4, <1>5, CallTypes DEF SchedInv, ThreadCalls, SwitchOps, IdleRunnable, on_runqueue
<1>9. ASSUME NEW t \in Threads, r.active = t, ~r.pendsv, ~r.idle,
             r.call[t].op \in {"none", "switch", "switch_to"}
      PROVE  r.status[t] = "RUNNING" /\ IsHead(r, t)
  <2>1. t # c
    BY <1>4, <1>9
  <2>2. sched.status[t] = "RUNNING" /\ IsHead(sched, t)
    BY <1>4, <1>5, <1>9, <2>1 DEF SchedInv, HeadRuns
  <2> QED
    BY <1>4, <1>7, <2>1, <2>2
<1>10. HeadRuns(r)
  BY <1>9 DEF HeadRuns
<1> QED
  BY <1>4, <1>6, <1>7, <1>8, <1>10 DEF SchedInv, r

-----------------------------------------------------------------------------
(* Every action keeps the inductive invariant *)

\* thread_create().
LEMMA CreateInv ==
    ASSUME IInv, NEW t \in Threads, NEW c \in Threads, NEW p \in Prios,
           NEW flag \in Flags, thread_create(t, c, p, flag)
    PROVE  IInv'
<1> DEFINE new == [sched EXCEPT !.priority[c] = p, !.status[c] = "STOPPED",
                                !.call[c] = NoCall]
           i == CHOOSE i \in FreePids : \A j \in FreePids : i <= j
           awake == sched_set_status(new, c, "PENDING")
<1>1. /\ Executing(t) /\ sched.status[c] = "STOPPED" /\ FreePids # {}
      /\ sched_threads' = [sched_threads EXCEPT ![i] = c]
      /\ pid' = [pid EXCEPT ![c] = i]
      /\ sched_num_threads' = sched_num_threads + 1
      /\ sched' = CASE flag = "SLEEPING" -> sched_set_status(new, c, "SLEEPING")
                    [] flag = "WOUT_YIELD" -> awake
                    [] flag = "NONE" -> [awake EXCEPT !.call[t] = CallSwitch(p)]
      /\ noyield' = (noyield \/ flag = "WOUT_YIELD")
  BY DEF thread_create
<1>2. i \in Pids /\ sched_threads[i] = NoThread
  <2>1. FreePids \in SUBSET Nat
    BY ThreadAssumption DEF FreePids, Pids
  <2>2. i \in FreePids
    BY <1>1, <2>1, LeastMember
  <2> QED
    BY <2>2 DEF FreePids
<1> HIDE DEF i
<1>3. /\ sched.active = t /\ sched.status[t] = "RUNNING" /\ IsHead(sched, t)
      /\ SchedInv(sched) /\ t # c /\ sched.status[c] = "STOPPED"
  BY <1>1, ExecutingHead DEF IInv
<1>4. /\ SchedInv(new)
      /\ new.status = sched.status
      /\ new.active = t
      /\ IsHead(new, t)
  <2>1. /\ SchedInv(new)
        /\ new.status = sched.status
        /\ new.active = sched.active
        /\ \A x \in Threads \ {c} : IsHead(sched, x) => IsHead(new, x)
    BY <1>3, NewThread
  <2> QED
    BY <1>3, <2>1
<1> HIDE DEF new
<1>5. ~on_runqueue(new, c) /\ c \in Threads
  BY <1>1, <1>4 DEF on_runqueue, OnRunqueue
<1>6. /\ SchedInv(awake)
      /\ awake.status = [sched.status EXCEPT ![c] = "PENDING"]
      /\ awake.active = t
      /\ IsHead(awake, t)
  <2>1. /\ SchedInv(awake)
        /\ awake.status = [new.status EXCEPT ![c] = "PENDING"]
        /\ SameButQueues(awake, new)
        /\ \A x \in Threads : IsHead(new, x) => IsHead(awake, x)
    BY <1>4, <1>5, PushInv DEF OnRunqueue
  <2> QED
    BY <1>4, <2>1 DEF SameButQueues
<1>7. \E st \in {"SLEEPING", "PENDING"} :
          SchedInv(sched') /\ sched'.status = [sched.status EXCEPT ![c] = st]
  <2>1. CASE flag = "SLEEPING"
    <3>1. sched' = sched_set_status(new, c, "SLEEPING")
      BY <1>1, <2>1
    <3>2. SchedInv(sched') /\ sched'.status = [new.status EXCEPT ![c] = "SLEEPING"]
      BY <1>4, <1>5, <3>1, KeepInv DEF BlockedStatus
    <3> QED
      BY <1>4, <3>2
  <2>2. CASE flag = "WOUT_YIELD"
    <3>1. sched' = awake
      BY <1>1, <2>2
    <3> QED
      BY <1>6, <3>1
  <2>3. CASE flag = "NONE"
    <3>1. sched' = [awake EXCEPT !.call[t] = CallSwitch(p)]
      BY <1>1, <2>3
    <3> HIDE DEF awake
    <3>2. awake.status[t] = "RUNNING"
      BY <1>3, <1>6, SchedFields DEF SchedInv
    <3>3. CallSwitch(p) \in Calls /\ CallSwitch(p).op = "switch"
      BY CallTypes
    <3>4. /\ awake \in SchedState /\ RunqueueExact(awake)
          /\ ThreadCalls(awake) /\ IdleRunnable(awake)
      BY <1>6 DEF SchedInv
    <3>5. awake.active = t /\ IsHead(awake, t)
      BY <1>6
    <3> DEFINE r == [awake EXCEPT !.call[t] = CallSwitch(p)]
    <3>6. SchedInv(r) /\ r.status = awake.status
      BY <3>2, <3>3, <3>4, <3>5, CallInv DEF YieldOps, SwitchOps
    <3> HIDE DEF r
    <3>7. sched' = r
      BY <3>1 DEF r
    <3> QED
      BY <1>6, <3>6, <3>7
  <2> QED
    BY <2>1, <2>2, <2>3 DEF Flags
<1>8. /\ sched' \in SchedState
      /\ sched'.status[c] # "STOPPED"
      /\ \A x \in Threads \ {c} : sched'.status[x] = sched.status[x]
  BY <1>3, <1>7, SchedFields DEF SchedInv
<1>9. noyield' \in BOOLEAN
  BY <1>1 DEF IInv, TypeOK
<1>10. TypeOK' /\ ThreadTableExact'
  BY <1>1, <1>2, <1>8, <1>9, TableEnter DEF IInv
<1> QED
  BY <1>7, <1>10 DEF IInv

\* A step that changes the status of one living thread to another living one.
LEMMA LivingStep ==
    ASSUME IInv, UNCHANGED <<tvars, noyield>>, SchedInv(sched'),
           NEW u \in Threads, NEW st, st # "STOPPED", sched.status[u] # "STOPPED",
           sched'.status = [sched.status EXCEPT ![u] = st]
    PROVE  IInv'
<1>1. \A x \in Threads : sched'.status[x] = "STOPPED" <=> sched.status[x] = "STOPPED"
  BY SchedFields DEF IInv, SchedInv
<1>2. UNCHANGED tvars /\ noyield' \in BOOLEAN
  BY DEF IInv, TypeOK
<1>3. sched' \in SchedState
  BY DEF SchedInv
<1>4. TypeOK' /\ ThreadTableExact'
  BY <1>1, <1>2, <1>3, TableKept DEF IInv
<1> QED
  BY <1>4 DEF IInv

\* No thread dies or comes to life.
SameLife(r, s) ==
    \A x \in Threads : r.status[x] = "STOPPED" <=> s.status[x] = "STOPPED"

\* A step that at most swaps RUNNING and PENDING.
LEMMA SameLifeStep ==
    ASSUME IInv, UNCHANGED tvars, noyield' \in BOOLEAN, SchedInv(sched'),
           SameLife(sched', sched)
    PROVE  IInv'
<1>1. sched' \in SchedState
  BY DEF SchedInv
<1>2. TypeOK' /\ ThreadTableExact'
  BY <1>1, TableKept DEF IInv, SameLife
<1> QED
  BY <1>2 DEF IInv

\* thread_sleep().
LEMMA SleepInv ==
    ASSUME IInv, NEW t \in Threads, thread_sleep(t)
    PROVE  IInv'
<1>1. Executing(t) /\ t # Idle /\ UNCHANGED <<tvars, noyield>>
  BY DEF thread_sleep
<1>2. SchedInv(sched) /\ sched.status[t] # "STOPPED"
  BY <1>1, ExecutingHead DEF IInv
<1> DEFINE r == [sched_set_status(sched, t, "SLEEPING") EXCEPT !.call[t] = CallYield]
<1>3. SchedInv(r) /\ r.status = [sched.status EXCEPT ![t] = "SLEEPING"]
  BY <1>1, <1>2, ExecutingHead, BlockYield DEF BlockedStatus
<1>4. sched' = r
  BY DEF thread_sleep
<1> HIDE DEF r
<1> QED
  BY <1>1, <1>2, <1>3, <1>4, LivingStep

\* thread_zombify().
LEMMA ZombifyInv ==
    ASSUME IInv, NEW t \in Threads, thread_zombify(t)
    PROVE  IInv'
<1>1. Executing(t) /\ t # Idle /\ UNCHANGED <<tvars, noyield>>
  BY DEF thread_zombify
<1>2. SchedInv(sched) /\ sched.status[t] # "STOPPED"
  BY <1>1, ExecutingHead DEF IInv
<1> DEFINE r == [sched_set_status(sched, t, "ZOMBIE") EXCEPT !.call[t] = CallYield]
<1>3. SchedInv(r) /\ r.status = [sched.status EXCEPT ![t] = "ZOMBIE"]
  BY <1>1, <1>2, ExecutingHead, BlockYield DEF BlockedStatus
<1>4. sched' = r
  BY DEF thread_zombify
<1> HIDE DEF r
<1> QED
  BY <1>1, <1>2, <1>3, <1>4, LivingStep

\* A sleeping thread is woken.
LEMMA WakeInv ==
    ASSUME IInv, NEW i \in Pids, Sleeper(i)
    PROVE  LET u == sched_threads[i]
               r == wakeup(sched, u)
           IN  /\ u \in Threads /\ sched.status[u] = "SLEEPING"
               /\ SchedInv(r)
               /\ r.status = [sched.status EXCEPT ![u] = "RUNNING"]
               /\ SameButQueues(r, sched)
               /\ \A x \in Threads : IsHead(sched, x) => IsHead(r, x)
<1> DEFINE u == sched_threads[i]
<1>1. u \in Threads /\ sched.status[u] = "SLEEPING"
  BY DEF IInv, TypeOK, Sleeper
<1>2. SchedInv(sched) /\ ~on_runqueue(sched, u)
  BY <1>1 DEF IInv, on_runqueue, OnRunqueue
<1> HIDE DEF u
<1> QED
  BY <1>1, <1>2, PushInv DEF wakeup, OnRunqueue, u

\* thread_wakeup() by a thread.
LEMMA WakeupInv ==
    ASSUME IInv, NEW t \in Threads, NEW i \in Pids, thread_wakeup(t, i)
    PROVE  IInv'
<1> DEFINE u == sched_threads[i]
           m == wakeup(sched, u)
           r == [m EXCEPT !.call[t] = CallSwitchTo(u)]
<1>1. Executing(t) /\ Sleeper(i) /\ UNCHANGED <<tvars, noyield>> /\ sched' = r
  BY DEF thread_wakeup
<1>2. /\ u \in Threads /\ sched.status[u] = "SLEEPING"
      /\ SchedInv(m)
      /\ m.status = [sched.status EXCEPT ![u] = "RUNNING"]
      /\ SameButQueues(m, sched)
      /\ \A x \in Threads : IsHead(sched, x) => IsHead(m, x)
  BY <1>1, WakeInv
<1>3. sched.active = t /\ sched.status[t] = "RUNNING" /\ IsHead(sched, t)
  BY <1>1, ExecutingHead DEF IInv
<1> HIDE DEF u, m
<1>4. m.active = t /\ m.status[t] = "RUNNING" /\ IsHead(m, t)
  BY <1>2, <1>3, SchedFields DEF SameButQueues, IInv, SchedInv
<1>5. /\ m \in SchedState /\ RunqueueExact(m)
      /\ ThreadCalls(m) /\ IdleRunnable(m)
  BY <1>2 DEF SchedInv
<1>6. CallSwitchTo(u) \in Calls /\ CallSwitchTo(u).op = "switch_to"
  BY <1>2, CallTypes
<1>7. SchedInv(r) /\ r.status = m.status
  BY <1>4, <1>5, <1>6, CallInv DEF YieldOps, SwitchOps
<1> HIDE DEF r
<1>8. SchedInv(sched') /\ sched'.status = [sched.status EXCEPT ![u] = "RUNNING"]
  BY <1>1, <1>2, <1>7
<1>9. UNCHANGED <<tvars, noyield>>
  BY <1>1
<1> QED
  BY <1>2, <1>8, <1>9, LivingStep

\* thread_wakeup() by an interrupt handler.
LEMMA IsrWakeupInv ==
    ASSUME IInv, NEW i \in Pids, IsrWakeup(i)
    PROVE  IInv'
<1> DEFINE u == sched_threads[i]
           m == wakeup(sched, u)
<1>1. Sleeper(i) /\ UNCHANGED <<tvars, noyield>>
  BY DEF IsrWakeup
<1>2. PICK garbage \in BOOLEAN :
          sched' = cortexm_isr_end(sched_switch_isr(m, sched.priority[u], garbage))
  BY DEF IsrWakeup
<1>3. /\ u \in Threads /\ sched.status[u] = "SLEEPING"
      /\ SchedInv(m)
      /\ m.status = [sched.status EXCEPT ![u] = "RUNNING"]
  BY <1>1, WakeInv
<1> HIDE DEF u, m
<1>4. m \in SchedState
  BY <1>3 DEF SchedInv
<1>5. sched' \in SchedState /\ Quiet(sched', m)
  BY <1>2, <1>4, IsrQuiet
<1>6. SchedInv(sched') /\ sched'.status = m.status
  BY <1>3, <1>5, QuietInv
<1>7. sched'.status = [sched.status EXCEPT ![u] = "RUNNING"]
  BY <1>3, <1>6
<1> QED
  BY <1>1, <1>3, <1>6, <1>7, LivingStep

\* thread_kill_zombie().
LEMMA KillInv ==
    ASSUME IInv, NEW t \in Threads, NEW i \in Pids, thread_kill_zombie(t, i)
    PROVE  IInv'
<1> DEFINE u == sched_threads[i]
           r == sched_set_status(sched, u, "STOPPED")
<1>1. /\ u \in Threads /\ sched.status[u] = "ZOMBIE" /\ release(u)
      /\ noyield' = noyield /\ sched' = r
  BY DEF thread_kill_zombie, IInv, TypeOK
<1> HIDE DEF u
<1>2. SchedInv(sched) /\ ~on_runqueue(sched, u)
  BY <1>1 DEF IInv, on_runqueue, OnRunqueue
<1>3. SchedInv(r) /\ r.status = [sched.status EXCEPT ![u] = "STOPPED"]
  BY <1>1, <1>2, KeepInv DEF BlockedStatus
<1> HIDE DEF r
<1>4. /\ sched' \in SchedState
      /\ sched'.status[u] = "STOPPED"
      /\ \A x \in Threads \ {u} : sched'.status[x] = sched.status[x]
  BY <1>1, <1>2, <1>3, SchedFields DEF SchedInv
<1>5. noyield' \in BOOLEAN
  BY <1>1 DEF IInv, TypeOK
<1>6. TypeOK' /\ ThreadTableExact'
  BY <1>1, <1>4, <1>5, TableLeave DEF IInv
<1> QED
  BY <1>1, <1>3, <1>6 DEF IInv

\* sched_task_exit().
LEMMA TaskExitInv ==
    ASSUME IInv, NEW t \in Threads, sched_task_exit(t)
    PROVE  IInv'
<1>1. /\ Executing(t) /\ t # Idle /\ release(t)
      /\ sched' = task_exit(sched, t) /\ noyield' = noyield
  BY DEF sched_task_exit
<1>2. SchedInv(sched) /\ sched.status[t] # "STOPPED"
  BY <1>1, ExecutingHead DEF IInv
<1>3. SchedInv(sched') /\ sched'.status = [sched.status EXCEPT ![t] = "STOPPED"]
  BY <1>1, <1>2, ExitInv
<1>4. /\ sched' \in SchedState
      /\ sched'.status[t] = "STOPPED"
      /\ \A x \in Threads \ {t} : sched'.status[x] = sched.status[x]
  BY <1>2, <1>3, SchedFields DEF SchedInv
<1>5. noyield' \in BOOLEAN
  BY <1>1 DEF IInv, TypeOK
<1>6. TypeOK' /\ ThreadTableExact'
  BY <1>1, <1>2, <1>4, <1>5, TableLeave DEF IInv
<1> QED
  BY <1>3, <1>6 DEF IInv

-----------------------------------------------------------------------------
(* The initial state *)

\* kernel_init() leaves the run queues and the table exact.
LEMMA InitInv == Init => IInv
<1> SUFFICES ASSUME Init PROVE IInv
  OBVIOUS
<1> USE SchedAssumption, ThreadAssumption
<1>1. /\ MainPrio \in Prios /\ NPrio - 1 \in Prios /\ MainPrio # NPrio - 1
      /\ Main \in Threads /\ Main # Idle /\ Main # NoThread
      /\ (Idle # NoThread => Idle \in Threads)
  BY DEF Prios
<1>2. sched = kernel_init
  BY DEF Init
<1>3. sched \in SchedState
  <2>1. /\ [t \in Threads |-> IF t = Main THEN "RUNNING"
                               ELSE IF t = Idle THEN "PENDING"
                               ELSE "STOPPED"] \in [Threads -> Status]
        /\ [t \in Threads |-> NoCall] \in [Threads -> Calls]
        /\ [t \in Threads |-> IF t = Main THEN MainPrio ELSE NPrio - 1]
               \in [Threads -> Prios]
    BY <1>1, CallTypes DEF Status, BlockedStatus, OnRunqueue
  <2>2. [p \in Prios |-> IF p = MainPrio THEN <<Main>>
                         ELSE IF p = NPrio - 1 /\ Idle # NoThread THEN <<Idle>>
                         ELSE << >>] \in [Prios -> Seq(Threads)]
    BY <1>1
  <2>3. {MainPrio} \cup {p \in {NPrio - 1} : Idle # NoThread} \in SUBSET Prios
    BY <1>1
  <2> QED
    BY <1>1, <1>2, <2>1, <2>2, <2>3 DEF kernel_init, SchedState
<1>4. /\ \A t \in Threads : sched.status[t] = IF t = Main THEN "RUNNING"
                                             ELSE IF t = Idle THEN "PENDING"
                                             ELSE "STOPPED"
      /\ \A t \in Threads : sched.priority[t] = IF t = Main THEN MainPrio
                                               ELSE NPrio - 1
      /\ \A p \in Prios : sched.runqueues[p] =
             IF p = MainPrio THEN <<Main>>
             ELSE IF p = NPrio - 1 /\ Idle # NoThread THEN <<Idle>> ELSE << >>
      /\ sched.bitcache = {MainPrio} \cup {p \in {NPrio - 1} : Idle # NoThread}
      /\ sched.active = Main
      /\ \A t \in Threads : sched.call[t] = NoCall
  BY <1>2 DEF kernel_init
<1>5. \A t \in Threads : on_runqueue(sched, t) <=> t \in {Main, Idle}
  BY <1>4 DEF on_runqueue, OnRunqueue
<1>6. RunqueueExact(sched)
  <2>1. ASSUME NEW x \in Threads, NEW p \in Prios
        PROVE  Occurs(sched.runqueues[p], x)
                   <=> on_runqueue(sched, x) /\ sched.priority[x] = p
    <3> DEFINE min == NPrio - 1
    <3>0. /\ x = Main => sched.priority[x] = MainPrio
          /\ x # Main => sched.priority[x] = min
          /\ MainPrio # min
          /\ on_runqueue(sched, x) <=> x \in {Main, Idle}
      BY <1>1, <1>4, <1>5
    <3> HIDE DEF min
    <3>1. CASE p = MainPrio
      <4>1. Occurs(sched.runqueues[p], x) <=> x = Main
        BY <1>4, <3>1 DEF Occurs
      <4> QED
        BY <1>1, <3>0, <3>1, <4>1
    <3>2. CASE p = NPrio - 1 /\ Idle # NoThread
      <4>1. Occurs(sched.runqueues[p], x) <=> x = Idle
        BY <1>1, <1>4, <3>2 DEF Occurs
      <4> QED
        BY <1>1, <3>0, <3>2, <4>1 DEF min
    <3>3. CASE p # MainPrio /\ ~(p = NPrio - 1 /\ Idle # NoThread)
      <4>1. ~Occurs(sched.runqueues[p], x)
        BY <1>4, <3>3 DEF Occurs
      <4> QED
        BY <1>1, <3>0, <3>3, <4>1 DEF min
    <3> QED
      BY <3>1, <3>2, <3>3
  <2>2. \A p \in Prios : NoDup(sched.runqueues[p])
    BY <1>4 DEF NoDup
  <2>3. sched.bitcache = {p \in Prios : sched.runqueues[p] # << >>}
    BY <1>1, <1>4
  <2> QED
    BY <2>1, <2>2, <2>3, ExactRunqueues
<1>7. HeadRuns(sched)
  <2>1. sched.priority[Main] = MainPrio /\ sched.runqueues[MainPrio] = <<Main>>
    BY <1>1, <1>4
  <2>2. IsHead(sched, Main)
    BY <2>1 DEF IsHead
  <2> QED
    BY <1>1, <1>4, <2>2 DEF HeadRuns
<1>8. ThreadCalls(sched) /\ IdleRunnable(sched)
  BY <1>1, <1>4, <1>5, CallTypes DEF ThreadCalls, IdleRunnable, SwitchOps
<1>9. TypeOK /\ ThreadTableExact
  <2>1. CASE Idle = NoThread
    <3>1. /\ sched_threads = [i \in Pids |-> IF i = 1 THEN Main ELSE NoThread]
          /\ sched_num_threads = 1
          /\ pid = [t \in Threads |-> IF t = Main THEN 1 ELSE NoPid]
          /\ noyield = FALSE
      <4>1. /\ Len(Booted) = 1 /\ DOMAIN Booted = {1} /\ Booted[1] = Main
            /\ \A t \in Threads : t # Idle
        BY <2>1 DEF Booted
      <4> QED
        BY <4>1 DEF Init
    <3>2. 1 \in Pids /\ NoPid \notin Pids
      BY DEF Pids, NoPid
    <3>3. {i \in Pids : sched_threads[i] # NoThread} = {1}
      BY <1>1, <3>1, <3>2
    <3>4. sched_num_threads = Cardinality({i \in Pids : sched_threads[i] # NoThread})
      BY <3>1, <3>3, FS_Singleton
    <3>5. TypeOK
      <4>1. /\ sched_threads \in [Pids -> Threads \cup {NoThread}]
            /\ pid \in [Threads -> Pids \cup {NoPid}]
        BY <1>1, <3>1, <3>2
      <4>2. sched_num_threads \in 0 .. MaxPid
        BY <3>1
      <4>3. noyield \in BOOLEAN
        BY <3>1, Zenon
      <4> QED
        BY <1>3, <4>1, <4>2, <4>3 DEF TypeOK
    <3>6. ThreadTableExact
      BY <1>1, <1>4, <2>1, <3>1, <3>2, <3>4 DEF ThreadTableExact
    <3> QED
      BY <3>5, <3>6
  <2>2. CASE Idle # NoThread
    <3>1. /\ sched_threads = [i \in Pids |-> IF i = 1 THEN Idle
                                            ELSE IF i = 2 THEN Main ELSE NoThread]
          /\ sched_num_threads = 2
          /\ pid = [t \in Threads |-> IF t = Main THEN 2
                                      ELSE IF t = Idle THEN 1 ELSE NoPid]
          /\ noyield = FALSE
      BY <1>1, <2>2 DEF Init, Booted
    <3>2. 1 \in Pids /\ 2 \in Pids /\ NoPid \notin Pids
      BY DEF Pids, NoPid
    <3>3. {i \in Pids : sched_threads[i] # NoThread} = {1} \cup {2}
      BY <1>1, <2>2, <3>1, <3>2
    <3>4. sched_num_threads = Cardinality({i \in Pids : sched_threads[i] # NoThread})
      <4>1. IsFiniteSet({1}) /\ Cardinality({1}) = 1
        BY FS_Singleton
      <4>2. 2 \notin {1}
        OBVIOUS
      <4>3. Cardinality({1} \cup {2}) = Cardinality({1}) + 1
        BY <4>1, <4>2, FS_AddElement
      <4>4. Cardinality({1} \cup {2}) = 2
        BY <4>1, <4>3
      <4> QED
        BY <3>1, <3>3, <4>4
    <3>5. TypeOK
      <4>1. /\ sched_threads \in [Pids -> Threads \cup {NoThread}]
            /\ pid \in [Threads -> Pids \cup {NoPid}]
        BY <1>1, <2>2, <3>1, <3>2
      <4>2. sched_num_threads \in 0 .. MaxPid
        BY <3>1
      <4>3. noyield \in BOOLEAN
        BY <3>1, Zenon
      <4> QED
        BY <1>3, <4>1, <4>2, <4>3 DEF TypeOK
    <3>6. ThreadTableExact
      <4>1. /\ sched_threads[1] = Idle /\ sched_threads[2] = Main
            /\ \A i \in Pids \ {1, 2} : sched_threads[i] = NoThread
            /\ pid[Main] = 2 /\ pid[Idle] = 1
            /\ \A t \in Threads \ {Main, Idle} : pid[t] = NoPid
        BY <1>1, <2>2, <3>1, <3>2
      <4>2. \A i \in Pids : sched_threads[i] # NoThread => pid[sched_threads[i]] = i
        BY <4>1
      <4>3. ASSUME NEW t \in Threads
            PROVE  sched.status[t] # "STOPPED" <=>
                       pid[t] \in Pids /\ sched_threads[pid[t]] = t
        <5>1. CASE t = Main
          BY <1>4, <3>2, <4>1, <5>1
        <5>2. CASE t = Idle
          BY <1>1, <1>4, <3>2, <4>1, <5>2
        <5>3. CASE t \notin {Main, Idle}
          BY <1>4, <3>2, <4>1, <5>3
        <5> QED
          BY <5>1, <5>2, <5>3
      <4> QED
        BY <3>4, <4>2, <4>3 DEF ThreadTableExact
    <3> QED
      BY <3>5, <3>6
  <2> QED
    BY <2>1, <2>2
<1> QED
  BY <1>3, <1>6, <1>7, <1>8, <1>9 DEF IInv, SchedInv

-----------------------------------------------------------------------------
(* The theorems *)

\* Every step keeps the inductive invariant, provided threads change their
\* own priority only.
LEMMA NextInv ==
    ASSUME ~ChangeOthers, IInv, [Next]_vars
    PROVE  IInv'
<1>1. CASE UNCHANGED vars
  BY <1>1 DEF vars, IInv, TypeOK, ThreadTableExact
<1>2. CASE Kernel
  <2>1. CASE (PendSV \/ IdleWake) /\ noyield' = FALSE /\ UNCHANGED tvars
    <3>1. SchedInv(sched)
      BY DEF IInv
    <3>2. /\ SchedInv(sched')
          /\ \A x \in Threads : \/ sched'.status[x] = sched.status[x]
                                \/ on_runqueue(sched, x) /\ on_runqueue(sched', x)
      BY <2>1, <3>1, PendSVInv, IdleWakeInv
    <3>3. noyield' \in BOOLEAN
      BY <2>1, Zenon
    <3>4. SameLife(sched', sched)
      BY <3>2 DEF SameLife, on_runqueue, OnRunqueue
    <3> QED
      BY <2>1, <3>2, <3>3, <3>4, SameLifeStep
  <2>2. CASE /\ \E t \in Threads : SchedCall(t)
             /\ UNCHANGED tvars /\ noyield' = noyield
    <3>1. PICK t \in Threads : SchedCall(t)
      BY <2>2
    <3>2. SchedInv(sched') /\ sched'.status = sched.status
      BY <3>1, SchedCallInv DEF IInv
    <3>3. noyield' \in BOOLEAN
      BY <2>2 DEF IInv, TypeOK
    <3>4. SameLife(sched', sched)
      BY <3>2 DEF SameLife
    <3> QED
      BY <2>2, <3>2, <3>3, <3>4, SameLifeStep
  <2> QED
    BY <1>2, <2>1, <2>2 DEF Kernel
<1>3. CASE \E i \in Pids : IsrWakeup(i)
  BY <1>3, IsrWakeupInv
<1>4. ASSUME NEW t \in Threads, ThreadStep(t) PROVE IInv'
  <2>1. CASE \E c \in Threads, p \in Prios, f \in Flags : thread_create(t, c, p, f)
    BY <2>1, CreateInv
  <2>2. CASE thread_sleep(t)
    BY <2>2, SleepInv
  <2>3. CASE \E i \in Pids : thread_wakeup(t, i)
    BY <2>3, WakeupInv
  <2>4. CASE thread_yield(t)
    <3>1. /\ Executing(t) /\ sched' = yield_section(sched, t)
          /\ UNCHANGED tvars /\ noyield' = noyield
      BY <2>4 DEF thread_yield
    <3>2. SchedInv(sched') /\ sched'.status = sched.status
      BY <3>1, YieldInv DEF IInv
    <3>3. noyield' \in BOOLEAN
      BY <3>1 DEF IInv, TypeOK
    <3>4. SameLife(sched', sched)
      BY <3>2 DEF SameLife
    <3> QED
      BY <3>1, <3>2, <3>3, <3>4, SameLifeStep
  <2>5. CASE thread_zombify(t)
    BY <2>5, ZombifyInv
  <2>6. CASE \E i \in Pids : thread_kill_zombie(t, i)
    BY <2>6, KillInv
  <2>7. CASE sched_task_exit(t)
    BY <2>7, TaskExitInv
  <2>8. CASE \E u \in Threads, p \in Prios : change_priority(t, u, p)
    <3>1. PICK p \in Prios : change_priority(t, t, p)
      BY <2>8 DEF change_priority
    <3>2. /\ Executing(t) /\ sched' = sched_change_priority(sched, t, p)
          /\ UNCHANGED tvars /\ noyield' = noyield
      BY <3>1 DEF change_priority
    <3>3. SchedInv(sched') /\ sched'.status = sched.status
      BY <3>2, ChangeInv DEF IInv
    <3>4. noyield' \in BOOLEAN
      BY <3>2 DEF IInv, TypeOK
    <3>5. SameLife(sched', sched)
      BY <3>3 DEF SameLife
    <3> QED
      BY <3>2, <3>3, <3>4, <3>5, SameLifeStep
  <2> QED
    BY <1>4, <2>1, <2>2, <2>3, <2>4, <2>5, <2>6, <2>7, <2>8 DEF ThreadStep
<1> QED
  BY <1>1, <1>2, <1>3, <1>4 DEF Next

\* The inductive invariant holds in every reachable state.
THEOREM InductiveInvariant == ASSUME ~ChangeOthers PROVE Spec => []IInv
<1>1. IInv /\ [Next]_vars => IInv'
  BY NextInv
<1> QED
  BY <1>1, InitInv, PTL DEF Spec

\* The kernel's globals, the control blocks and the thread table keep their
\* types; in particular sched_num_threads never leaves 0 .. MAXTHREADS.
THEOREM TypeCorrect == ASSUME ~ChangeOthers PROVE Spec => []TypeOK
<1>1. IInv => TypeOK
  BY DEF IInv
<1> QED
  BY <1>1, InductiveInvariant, PTL

\* `st >= STATUS_ON_RUNQUEUE` says of every thread whether it is on the run
\* queue of its priority, although _runqueue_pop() removes the head of that
\* queue whoever it is: for every number of threads and of priorities.
THEOREM RunqueuesExact == ASSUME ~ChangeOthers PROVE Spec => []StatusMatchesRunqueue
<1>1. IInv => StatusMatchesRunqueue
  BY DEF IInv, SchedInv, StatusMatchesRunqueue
<1> QED
  BY <1>1, InductiveInvariant, PTL

\* The thread that has the CPU, and is not on its way to
\* thread_yield_higher(), is RUNNING and the head of its run queue.
THEOREM RunningHead == ASSUME ~ChangeOthers PROVE Spec => []RunningIsHead
<1>1. IInv => RunningIsHead
  BY DEF IInv, SchedInv, HeadRuns, IsHead, RunningIsHead, OnCpu
<1> QED
  BY <1>1, InductiveInvariant, PTL

\* sched_threads[], the pids and sched_num_threads agree with the statuses
\* of the threads, through every creation, exit and kill of a zombie.
THEOREM TableExact == ASSUME ~ChangeOthers PROVE Spec => []ThreadTableExact
<1>1. IInv => ThreadTableExact
  BY DEF IInv
<1> QED
  BY <1>1, InductiveInvariant, PTL

-----------------------------------------------------------------------------
(* Priority: what the thread on the CPU has left to call *)

\* t need not, or is still going to, give way to x.
Awaits(s, t, x) ==
    \/ s.priority[t] <= s.priority[x]
    \/ s.call[t].op \in YieldOps
    \/ s.call[t].op = "switch" /\ s.call[t].prio <= s.priority[x]
    \/ /\ s.call[t].op = "switch_to" /\ s.call[t].to \in Threads
       /\ s.priority[s.call[t].to] <= s.priority[x]

\* No runnable thread of higher priority is overlooked.
NoneHigher(s) ==
    \A t, x \in Threads :
        s.active = t /\ ~s.pendsv /\ ~s.idle /\ on_runqueue(s, x) => Awaits(s, t, x)

PInv == ~noyield => NoneHigher(sched)

-----------------------------------------------------------------------------
(* Operators of the scheduler *)

\* A thread on its way to thread_yield_higher() overlooks nobody.
LEMMA YieldsToAll ==
    ASSUME NEW s \in SchedState, NEW t \in Threads, s.active = t
    PROVE  NoneHigher([s EXCEPT !.call[t] = CallYield])
<1> DEFINE r == [s EXCEPT !.call[t] = CallYield]
<1>1. r.call = [s.call EXCEPT ![t] = CallYield] /\ r.active = t
  BY SetCall, CallTypes
<1>2. s.call \in [Threads -> Calls]
  BY SchedFields
<1> HIDE DEF r
<1>3. r.call[t].op = "yield"
  BY <1>1, <1>2, CallTypes
<1>4. NoneHigher(r)
  BY <1>1, <1>3 DEF NoneHigher, Awaits, YieldOps
<1> QED
  BY <1>4 DEF r

\* Nor does one that will be switched from.
LEMMA PendingNone ==
    ASSUME NEW s, s.pendsv \/ s.idle \/ s.active = NoThread
    PROVE  NoneHigher(s)
  BY SchedAssumption DEF NoneHigher

\* The thread sched_run() chooses has the highest priority.
LEMMA ChosenIsHighest ==
    ASSUME NEW s \in SchedState, RunqueueExact(s), s.bitcache # {},
           NEW prev \in {s.active, NoThread}
    PROVE  NoneHigher(sched_run_next(s, prev))
<1> DEFINE r == sched_run_next(s, prev)
<1>1. /\ r \in SchedState /\ RunqueueExact(r) /\ r.active \in Threads
      /\ \A q \in r.bitcache : r.priority[r.active] <= q
  BY RunNext
<1> HIDE DEF r
<1>2. \A x \in Threads : on_runqueue(r, x) => r.priority[x] \in r.bitcache
  BY <1>1, OnItsQueue
<1>3. NoneHigher(r)
  BY <1>1, <1>2 DEF NoneHigher, Awaits
<1> QED
  BY <1>3 DEF r

\* sched_switch() by the thread on the CPU, with the priority of a thread it
\* would have overlooked.
LEMMA SwitchGivesWay ==
    ASSUME NEW s \in SchedState, NEW t \in Threads, s.active = t, NEW p,
           \A x \in Threads : on_runqueue(s, x) =>
               s.priority[t] <= s.priority[x] \/ (p \in Prios /\ p <= s.priority[x])
    PROVE  NoneHigher(sched_switch(s, p))
<1>1. CASE SwitchNeeded(s, p)
  <2>1. sched_switch(s, p).pendsv
    BY <1>1, PendYield DEF sched_switch
  <2> QED
    BY <2>1, PendingNone
<1>2. CASE ~SwitchNeeded(s, p)
  <2>1. sched_switch(s, p) = s /\ ~(s.priority[t] > p)
    BY <1>2 DEF sched_switch, SwitchNeeded
  <2>2. s.priority \in [Threads -> Prios] /\ Prios \in SUBSET Int
    BY SchedFields, SchedAssumption DEF Prios
  <2>3. \A x \in Threads : on_runqueue(s, x) => s.priority[t] <= s.priority[x]
    BY <2>1, <2>2
  <2> QED
    BY <2>1, <2>3 DEF NoneHigher, Awaits
<1> QED
  BY <1>1, <1>2

\* A handler that wakes u and calls sched_switch() with its priority.
LEMMA IsrGivesWay ==
    ASSUME NEW s, SchedInv(s), NoneHigher(s), NEW m \in SchedState, NEW u \in Threads,
           SameButQueues(m, s),
           \A x \in Threads : on_runqueue(m, x) => on_runqueue(s, x) \/ x = u,
           NEW garbage \in BOOLEAN
    PROVE  NoneHigher(cortexm_isr_end(sched_switch_isr(m, s.priority[u], garbage)))
<1> DEFINE p == s.priority[u]
           n == sched_switch_isr(m, p, garbage)
           r == cortexm_isr_end(n)
<1>1. n \in SchedState /\ n.active = m.active /\ n.pendsv = m.pendsv /\ n.idle = m.idle
      /\ n.call = m.call /\ n.priority = m.priority /\ n.status = m.status
      /\ (m.active # NoThread /\ SwitchNeeded(m, p) => n.request)
  <2>1. SwitchNeeded(m, p) \in BOOLEAN
    BY DEF SwitchNeeded
  <2> HIDE DEF SwitchNeeded, p
  <2> QED
    BY <2>1 DEF sched_switch_isr, SchedState
<1>2. n.request => r.pendsv
  BY <1>1, PendYield DEF cortexm_isr_end
<1>3. ~n.request => r = n
  BY DEF cortexm_isr_end
<1> HIDE DEF n, r
<1>4. CASE n.request
  BY <1>2, <1>4, PendingNone DEF r, n
<1>5. CASE ~n.request
  <2>1. \A x \in Threads : on_runqueue(n, x) <=> on_runqueue(m, x)
    BY <1>1 DEF on_runqueue
  <2>2. ASSUME NEW t \in Threads, NEW x \in Threads, n.active = t, ~n.pendsv, ~n.idle,
               on_runqueue(n, x)
        PROVE  Awaits(n, t, x)
    <3>1. s.active = t /\ ~s.pendsv /\ ~s.idle
      BY <1>1, <2>2 DEF SameButQueues
    <3>2. Awaits(n, t, x) <=> Awaits(s, t, x)
      BY <1>1 DEF Awaits, SameButQueues
    <3>3. CASE on_runqueue(s, x)
      BY <3>1, <3>2, <3>3 DEF NoneHigher
    <3>4. CASE x = u
      <4>1. ~SwitchNeeded(m, p) /\ m.active = t
        BY <1>1, <1>5, <2>2, SchedAssumption
      <4>2. ~(s.priority[t] > s.priority[x])
        BY <3>4, <4>1 DEF SwitchNeeded, SameButQueues
      <4>3. s.priority[t] \in Int /\ s.priority[x] \in Int
        BY SMTT(30), SchedFields, SchedAssumption DEF SchedInv, Prios
      <4> QED
        BY SMTT(30), <3>2, <4>2, <4>3 DEF Awaits
    <3> QED
      BY <2>1, <2>2, <3>3, <3>4
  <2> QED
    BY <1>3, <1>5, <2>2 DEF NoneHigher, r, n
<1> QED
  BY <1>4, <1>5

-----------------------------------------------------------------------------
(* The steps *)

\* Nobody is above a thread that executes application code.
LEMMA ExecutingHighest ==
    ASSUME IInv, NoneHigher(sched), NEW t \in Threads, Executing(t)
    PROVE  \A x \in Threads : on_runqueue(sched, x) =>
               sched.priority[t] <= sched.priority[x]
<1>1. /\ sched.active = t /\ ~sched.pendsv /\ ~sched.idle
      /\ sched.call[t].op = "none"
  BY ExecutingHead, CallTypes DEF IInv, Executing
<1> QED
  BY <1>1 DEF NoneHigher, Awaits, YieldOps

\* thread_create().
LEMMA CreateNone ==
    ASSUME IInv, PInv, NEW t \in Threads, NEW c \in Threads, NEW p \in Prios,
           NEW flag \in Flags, thread_create(t, c, p, flag)
    PROVE  PInv'
<1> DEFINE new == [sched EXCEPT !.priority[c] = p, !.status[c] = "STOPPED",
                                !.call[c] = NoCall]
           awake == sched_set_status(new, c, "PENDING")
<1>1. /\ Executing(t) /\ sched.status[c] = "STOPPED"
      /\ sched' = CASE flag = "SLEEPING" -> sched_set_status(new, c, "SLEEPING")
                    [] flag = "WOUT_YIELD" -> awake
                    [] flag = "NONE" -> [awake EXCEPT !.call[t] = CallSwitch(p)]
      /\ noyield' = (noyield \/ flag = "WOUT_YIELD")
  BY DEF thread_create
<1>2. /\ sched.active = t /\ t # c /\ SchedInv(sched) /\ sched \in SchedState
      /\ sched.call[t].op = "none"
  BY <1>1, ExecutingHead, CallTypes DEF IInv, SchedInv, Executing
<1>3. SchedInv(new) /\ new.status = sched.status /\ new.active = t
  BY <1>1, <1>2, NewThread
<1>4. /\ \A x \in Threads : new.priority[x] = IF x = c THEN p ELSE sched.priority[x]
      /\ new.call[t] = sched.call[t]
  <2>1. /\ sched.priority \in [Threads -> Prios]
        /\ sched.call \in [Threads -> Calls]
    BY <1>2, SchedFields
  <2>2. /\ new.priority = [sched.priority EXCEPT ![c] = p]
        /\ new.call = [sched.call EXCEPT ![c] = NoCall]
    BY <1>2 DEF SchedState
  <2> HIDE DEF new
  <2> QED
    BY <1>2, <2>1, <2>2
<1> HIDE DEF new
<1>5. new \in SchedState /\ RunqueueExact(new)
  BY <1>3 DEF SchedInv
<1>6. SUFFICES ASSUME ~noyield, flag # "WOUT_YIELD" PROVE NoneHigher(sched')
  BY <1>1 DEF PInv
<1>7. \A x \in Threads \ {c} : on_runqueue(sched, x) => new.priority[t] <= new.priority[x]
  <2>1. \A x \in Threads : on_runqueue(sched, x) => sched.priority[t] <= sched.priority[x]
    BY <1>1, <1>6, ExecutingHighest DEF PInv
  <2> QED
    BY <1>2, <1>4, <2>1
<1>8. CASE flag = "SLEEPING"
  <2>1. sched' = sched_set_status(new, c, "SLEEPING")
    BY <1>1, <1>8
  <2>2. "SLEEPING" \in Status
    BY DEF Status, BlockedStatus
  <2>3. sched'.status = [new.status EXCEPT ![c] = "SLEEPING"] /\ SameButQueues(sched', new)
    BY <1>5, <2>1, <2>2, SetStatusOnly
  <2>4. \A x \in Threads : on_runqueue(sched', x) => x # c /\ on_runqueue(sched, x)
    BY SMTT(30), <1>2, <1>3, <2>3, SchedFields DEF on_runqueue, OnRunqueue
  <2> QED
    BY <1>3, <1>7, <2>3, <2>4 DEF NoneHigher, Awaits, SameButQueues
<1>9. CASE flag = "NONE"
  <2>1. sched' = [awake EXCEPT !.call[t] = CallSwitch(p)]
    BY <1>1, <1>9
  <2>2. "PENDING" \in Status
    BY DEF Status, OnRunqueue
  <2>3. /\ awake \in SchedState /\ awake.status = [new.status EXCEPT ![c] = "PENDING"]
        /\ SameButQueues(awake, new)
    BY <1>5, <2>2, SetStatusOnly
  <2> HIDE DEF awake
  <2>4. /\ SameQueues(sched', awake) /\ sched'.active = awake.active
        /\ sched'.call = [awake.call EXCEPT ![t] = CallSwitch(p)]
    BY <2>1, <2>3, SetCall, CallTypes
  <2>5. sched'.call[t].op = "switch" /\ sched'.call[t].prio = p
    BY <2>3, <2>4, SchedFields DEF CallSwitch, Call
  <2>6. sched'.priority = new.priority /\ sched'.active = t
    BY <1>3, <2>3, <2>4 DEF SameQueues, SameButQueues
  <2>7. \A x \in Threads : on_runqueue(sched', x) => x = c \/ on_runqueue(sched, x)
    BY SMTT(30), <1>2, <1>3, <2>3, <2>4, SchedFields DEF on_runqueue, SameQueues
  <2>8. p <= p
    BY SchedAssumption DEF Prios
  <2> QED
    BY <1>4, <1>7, <2>5, <2>6, <2>7, <2>8 DEF NoneHigher, Awaits
<1> QED
  BY <1>6, <1>8, <1>9 DEF Flags

\* thread_wakeup() by a thread.
LEMMA WakeupNone ==
    ASSUME IInv, NoneHigher(sched), NEW t \in Threads, NEW i \in Pids, thread_wakeup(t, i)
    PROVE  NoneHigher(sched')
<1> DEFINE u == sched_threads[i]
           m == wakeup(sched, u)
<1>1. Executing(t) /\ Sleeper(i) /\ sched' = [m EXCEPT !.call[t] = CallSwitchTo(u)]
  BY DEF thread_wakeup
<1>2. /\ u \in Threads /\ SchedInv(m)
      /\ m.status = [sched.status EXCEPT ![u] = "RUNNING"]
      /\ SameButQueues(m, sched)
  BY <1>1, WakeInv
<1>3. sched.active = t /\ sched \in SchedState
  BY <1>1, ExecutingHead DEF IInv, SchedInv
<1>4. \A x \in Threads : on_runqueue(sched, x) => sched.priority[t] <= sched.priority[x]
  BY <1>1, ExecutingHighest
<1> HIDE DEF u, m
<1>5. m \in SchedState
  BY <1>2 DEF SchedInv
<1>6. /\ SameQueues(sched', m) /\ sched'.active = m.active
      /\ sched'.call = [m.call EXCEPT ![t] = CallSwitchTo(u)]
  BY <1>1, <1>2, <1>5, SetCall, CallTypes
<1>7. sched'.call[t].op = "switch_to" /\ sched'.call[t].to = u
  BY <1>5, <1>6, SchedFields DEF CallSwitchTo, Call
<1>8. sched'.priority = sched.priority /\ sched'.active = t
  BY <1>2, <1>3, <1>6 DEF SameQueues, SameButQueues
<1>9. \A x \in Threads : on_runqueue(sched', x) => x = u \/ on_runqueue(sched, x)
  BY <1>2, <1>3, <1>6, SchedFields DEF on_runqueue, SameQueues
<1>10. sched.priority[u] <= sched.priority[u]
  BY SMTT(30), <1>2, <1>3, SchedFields, SchedAssumption DEF Prios
<1> QED
  BY <1>4, <1>7, <1>8, <1>9, <1>10 DEF NoneHigher, Awaits

\* thread_wakeup() by a handler.
LEMMA IsrWakeupNone ==
    ASSUME IInv, NoneHigher(sched), NEW i \in Pids, IsrWakeup(i)
    PROVE  NoneHigher(sched')
<1> DEFINE u == sched_threads[i]
           m == wakeup(sched, u)
<1>1. Sleeper(i)
  BY DEF IsrWakeup
<1>2. PICK garbage \in BOOLEAN :
          sched' = cortexm_isr_end(sched_switch_isr(m, sched.priority[u], garbage))
  BY DEF IsrWakeup
<1>3. /\ u \in Threads /\ SchedInv(m)
      /\ m.status = [sched.status EXCEPT ![u] = "RUNNING"]
      /\ SameButQueues(m, sched)
  BY <1>1, WakeInv
<1> HIDE DEF u, m
<1>4. SchedInv(sched) /\ m \in SchedState
  BY <1>3 DEF IInv, SchedInv
<1>5. \A x \in Threads : on_runqueue(m, x) => on_runqueue(sched, x) \/ x = u
  BY <1>3, <1>4, SchedFields DEF on_runqueue, SchedInv
<1> QED
  BY <1>2, <1>3, <1>4, <1>5, IsrGivesWay

\* thread_sleep(), thread_zombify() and thread_yield() leave the call of
\* thread_yield_higher().
LEMMA GiveUpNone ==
    ASSUME IInv, NEW t \in Threads,
           thread_sleep(t) \/ thread_zombify(t) \/ thread_yield(t)
    PROVE  NoneHigher(sched')
<1>1. Executing(t)
  BY DEF thread_sleep, thread_zombify, thread_yield
<1>2. /\ sched \in SchedState /\ RunqueueExact(sched) /\ sched.active = t
      /\ on_runqueue(sched, t) /\ sched.priority[t] \in Prios
  BY <1>1, ExecutingHead, SchedFields DEF IInv, SchedInv
<1>3. ASSUME NEW st \in {"SLEEPING", "ZOMBIE"},
             sched' = [sched_set_status(sched, t, st) EXCEPT !.call[t] = CallYield]
      PROVE  NoneHigher(sched')
  <2>1. st \in Status
    BY <1>3 DEF Status, BlockedStatus
  <2>2. LET r == sched_set_status(sched, t, st) IN r \in SchedState /\ r.active = t
    BY <1>2, <2>1, SetStatusOnly DEF SameButQueues
  <2> QED
    BY <1>3, <2>2, YieldsToAll
<1>4. ASSUME sched' = yield_section(sched, t) PROVE NoneHigher(sched')
  <2> DEFINE m == sched_runq_advance(sched, sched.priority[t])
  <2>1. m \in SchedState /\ SameButQueues(m, sched)
    BY <1>2, Advance
  <2>2. sched' = [m EXCEPT !.call[t] = CallYield]
    BY <1>2, <1>4 DEF yield_section
  <2> HIDE DEF m
  <2>3. m.active = t
    BY <1>2, <2>1 DEF SameButQueues
  <2> QED
    BY <2>1, <2>2, <2>3, YieldsToAll
<1> QED
  BY <1>3, <1>4 DEF thread_sleep, thread_zombify, thread_yield

\* thread_kill_zombie() touches no run queue.
LEMMA KillNone ==
    ASSUME IInv, NoneHigher(sched), NEW t \in Threads, NEW i \in Pids,
           thread_kill_zombie(t, i)
    PROVE  NoneHigher(sched')
<1> DEFINE u == sched_threads[i]
<1>1. u \in Threads /\ sched' = sched_set_status(sched, u, "STOPPED")
  BY DEF thread_kill_zombie, IInv, TypeOK
<1> HIDE DEF u
<1>2. sched \in SchedState /\ RunqueueExact(sched) /\ "STOPPED" \in Status
  BY DEF IInv, SchedInv, Status, BlockedStatus
<1>3. sched'.status = [sched.status EXCEPT ![u] = "STOPPED"] /\ SameButQueues(sched', sched)
  BY <1>1, <1>2, SetStatusOnly
<1>4. \A x \in Threads : on_runqueue(sched', x) => on_runqueue(sched, x)
  BY <1>2, <1>3, SchedFields DEF on_runqueue, OnRunqueue
<1>5. /\ sched'.active = sched.active /\ sched'.pendsv = sched.pendsv
      /\ sched'.idle = sched.idle
      /\ \A x, y \in Threads : Awaits(sched', x, y) <=> Awaits(sched, x, y)
  BY <1>3 DEF SameButQueues, Awaits
<1> QED
  BY <1>4, <1>5 DEF NoneHigher

\* sched_task_exit() leaves no active thread, and a thread that changes its
\* priority pends a switch.
LEMMA ExitChangeNone ==
    ASSUME IInv, NoneHigher(sched), NEW t \in Threads,
           \/ sched_task_exit(t)
           \/ \E p \in Prios : change_priority(t, t, p)
    PROVE  NoneHigher(sched')
<1>1. CASE sched_task_exit(t)
  <2> DEFINE m == sched_set_status(sched, t, "STOPPED")
  <2>1. sched' = thread_yield_higher([m EXCEPT !.active = NoThread])
    BY <1>1 DEF sched_task_exit, task_exit
  <2>2. sched \in SchedState /\ RunqueueExact(sched) /\ "STOPPED" \in Status
    BY DEF IInv, SchedInv, Status, BlockedStatus
  <2>3. m \in SchedState
    BY <2>2, SetStatusOnly
  <2> HIDE DEF m
  <2>4. [m EXCEPT !.active = NoThread] \in SchedState
    BY <2>3 DEF SchedState
  <2>5. sched'.pendsv
    BY <2>1, <2>4, PendYield
  <2> QED
    BY <2>5, PendingNone
<1>2. ASSUME NEW p \in Prios, change_priority(t, t, p) PROVE NoneHigher(sched')
  <2>1. Executing(t) /\ sched' = sched_change_priority(sched, t, p)
    BY <1>2 DEF change_priority
  <2>2. CASE sched.priority[t] = p
    BY <2>1, <2>2 DEF sched_change_priority
  <2>3. CASE sched.priority[t] # p
    <3>1. /\ on_runqueue(sched, t) /\ sched.active = t /\ IsHead(sched, t)
          /\ sched \in SchedState /\ RunqueueExact(sched)
      BY <2>1, ExecutingHead DEF IInv, SchedInv
    <3>2. sched'.pendsv
      BY <2>1, <2>3, <3>1, ChangeOfHead
    <3> QED
      BY <3>2, PendingNone
  <2> QED
    BY <2>2, <2>3
<1> QED
  BY <1>1, <1>2

\* The calls a thread has left.
LEMMA SchedCallNone ==
    ASSUME IInv, NoneHigher(sched), NEW t \in Threads, SchedCall(t)
    PROVE  NoneHigher(sched')
<1> DEFINE s == [sched EXCEPT !.call[t] = NoCall]
<1>1. /\ sched.active = t /\ ~sched.pendsv /\ ~sched.idle
      /\ \/ /\ sched.call[t].op = "yield"
            /\ sched' = thread_yield_higher(s)
         \/ /\ sched.call[t].op = "switch"
            /\ sched' = sched_switch(s, sched.call[t].prio)
         \/ /\ sched.call[t].op = "switch_to"
            /\ sched' = sched_switch(s, s.priority[sched.call[t].to])
         \/ /\ sched.call[t].op = "thread_yield"
            /\ sched' = yield_section(s, t)
  BY DEF SchedCall, OnCpu, IInv, SchedInv, ThreadCalls, YieldOps, SwitchOps
<1>2. /\ sched \in SchedState /\ s \in SchedState
      /\ SameQueues(s, sched) /\ s.active = t
  BY <1>1, SetCall, CallTypes DEF IInv, SchedInv
<1> HIDE DEF s
<1>3. /\ s.priority = sched.priority
      /\ \A x \in Threads : on_runqueue(s, x) <=> on_runqueue(sched, x)
      /\ \A x \in Threads : on_runqueue(sched, x) => Awaits(sched, t, x)
  BY <1>1, <1>2 DEF SameQueues, on_runqueue, NoneHigher
<1>4. CASE sched.call[t].op = "yield"
  BY <1>1, <1>2, <1>4, PendYield, PendingNone
<1>5. CASE sched.call[t].op = "switch"
  <2>1. sched.call[t].prio \in Prios
    BY <1>2, SchedFields DEF Calls
  <2>2. \A x \in Threads : on_runqueue(s, x) =>
            \/ s.priority[t] <= s.priority[x]
            \/ sched.call[t].prio \in Prios /\ sched.call[t].prio <= s.priority[x]
    BY <1>3, <1>5, <2>1 DEF Awaits, YieldOps
  <2> QED
    BY <1>1, <1>2, <1>5, <2>2, SwitchGivesWay
<1>6. CASE sched.call[t].op = "switch_to"
  <2> DEFINE p == s.priority[sched.call[t].to]
  <2>1. \A x \in Threads : on_runqueue(s, x) =>
            s.priority[t] <= s.priority[x] \/ (p \in Prios /\ p <= s.priority[x])
    BY <1>2, <1>3, <1>6, SchedFields DEF Awaits, YieldOps
  <2>2. sched' = sched_switch(s, p)
    BY <1>1, <1>6
  <2> HIDE DEF p
  <2> QED
    BY <1>2, <2>1, <2>2, SwitchGivesWay
<1>7. CASE sched.call[t].op = "thread_yield"
  <2> DEFINE m == IF on_runqueue(s, t) THEN sched_runq_advance(s, s.priority[t]) ELSE s
  <2>1. sched' = [m EXCEPT !.call[t] = CallYield]
    BY <1>1, <1>7 DEF yield_section
  <2>2. RunqueueExact(s) /\ s.priority[t] \in Prios
    BY <1>2, SameQueuesExact, SchedFields DEF IInv, SchedInv
  <2>3. m \in SchedState /\ m.active = t
    BY <1>2, <2>2, Advance DEF SameButQueues
  <2> HIDE DEF m
  <2> QED
    BY <2>1, <2>3, YieldsToAll
<1> QED
  BY <1>1, <1>4, <1>5, <1>6, <1>7

\* sched_run(): whatever was overlooked, it is not any more.
LEMMA RunNone ==
    ASSUME IInv, PendSV \/ IdleWake
    PROVE  NoneHigher(sched')
<1>1. sched \in SchedState /\ RunqueueExact(sched) /\ IdleRunnable(sched)
  BY DEF IInv, SchedInv
<1>2. CASE PendSV
  <2> DEFINE s == [sched EXCEPT !.pendsv = FALSE]
  <2>1. sched' = sched_run(s)
    BY <1>2 DEF PendSV
  <2>2. s \in SchedState /\ SameQueues(s, sched)
    BY <1>1 DEF SchedState, SameQueues
  <2> HIDE DEF s
  <2>3. RunqueueExact(s)
    BY <1>1, <2>2, SameQueuesExact
  <2>4. CASE s.bitcache # {}
    <3>1. sched' = sched_run_next(s, s.active)
      BY <2>1, <2>4 DEF sched_run
    <3> QED
      BY <2>2, <2>3, <2>4, <3>1, ChosenIsHighest
  <2>5. CASE s.bitcache = {}
    <3>1. \A x \in Threads : ~on_runqueue(s, x)
      BY <2>2, <2>3, <2>5, OnItsQueue
    <3>2. Idle = NoThread
      BY <1>1, <2>2, <3>1, SchedAssumption DEF IdleRunnable, SameQueues, on_runqueue
    <3>3. s.active # NoThread => s.status[s.active] # "RUNNING"
      BY <2>2, <3>1, SchedFields DEF on_runqueue, OnRunqueue
    <3>4. sched' = [s EXCEPT !.idle = TRUE]
      BY <2>1, <2>5, <3>2, <3>3 DEF sched_run, unschedule
    <3>5. sched'.idle
      BY <2>2, <3>4 DEF SchedState
    <3> QED
      BY <3>5, PendingNone
  <2> QED
    BY <2>4, <2>5
<1>3. CASE IdleWake
  <2> DEFINE s == [sched EXCEPT !.idle = FALSE]
  <2>1. sched' = sched_run_next(s, NoThread) /\ sched.bitcache # {}
    BY <1>3 DEF IdleWake
  <2>2. s \in SchedState /\ SameQueues(s, sched)
    BY <1>1 DEF SchedState, SameQueues
  <2> HIDE DEF s
  <2>3. RunqueueExact(s) /\ s.bitcache # {}
    BY <1>1, <2>1, <2>2, SameQueuesExact DEF SameQueues
  <2> QED
    BY <2>1, <2>2, <2>3, ChosenIsHighest
<1> QED
  BY <1>2, <1>3

\* After kernel_init() the main thread runs, above the idle thread.
LEMMA InitNone == Init => NoneHigher(sched)
<1> SUFFICES ASSUME Init PROVE NoneHigher(sched)
  OBVIOUS
<1> USE SchedAssumption, ThreadAssumption
<1>1. /\ \A t \in Threads : sched.priority[t] = IF t = Main THEN MainPrio
                                               ELSE NPrio - 1
      /\ sched.active = Main /\ Main \in Threads
  BY DEF Init, kernel_init
<1>2. MainPrio \in Int /\ NPrio - 1 \in Int /\ MainPrio <= NPrio - 1
  BY DEF Prios
<1>3. \A x \in Threads : sched.priority[Main] <= sched.priority[x]
  BY <1>1, <1>2
<1> QED
  BY <1>1, <1>3 DEF NoneHigher, Awaits

\* Every step keeps PInv.
LEMMA NextNone ==
    ASSUME ~ChangeOthers, IInv, PInv, [Next]_vars
    PROVE  PInv'
<1>1. CASE UNCHANGED vars
  <2>1. sched' = sched /\ noyield' = noyield
    BY <1>1 DEF vars
  <2> QED
    BY <2>1 DEF PInv
<1>2. CASE \E t \in Threads, c \in Threads, p \in Prios, f \in Flags :
               thread_create(t, c, p, f)
  BY <1>2, CreateNone
<1>3. CASE PendSV \/ IdleWake
  BY <1>3, RunNone DEF PInv
<1>4. ASSUME noyield' = noyield, NoneHigher(sched) => NoneHigher(sched')
      PROVE  PInv'
  BY <1>4 DEF PInv
<1>5. CASE (\E t \in Threads : SchedCall(t)) /\ noyield' = noyield
  BY <1>4, <1>5, SchedCallNone
<1>6. CASE \E i \in Pids : IsrWakeup(i)
  <2>1. noyield' = noyield
    BY <1>6 DEF IsrWakeup
  <2> QED
    BY <1>4, <1>6, <2>1, IsrWakeupNone
<1>7. ASSUME NEW t \in Threads, thread_sleep(t) \/ thread_zombify(t) \/ thread_yield(t)
      PROVE  PInv'
  <2>1. noyield' = noyield
    BY <1>7 DEF thread_sleep, thread_zombify, thread_yield
  <2> QED
    BY <1>4, <1>7, <2>1, GiveUpNone
<1>8. ASSUME NEW t \in Threads, NEW i \in Pids,
             thread_wakeup(t, i) \/ thread_kill_zombie(t, i)
      PROVE  PInv'
  <2>1. noyield' = noyield
    BY <1>8 DEF thread_wakeup, thread_kill_zombie
  <2> QED
    BY <1>4, <1>8, <2>1, WakeupNone, KillNone
<1>9. ASSUME NEW t \in Threads,
             sched_task_exit(t) \/ \E u \in Threads, p \in Prios : change_priority(t, u, p)
      PROVE  PInv'
  <2>1. /\ noyield' = noyield
        /\ sched_task_exit(t) \/ \E p \in Prios : change_priority(t, t, p)
    BY <1>9 DEF sched_task_exit, change_priority
  <2> QED
    BY <1>4, <2>1, ExitChangeNone
<1> QED
  BY <1>1, <1>2, <1>3, <1>5, <1>6, <1>7, <1>8, <1>9 DEF Next, Kernel, ThreadStep

-----------------------------------------------------------------------------
(* Terminated threads *)

\* What TerminatedStaysDown allows a step to do.
Down ==
    \A t \in Threads :
        /\ sched.status[t] = "ZOMBIE" => sched.status'[t] \in {"ZOMBIE", "STOPPED"}
        /\ sched.status[t] = "STOPPED" /\ sched.status'[t] # "STOPPED" =>
               sched_num_threads' = sched_num_threads + 1

\* A step that changes the status of one living thread that is no zombie, or
\* stops a thread.
LEMMA OneDown ==
    ASSUME sched \in SchedState, NEW u \in Threads, NEW st,
           sched'.status = [sched.status EXCEPT ![u] = st],
           sched.status[u] \notin {"ZOMBIE", "STOPPED"} \/ st = "STOPPED"
    PROVE  Down
<1>1. \A x \in Threads : sched'.status[x] = IF x = u THEN st ELSE sched.status[x]
  BY SchedFields
<1> QED
  BY <1>1 DEF Down

\* thread_create() counts the thread it brings to life.
LEMMA CreateDown ==
    ASSUME IInv, NEW t \in Threads, NEW c \in Threads, NEW p \in Prios,
           NEW flag \in Flags, thread_create(t, c, p, flag)
    PROVE  Down
<1> DEFINE new == [sched EXCEPT !.priority[c] = p, !.status[c] = "STOPPED",
                                !.call[c] = NoCall]
           awake == sched_set_status(new, c, "PENDING")
<1>1. /\ Executing(t) /\ sched.status[c] = "STOPPED"
      /\ sched' = CASE flag = "SLEEPING" -> sched_set_status(new, c, "SLEEPING")
                    [] flag = "WOUT_YIELD" -> awake
                    [] flag = "NONE" -> [awake EXCEPT !.call[t] = CallSwitch(p)]
      /\ sched_num_threads' = sched_num_threads + 1
  BY DEF thread_create
<1>2. sched.active = t /\ t # c /\ SchedInv(sched)
  BY <1>1, ExecutingHead DEF IInv
<1>3. SchedInv(new) /\ new.status = sched.status
  BY <1>1, <1>2, NewThread
<1> HIDE DEF new
<1>4. new \in SchedState /\ RunqueueExact(new) /\ sched \in SchedState
  BY <1>2, <1>3 DEF SchedInv
<1>5. \E st \in Status : sched'.status = [sched.status EXCEPT ![c] = st]
  <2>1. {"SLEEPING", "PENDING"} \in SUBSET Status
    BY DEF Status, BlockedStatus, OnRunqueue
  <2>2. awake \in SchedState /\ awake.status = [sched.status EXCEPT ![c] = "PENDING"]
    BY SMTT(30), <1>3, <1>4, <2>1, SetStatusOnly
  <2> HIDE DEF awake
  <2>3. CASE flag = "SLEEPING"
    BY <1>1, <1>3, <1>4, <2>1, <2>3, SetStatusOnly
  <2>4. CASE flag = "WOUT_YIELD"
    BY <1>1, <2>1, <2>2, <2>4
  <2>5. CASE flag = "NONE"
    <3>1. sched' = [awake EXCEPT !.call[t] = CallSwitch(p)]
      BY <1>1, <2>5
    <3>2. sched'.status = awake.status
      BY <2>2, <3>1, SetCall, CallTypes DEF SameQueues
    <3> QED
      BY <2>1, <2>2, <3>2
  <2> QED
    BY <2>3, <2>4, <2>5 DEF Flags
<1>6. \A x \in Threads \ {c} : sched'.status[x] = sched.status[x]
  BY <1>4, <1>5, SchedFields
<1> QED
  BY <1>1, <1>6 DEF Down

\* No step revives a terminated thread.
LEMMA NextDown ==
    ASSUME ~ChangeOthers, IInv, Next
    PROVE  Down
<1>1. SchedInv(sched) /\ sched \in SchedState
  BY DEF IInv, SchedInv
<1>2. ASSUME sched'.status = sched.status PROVE Down
  BY <1>2 DEF Down
<1>3. CASE PendSV \/ IdleWake
  <2>1. \A x \in Threads : \/ sched'.status[x] = sched.status[x]
                           \/ on_runqueue(sched, x) /\ on_runqueue(sched', x)
    BY <1>1, <1>3, PendSVInv, IdleWakeInv
  <2> QED
    BY <2>1 DEF Down, on_runqueue, OnRunqueue
<1>4. CASE \E t \in Threads : SchedCall(t)
  BY <1>1, <1>2, <1>4, SchedCallInv
<1>5. ASSUME NEW i \in Pids, IsrWakeup(i) PROVE Down
  <2> DEFINE u == sched_threads[i]
             m == wakeup(sched, u)
  <2>1. PICK garbage \in BOOLEAN :
            sched' = cortexm_isr_end(sched_switch_isr(m, sched.priority[u], garbage))
    BY <1>5 DEF IsrWakeup
  <2>2. /\ u \in Threads /\ sched.status[u] = "SLEEPING"
        /\ SchedInv(m)
        /\ m.status = [sched.status EXCEPT ![u] = "RUNNING"]
    BY <1>5, WakeInv DEF IsrWakeup
  <2> HIDE DEF u, m
  <2>3. Quiet(sched', m)
    BY <2>1, <2>2, IsrQuiet DEF SchedInv
  <2>4. sched'.status = [sched.status EXCEPT ![u] = "RUNNING"]
    BY <2>2, <2>3 DEF Quiet, SameQueues
  <2> QED
    BY <1>1, <2>2, <2>4, OneDown
<1>6. ASSUME NEW t \in Threads, ThreadStep(t) PROVE Down
  <2>1. CASE \E c \in Threads, p \in Prios, f \in Flags : thread_create(t, c, p, f)
    BY <2>1, CreateDown
  <2>2. ASSUME Executing(t), t # Idle, NEW st \in {"SLEEPING", "ZOMBIE"},
               sched' = [sched_set_status(sched, t, st) EXCEPT !.call[t] = CallYield]
        PROVE  Down
    <3>1. /\ sched.active = t /\ sched.status[t] = "RUNNING"
          /\ on_runqueue(sched, t) /\ IsHead(sched, t) /\ st \in BlockedStatus
      BY <1>1, <2>2, ExecutingHead DEF BlockedStatus
    <3>2. sched'.status = [sched.status EXCEPT ![t] = st]
      BY <1>1, <2>2, <3>1, BlockYield
    <3> QED
      BY <1>1, <3>1, <3>2, OneDown
  <2>3. CASE thread_sleep(t) \/ thread_zombify(t)
    BY <2>2, <2>3 DEF thread_sleep, thread_zombify
  <2>4. ASSUME NEW i \in Pids, thread_wakeup(t, i) PROVE Down
    <3> DEFINE u == sched_threads[i]
               m == wakeup(sched, u)
    <3>1. sched' = [m EXCEPT !.call[t] = CallSwitchTo(u)]
      BY <2>4 DEF thread_wakeup
    <3>2. /\ u \in Threads /\ sched.status[u] = "SLEEPING"
          /\ SchedInv(m)
          /\ m.status = [sched.status EXCEPT ![u] = "RUNNING"]
      BY <2>4, WakeInv DEF thread_wakeup
    <3> HIDE DEF u, m
    <3>3. m \in SchedState /\ CallSwitchTo(u) \in Calls
      BY <3>2, CallTypes DEF SchedInv
    <3>4. sched'.status = m.status
      BY <3>1, <3>3, SetCall DEF SameQueues
    <3> QED
      BY <1>1, <3>2, <3>4, OneDown
  <2>5. CASE thread_yield(t)
    BY <1>1, <1>2, <2>5, YieldInv DEF thread_yield
  <2>6. ASSUME NEW i \in Pids, thread_kill_zombie(t, i) PROVE Down
    <3>1. PICK u \in Threads : sched' = sched_set_status(sched, u, "STOPPED")
      BY <2>6 DEF thread_kill_zombie, IInv, TypeOK
    <3>2. RunqueueExact(sched) /\ "STOPPED" \in Status
      BY <1>1 DEF SchedInv, Status, BlockedStatus
    <3>3. sched'.status = [sched.status EXCEPT ![u] = "STOPPED"]
      BY <1>1, <3>1, <3>2, SetStatusOnly
    <3> QED
      BY <1>1, <3>3, OneDown
  <2>7. CASE sched_task_exit(t)
    <3>1. sched'.status = [sched.status EXCEPT ![t] = "STOPPED"]
      BY <1>1, <2>7, ExitInv DEF sched_task_exit
    <3> QED
      BY <1>1, <3>1, OneDown
  <2>8. CASE \E u \in Threads, p \in Prios : change_priority(t, u, p)
    <3>1. PICK p \in Prios : Executing(t) /\ sched' = sched_change_priority(sched, t, p)
      BY <2>8 DEF change_priority
    <3> QED
      BY <1>1, <1>2, <3>1, ChangeInv
  <2> QED
    BY <1>6, <2>1, <2>3, <2>4, <2>5, <2>6, <2>7, <2>8 DEF ThreadStep
<1> QED
  BY <1>3, <1>4, <1>5, <1>6 DEF Next, Kernel

-----------------------------------------------------------------------------
(* The theorems *)

\* While a thread executes application code no thread of higher priority is
\* runnable, whatever the handlers did since it got the CPU, unless one was
\* created with THREAD_CREATE_WOUT_YIELD: for every number of threads and
\* priorities, as long as threads change their own priority only.
THEOREM HighestRuns == ASSUME ~ChangeOthers PROVE Spec => []HighestPriorityRuns
<1>1. Init => PInv
  BY InitNone DEF PInv
<1>2. IInv /\ PInv /\ [Next]_vars => PInv'
  BY NextNone
<1>3. IInv /\ PInv => HighestPriorityRuns
  <2> SUFFICES ASSUME IInv, PInv, NEW t \in Threads, Executing(t), ~noyield,
                      NEW p \in sched.bitcache
               PROVE  sched.priority[t] <= p
    BY DEF HighestPriorityRuns
  <2>1. \A x \in Threads : on_runqueue(sched, x) => sched.priority[t] <= sched.priority[x]
    BY ExecutingHighest DEF PInv
  <2> DEFINE h == Head(sched.runqueues[p])
  <2>2. h \in Threads /\ on_runqueue(sched, h) /\ sched.priority[h] = p
    BY HeadOfQueue DEF IInv, SchedInv
  <2> QED
    BY <2>1, <2>2
<1> QED
  BY <1>1, <1>2, <1>3, InductiveInvariant, PTL DEF Spec

\* A terminated thread comes back only through thread_create(), which counts
\* it, and a zombie only leaves the table.
THEOREM TerminatedStays == ASSUME ~ChangeOthers PROVE Spec => TerminatedStaysDown
<1>1. IInv /\ [Next]_vars => [Down]_vars
  BY NextDown
<1>2. [][Down]_vars => TerminatedStaysDown
  BY PTL DEF TerminatedStaysDown, Down
<1> QED
  BY <1>1, <1>2, InductiveInvariant, PTL DEF Spec
=============================================================================
