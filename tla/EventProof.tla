---------------------------- MODULE EventProof -----------------------------
(***************************************************************************)
(* Theorems about Event and the thread flags under it, for every set of    *)
(* threads with any priorities, of flags, of queues and of events: no flag *)
(* is missed and every wait returns what it waited for, no event and no    *)
(* wakeup is lost.                                                         *)
(*                                                                         *)
(* What a wait returns rests on what is known while it is on its way: from *)
(* the moment the thread is inside the function until it clears the flags, *)
(* it is blocked or they are set (WaitOk), since nobody else clears them.  *)
(* That no event is lost rests on the link of an event, which event_post() *)
(* takes for being queued: a linked event is in a queue, or is the one the *)
(* owner has taken and is about to unlink (LinkedIsKept).                  *)
(***************************************************************************)
EXTENDS Event, SchedProof

-----------------------------------------------------------------------------
(* Thread flags: the invariant *)

FlagBlocked == {"FLAG_BLOCKED_ANY", "FLAG_BLOCKED_ALL"}

FlagTypes ==
    /\ flags \in [Threads -> SUBSET Bits]
    /\ inside \in [Threads -> [fn : {"none", "any", "one", "one_read", "all"},
                               mask : SUBSET Bits, tmp : SUBSET Bits]]
    /\ \A t \in Threads : inside[t].fn = "none" => inside[t] = Outside

\* What is known of a thread with status st and flags f that is inside w: it
\* is blocked, and then its flags are not there, or they are and stay.
WaitOk(st, f, w) ==
    /\ w.fn \in {"any", "one"} => st = "FLAG_BLOCKED_ANY" \/ f \cap w.mask # {}
    /\ w.fn = "all" => st = "FLAG_BLOCKED_ALL" \/ w.mask \subseteq f
    /\ w.fn = "one_read" => \E b \in f \cap w.mask : w.tmp = {b}
    /\ st = "FLAG_BLOCKED_ANY" => f \cap w.mask = {}
    /\ st = "FLAG_BLOCKED_ALL" => ~(w.mask \subseteq f)
    /\ st \in FlagBlocked => w # Outside

FlagInv ==
    /\ FlagTypes
    /\ SchedInv(sched)
    /\ \A t \in Threads : WaitOk(sched.status[t], flags[t], inside[t])

\* A thread that is not blocked for flags may change its status otherwise.
LEMMA WaitOkStatus ==
    ASSUME NEW st, NEW st2, NEW f, NEW w, st \notin FlagBlocked,
           st2 \notin FlagBlocked, WaitOk(st, f, w)
    PROVE  WaitOk(st2, f, w)
  BY DEF WaitOk, FlagBlocked

\* A step that changes the status, the flags or the wait of u only.
LEMMA OneThread ==
    ASSUME FlagInv, FlagTypes', SchedInv(sched'), NEW u \in Threads,
           \A x \in Threads \ {u} : /\ sched'.status[x] = sched.status[x]
                                    /\ flags'[x] = flags[x]
                                    /\ inside'[x] = inside[x],
           WaitOk(sched'.status[u], flags'[u], inside'[u])
    PROVE  FlagInv'
  BY DEF FlagInv

\* A thread outside of the wait functions runs, and is not blocked.
LEMMA RunningThread ==
    ASSUME SchedInv(sched), NEW t \in Threads, Running(t)
    PROVE  /\ Executing(t) /\ t # Idle /\ inside[t] = Outside
           /\ sched.active = t
           /\ sched.status[t] = "RUNNING"
           /\ on_runqueue(sched, t)
           /\ IsHead(sched, t)
  BY ExecutingHead DEF Running

-----------------------------------------------------------------------------
(* Thread flags: the steps *)

\* _thread_flags_wake() makes the thread runnable and requests a switch.
LEMMA FlagWake ==
    ASSUME NEW s, SchedInv(s), NEW u \in Threads, ~on_runqueue(s, u)
    PROVE  LET r == thread_flags_wake(s, u)
           IN  /\ SchedInv(r)
               /\ r.status = [s.status EXCEPT ![u] = "PENDING"]
               /\ r.active = s.active
               /\ r.request
<1> DEFINE m == sched_set_status(s, u, "PENDING")
           r == [m EXCEPT !.request = TRUE]
<1>1. "PENDING" \in OnRunqueue
  BY DEF OnRunqueue
<1>2. SchedInv(m) /\ m.status = [s.status EXCEPT ![u] = "PENDING"] /\ m.active = s.active
  BY <1>1, PushInv DEF SameButQueues
<1> HIDE DEF m
<1>3. r \in SchedState /\ Quiet(r, m) /\ r.request
  BY <1>2 DEF SchedInv, SchedState, Quiet, SameQueues
<1> HIDE DEF r
<1>4. SchedInv(r) /\ r.status = m.status /\ r.active = m.active
  BY <1>2, <1>3, QuietInv DEF Quiet
<1> QED
  BY <1>2, <1>3, <1>4 DEF m, r, thread_flags_wake

\* thread_flags_set() by a thread, and by a handler: u gets the flags, and
\* is made runnable if they suffice.
LEMMA SetStatus ==
    ASSUME FlagInv, NEW u \in Threads, NEW mask \in SUBSET Bits,
           \/ IsrSet(u, mask)
           \/ \E t \in Threads : thread_flags_set(t, u, mask)
    PROVE  /\ SchedInv(sched')
           /\ flags' = [flags EXCEPT ![u] = @ \cup mask]
           /\ inside' = inside
           /\ sched'.status = IF Wakes(u, flags[u] \cup mask)
                              THEN [sched.status EXCEPT ![u] = "PENDING"]
                              ELSE sched.status
<1> DEFINE r == thread_flags_wake(sched, u)
<1>1. SchedInv(sched)
  BY DEF FlagInv
<1>2. flags' = [flags EXCEPT ![u] = @ \cup mask] /\ inside' = inside
  BY DEF IsrSet, thread_flags_set
<1>3. CASE ~Wakes(u, flags[u] \cup mask)
  BY <1>1, <1>2, <1>3 DEF IsrSet, thread_flags_set
<1>4. CASE Wakes(u, flags[u] \cup mask)
  <2>1. ~on_runqueue(sched, u)
    BY <1>4 DEF Wakes, on_runqueue, OnRunqueue
  <2>2. /\ SchedInv(r)
        /\ r.status = [sched.status EXCEPT ![u] = "PENDING"]
        /\ r.active = sched.active
        /\ r.request
    BY <1>1, <2>1, FlagWake
  <2>3. \/ sched' = cortexm_isr_end(r)
        \/ \E t \in Threads : Running(t) /\ sched' = [r EXCEPT !.call[t] = CallYield]
    BY <1>4 DEF IsrSet, thread_flags_set
  <2> HIDE DEF r
  <2>4. r \in SchedState /\ RunqueueExact(r) /\ ThreadCalls(r) /\ IdleRunnable(r)
    BY <2>2 DEF SchedInv
  <2>5. CASE sched' = cortexm_isr_end(r)
    <3>1. sched' \in SchedState /\ Quiet(sched', r)
      BY <2>2, <2>4, <2>5, PendYield DEF cortexm_isr_end
    <3> QED
      BY <1>2, <1>4, <2>2, <3>1, QuietInv
  <2>6. ASSUME NEW t \in Threads, Running(t), sched' = [r EXCEPT !.call[t] = CallYield]
        PROVE  SchedInv(sched') /\ sched'.status = r.status
    <3>1. r.active = t /\ CallYield \in Calls /\ CallYield.op \in YieldOps
      BY <1>1, <2>2, <2>6, RunningThread, CallTypes DEF YieldOps
    <3> QED
      BY <2>4, <2>6, <3>1, CallInv
  <2> QED
    BY <1>2, <1>4, <2>2, <2>3, <2>5, <2>6
<1> QED
  BY <1>3, <1>4

\* Setting flags keeps the invariant, and takes none away.
LEMMA SetKeeps ==
    ASSUME FlagInv, NEW u \in Threads, NEW mask \in SUBSET Bits,
           \/ IsrSet(u, mask)
           \/ \E t \in Threads : thread_flags_set(t, u, mask)
    PROVE  FlagInv' /\ flags'[u] = flags[u] \cup mask /\ inside' = inside
<1>1. /\ SchedInv(sched')
      /\ flags' = [flags EXCEPT ![u] = @ \cup mask]
      /\ inside' = inside
      /\ sched'.status = IF Wakes(u, flags[u] \cup mask)
                         THEN [sched.status EXCEPT ![u] = "PENDING"]
                         ELSE sched.status
  BY SetStatus
<1>2. sched.status \in [Threads -> Status] /\ FlagTypes
  BY SchedFields DEF FlagInv, SchedInv
<1>3. flags' \in [Threads -> SUBSET Bits] /\ flags'[u] = flags[u] \cup mask
  BY <1>1, <1>2 DEF FlagTypes
<1>4. FlagTypes'
  BY <1>1, <1>2, <1>3 DEF FlagTypes
<1>5. \A x \in Threads \ {u} : /\ sched'.status[x] = sched.status[x]
                               /\ flags'[x] = flags[x]
                               /\ inside'[x] = inside[x]
  BY <1>1, <1>2 DEF FlagTypes
<1>6. WaitOk(sched.status[u], flags[u], inside[u])
  BY DEF FlagInv
<1>7. WaitOk(sched'.status[u], flags'[u], inside'[u])
  <2>1. CASE Wakes(u, flags[u] \cup mask)
    <3>1. sched'.status[u] = "PENDING"
      BY <1>1, <1>2, <2>1
    <3> QED
      BY <1>1, <1>3, <1>6, <2>1, <3>1 DEF WaitOk, Wakes, FlagBlocked
  <2>2. CASE ~Wakes(u, flags[u] \cup mask)
    BY <1>1, <1>3, <1>6, <2>2 DEF WaitOk, Wakes, FlagBlocked
  <2> QED
    BY <2>1, <2>2
<1> QED
  BY <1>1, <1>3, <1>4, <1>5, <1>7, OneThread

\* A thread enters a wait function, and blocks unless its flags are there.
LEMMA WaitsKeeps ==
    ASSUME FlagInv, NEW t \in Threads, NEW mask \in SUBSET Bits,
           \/ thread_flags_wait_any(t, mask)
           \/ thread_flags_wait_one(t, mask)
           \/ thread_flags_wait_all(t, mask)
    PROVE  /\ FlagInv'
           /\ flags' = flags
           /\ \A x \in Threads \ {t} : inside'[x] = inside[x]
           /\ inside'[t].mask = mask
           /\ thread_flags_wait_any(t, mask) => inside'[t].fn = "any"
<1>1. PICK fn \in {"any", "one", "all"} :
          /\ Running(t)
          /\ waits(t, fn, mask,
                   IF fn = "all" THEN "FLAG_BLOCKED_ALL" ELSE "FLAG_BLOCKED_ANY",
                   IF fn = "all" THEN mask \subseteq flags[t]
                                 ELSE flags[t] \cap mask # {})
          /\ thread_flags_wait_any(t, mask) => fn = "any"
  <2>1. CASE thread_flags_wait_any(t, mask)
    BY <2>1 DEF thread_flags_wait_any
  <2>2. CASE ~thread_flags_wait_any(t, mask)
    BY <2>2 DEF thread_flags_wait_one, thread_flags_wait_all
  <2> QED
    BY <2>1, <2>2
<1>2. /\ SchedInv(sched) /\ FlagTypes /\ sched.status \in [Threads -> Status]
      /\ sched.active = t /\ t # Idle /\ on_runqueue(sched, t) /\ IsHead(sched, t)
      /\ sched.status[t] = "RUNNING"
  BY <1>1, RunningThread, SchedFields DEF FlagInv, SchedInv
<1>3. /\ inside' = [inside EXCEPT ![t] = [fn |-> fn, mask |-> mask, tmp |-> {}]]
      /\ flags' = flags
  BY <1>1 DEF waits
<1>4. /\ inside'[t] = [fn |-> fn, mask |-> mask, tmp |-> {}]
      /\ \A x \in Threads \ {t} : inside'[x] = inside[x]
      /\ FlagTypes'
  BY <1>2, <1>3 DEF FlagTypes
<1>5. inside'[t] # Outside
  BY <1>4 DEF Outside
<1> DEFINE enough == IF fn = "all" THEN mask \subseteq flags[t] ELSE flags[t] \cap mask # {}
           st == IF fn = "all" THEN "FLAG_BLOCKED_ALL" ELSE "FLAG_BLOCKED_ANY"
<1>6. CASE enough
  <2>1. sched' = sched
    BY <1>1, <1>6 DEF waits
  <2>2. WaitOk(sched'.status[t], flags'[t], inside'[t])
    BY <1>2, <1>3, <1>4, <1>6, <2>1 DEF WaitOk, FlagBlocked
  <2>3. FlagInv'
    BY <1>2, <1>3, <1>4, <2>1, <2>2, OneThread
  <2> QED
    BY <1>1, <1>3, <1>4, <2>3
<1>7. CASE ~enough
  <2>1. sched' = [sched_set_status(sched, t, st) EXCEPT !.call[t] = CallYield]
    BY <1>1, <1>7 DEF waits
  <2>2. st \in FlagBlocked /\ st \in BlockedStatus
    BY DEF FlagBlocked, BlockedStatus
  <2>3. SchedInv(sched') /\ sched'.status = [sched.status EXCEPT ![t] = st]
    BY <1>2, <2>1, <2>2, BlockYield
  <2>4. sched'.status[t] = st /\ \A x \in Threads \ {t} : sched'.status[x] = sched.status[x]
    BY <1>2, <2>3
  <2>5. WaitOk(sched'.status[t], flags'[t], inside'[t])
    BY <1>3, <1>4, <1>5, <1>7, <2>4 DEF WaitOk, FlagBlocked
  <2>6. FlagInv'
    BY <1>3, <1>4, <2>3, <2>4, <2>5, OneThread
  <2> QED
    BY <1>1, <1>3, <1>4, <2>6
<1> QED
  BY <1>6, <1>7

\* The lowest of several bits is one bit.
LEMMA LowestBitIs ==
    ASSUME NEW f \in SUBSET Bits, f # {}
    PROVE  \E b \in f : LowestBit(f) = {b}
<1>1. f \in SUBSET Nat
  BY ThreadFlagsAssumption DEF Bits
<1>2. PICK b \in f : \A c \in f : b <= c
  BY <1>1, LeastMember
<1>3. \A c \in f : (\A d \in f : c <= d) => c = b
  BY <1>1, <1>2
<1> QED
  BY <1>2, <1>3 DEF LowestBit

\* thread_flags_wait_one() reads its flags.
LEMMA ReadsKeeps ==
    ASSUME FlagInv, NEW t \in Threads, wait_one_reads(t)
    PROVE  FlagInv' /\ flags' = flags /\ \A x \in Threads \ {t} : inside'[x] = inside[x]
<1>1. /\ SchedInv(sched) /\ FlagTypes /\ sched.status[t] = "RUNNING"
      /\ WaitOk(sched.status[t], flags[t], inside[t])
  BY ExecutingHead DEF wait_one_reads, FlagInv
<1> DEFINE f == flags[t] \cap inside[t].mask
           w == [fn |-> "one_read", mask |-> inside[t].mask, tmp |-> LowestBit(f)]
<1>2. /\ inside[t].fn = "one" /\ sched' = sched /\ flags' = flags
      /\ inside' = [inside EXCEPT ![t] = w]
  BY DEF wait_one_reads
<1>3. f # {} /\ f \in SUBSET Bits /\ inside[t].mask \in SUBSET Bits
  BY <1>1, <1>2 DEF WaitOk, FlagTypes
<1>4. PICK b \in f : LowestBit(f) = {b}
  BY <1>3, LowestBitIs
<1>5. w.fn = "one_read" /\ w.mask = inside[t].mask /\ w.tmp = {b}
  BY <1>4
<1>6. w \in [fn : {"none", "any", "one", "one_read", "all"},
             mask : SUBSET Bits, tmp : SUBSET Bits]
  BY <1>3, <1>4
<1>7. WaitOk("RUNNING", flags[t], w)
  <2>1. "RUNNING" \notin FlagBlocked
    BY DEF FlagBlocked
  <2> HIDE DEF w
  <2> QED
    BY <1>4, <1>5, <2>1 DEF WaitOk, FlagBlocked
<1> HIDE DEF w
<1>8. inside'[t] = w /\ \A x \in Threads \ {t} : inside'[x] = inside[x]
  BY <1>1, <1>2 DEF FlagTypes
<1>9. FlagTypes'
  BY <1>1, <1>2, <1>5, <1>6 DEF FlagTypes
<1>10. WaitOk(sched'.status[t], flags'[t], inside'[t])
  BY <1>1, <1>2, <1>7, <1>8
<1> QED
  BY <1>1, <1>2, <1>8, <1>9, <1>10, OneThread

\* A wait function clears what it waited for and returns.
LEMMA ReturnsKeeps ==
    ASSUME FlagInv, NEW t \in Threads, wait_returns(t)
    PROVE  /\ FlagInv'
           /\ inside' = [inside EXCEPT ![t] = Outside]
           /\ \A x \in Threads \ {t} : flags'[x] = flags[x]
<1> DEFINE mask == IF inside[t].fn = "one_read" THEN inside[t].tmp ELSE inside[t].mask
<1>1. SchedInv(sched) /\ FlagTypes /\ sched.status[t] = "RUNNING"
  BY ExecutingHead DEF wait_returns, FlagInv
<1>2. /\ sched' = sched
      /\ flags' = [flags EXCEPT ![t] = @ \ mask]
      /\ inside' = [inside EXCEPT ![t] = Outside]
  BY DEF wait_returns, clear_atomic
<1>3. /\ flags' \in [Threads -> SUBSET Bits]
      /\ \A x \in Threads \ {t} : flags'[x] = flags[x] /\ inside'[x] = inside[x]
  BY <1>1, <1>2 DEF FlagTypes
<1>4. inside'[t] = Outside /\ FlagTypes'
  BY <1>1, <1>2, <1>3 DEF FlagTypes, Outside
<1>5. WaitOk(sched'.status[t], flags'[t], inside'[t])
  BY <1>1, <1>2, <1>4 DEF WaitOk, FlagBlocked, Outside
<1> QED
  BY <1>1, <1>2, <1>3, <1>4, <1>5, OneThread

\* What a wait function returns.
LEMMA ReturnsFlags ==
    ASSUME FlagInv, NEW t \in Threads, wait_returns(t)
    PROVE  /\ Returned(t) \subseteq inside[t].mask
           /\ inside[t].fn = "any" => Returned(t) # {}
           /\ inside[t].fn = "one_read" => \E b \in Bits : Returned(t) = {b}
           /\ inside[t].fn = "all" => Returned(t) = inside[t].mask
<1>1. /\ SchedInv(sched) /\ FlagTypes /\ sched.status[t] = "RUNNING"
      /\ WaitOk(sched.status[t], flags[t], inside[t])
  BY ExecutingHead DEF wait_returns, FlagInv
<1>2. inside[t].fn \in {"any", "all", "one_read"}
  BY DEF wait_returns
<1>3. Returned(t) = flags[t] \cap IF inside[t].fn = "one_read" THEN inside[t].tmp
                                  ELSE inside[t].mask
  BY <1>1 DEF wait_returns, clear_atomic, Returned, FlagTypes
<1>4. flags[t] \in SUBSET Bits
  BY <1>1 DEF FlagTypes
<1>5. CASE inside[t].fn = "one_read"
  <2>1. PICK b \in flags[t] \cap inside[t].mask : inside[t].tmp = {b}
    BY <1>1, <1>5 DEF WaitOk
  <2>2. Returned(t) = {b}
    BY <1>3, <1>5, <2>1
  <2> QED
    BY <1>4, <1>5, <2>1, <2>2
<1>6. CASE inside[t].fn # "one_read"
  BY <1>1, <1>2, <1>3, <1>6 DEF WaitOk
<1> QED
  BY <1>5, <1>6

\* thread_flags_clear().
LEMMA ClearKeeps ==
    ASSUME FlagInv, NEW t \in Threads, NEW mask, thread_flags_clear(t, mask)
    PROVE  FlagInv' /\ inside' = inside
<1>1. SchedInv(sched) /\ FlagTypes /\ sched.status[t] = "RUNNING" /\ inside[t] = Outside
  BY RunningThread DEF thread_flags_clear, FlagInv
<1>2. sched' = sched /\ flags' = [flags EXCEPT ![t] = @ \ mask] /\ inside' = inside
  BY DEF thread_flags_clear, clear_atomic
<1>3. FlagTypes' /\ \A x \in Threads \ {t} : flags'[x] = flags[x]
  BY <1>1, <1>2 DEF FlagTypes
<1>4. WaitOk(sched'.status[t], flags'[t], inside'[t])
  BY <1>1, <1>2 DEF WaitOk, FlagBlocked, Outside
<1> QED
  BY <1>1, <1>2, <1>3, <1>4, OneThread

\* A step of the scheduler that blocks no thread for flags and wakes none.
LEMMA OthersKeep ==
    ASSUME FlagInv, UNCHANGED fvars, SchedInv(sched'),
           \A x \in Threads : \/ sched'.status[x] = sched.status[x]
                              \/ /\ sched.status[x] \notin FlagBlocked
                                 /\ sched'.status[x] \notin FlagBlocked
    PROVE  FlagInv'
<1>1. flags' = flags /\ inside' = inside /\ FlagTypes'
  BY DEF fvars, FlagInv, FlagTypes
<1>2. ASSUME NEW x \in Threads PROVE WaitOk(sched'.status[x], flags'[x], inside'[x])
  <2>1. WaitOk(sched.status[x], flags[x], inside[x])
    BY DEF FlagInv
  <2> QED
    BY <1>1, <2>1, WaitOkStatus
<1> QED
  BY <1>1, <1>2 DEF FlagInv

\* The kernel's own steps, thread_sleep() and the wakeup of a sleeper.
LEMMA SchedKeeps ==
    ASSUME FlagInv, Kernel \/ \E t \in Threads : Sleep(t) \/ Wakeup(t)
    PROVE  FlagInv' /\ UNCHANGED fvars
<1>1. SchedInv(sched) /\ sched.status \in [Threads -> Status] /\ UNCHANGED fvars
  BY SchedFields DEF FlagInv, SchedInv, Kernel, Sleep, Wakeup
<1>2. CASE PendSV \/ IdleWake
  <2>1. /\ SchedInv(sched')
        /\ \A x \in Threads : \/ sched'.status[x] = sched.status[x]
                              \/ on_runqueue(sched, x) /\ on_runqueue(sched', x)
    BY <1>1, <1>2, PendSVInv, IdleWakeInv
  <2> QED
    BY <1>1, <2>1, OthersKeep DEF on_runqueue, OnRunqueue, FlagBlocked
<1>3. CASE \E t \in Threads : SchedCall(t)
  BY <1>1, <1>3, SchedCallInv, OthersKeep
<1>4. ASSUME NEW t \in Threads, Sleep(t) PROVE FlagInv'
  <2>1. sched' = [sched_set_status(sched, t, "SLEEPING") EXCEPT !.call[t] = CallYield]
    BY <1>4 DEF Sleep, Sleeps
  <2>2. /\ sched.status[t] = "RUNNING"
        /\ SchedInv(sched') /\ sched'.status = [sched.status EXCEPT ![t] = "SLEEPING"]
    BY <1>1, <1>4, <2>1, RunningThread, BlockYield DEF Sleep, BlockedStatus
  <2> QED
    BY <1>1, <2>2, OthersKeep DEF FlagBlocked
<1>5. ASSUME NEW t \in Threads, Wakeup(t) PROVE FlagInv'
  <2> DEFINE r == sched_set_status(sched, t, "RUNNING")
  <2>1. sched.status[t] = "SLEEPING" /\ IsrEnds(r, sched.priority[t])
    BY <1>5 DEF Wakeup, IsrWakes, wakeup
  <2>2. ~on_runqueue(sched, t) /\ "RUNNING" \in OnRunqueue
    BY <2>1 DEF on_runqueue, OnRunqueue
  <2>3. SchedInv(r) /\ r.status = [sched.status EXCEPT ![t] = "RUNNING"]
    BY <1>1, <2>2, PushInv
  <2> HIDE DEF r
  <2>4. SchedInv(sched') /\ sched'.status = r.status
    BY <2>1, <2>3, IsrEndInv DEF IsrEnds
  <2> QED
    BY <1>1, <2>1, <2>3, <2>4, OthersKeep DEF FlagBlocked
<1> QED
  BY <1>1, <1>2, <1>3, <1>4, <1>5 DEF Kernel, KernelStep

-----------------------------------------------------------------------------
(* Event queues: the invariant *)

EventTypes ==
    /\ event_list \in [Queues -> Seq(Events)]
    /\ linked \in [Events -> BOOLEAN]
    /\ waiter \in BOOLEAN
    /\ at \in [Threads -> {"none", "flag", "unlink", "wait", "wait for flag", "timed get",
                           "timed unlink", "timed wait", "handle"}]
    /\ result \in Events \cup {NoEvent}
    /\ timer \in BOOLEAN
    /\ pending \in SUBSET Events

\* The owner has taken an event from the list and not yet cleared its link.
Unlinking == at[Owner] \in {"unlink", "timed unlink"}

\* The owner has taken an event, which is the result.
Taken == result # NoEvent <=> Unlinking \/ at[Owner] = "handle"

\* An event that event_post() takes for queued is queued, or on its way to be
\* unlinked and handled.
LinkedIsKept ==
    \A e \in Events : linked[e] => Queued(e) \/ (Unlinking /\ result = e)

\* Where the owner is while it is inside a wait for flags, and that the queues
\* are claimed when it waits.
OwnerPlace ==
    /\ inside[Owner] # Outside => at[Owner] \in {"none", "wait", "timed wait"}
    /\ at[Owner] = "wait" /\ inside[Owner] # Outside =>
           inside[Owner].mask = {THREAD_FLAG_EVENT}
    /\ at[Owner] \in {"wait for flag", "wait"} => waiter

\* event_wait_multi() has looked at the queues and has not looked again.
GoesToWait ==
    at[Owner] = "wait for flag" \/ (at[Owner] = "wait" /\ inside[Owner] # Outside)

\* An event that came after that look has set the flag, or is about to.
Announced ==
    GoesToWait /\ (\E q \in Queues : ~Empty(q)) =>
        THREAD_FLAG_EVENT \in flags[Owner] \/ \E t \in Threads : at[t] = "flag"

\* The inductive invariant.
EventInv ==
    /\ FlagInv
    /\ EventTypes
    /\ Taken /\ LinkedIsKept /\ NoLostEvent
    /\ OwnerPlace /\ Announced

\* The flags of the module are bits of a thread_flags_t.
LEMMA EventFlags ==
    /\ Owner \in Threads
    /\ {THREAD_FLAG_EVENT} \in SUBSET Bits
    /\ {THREAD_FLAG_TIMEOUT} \in SUBSET Bits
    /\ {THREAD_FLAG_EVENT, THREAD_FLAG_TIMEOUT} \in SUBSET Bits
    /\ 1 \in Queues
  BY EventAssumption, ThreadFlagsAssumption
  DEF THREAD_FLAG_EVENT, THREAD_FLAG_TIMEOUT, Bits, Queues

\* An event is queued when it occurs in a list.
LEMMA QueuedIs ==
    \A e : /\ Queued(e) <=> \E q \in Queues : Occurs(event_list[q], e)
           /\ Queued(e)' <=> \E q \in Queues : Occurs(event_list'[q], e)
  BY DEF Queued, Occurs

-----------------------------------------------------------------------------
(* Event queues: the steps *)

\* A step of the thread flags: while the owner is inside a function of the
\* module it stays in its wait and loses no flag.
LEMMA FlagsOnly ==
    ASSUME EventInv, FlagInv', UNCHANGED evars,
           \/ at[Owner] = "none"
           \/ inside'[Owner] = inside[Owner] /\ flags[Owner] \subseteq flags'[Owner]
    PROVE  EventInv'
<1>1. /\ UNCHANGED <<event_list, linked, waiter, at, result, timer, pending>>
      /\ EventTypes'
  BY DEF evars, EventInv, EventTypes
<1>2. Taken' /\ LinkedIsKept' /\ NoLostEvent'
  BY <1>1 DEF EventInv, Taken, LinkedIsKept, NoLostEvent, Unlinking, Queued
<1>3. OwnerPlace'
  BY <1>1 DEF EventInv, OwnerPlace
<1>4. Announced'
  BY <1>1 DEF EventInv, Announced, GoesToWait, Empty
<1> QED
  BY <1>1, <1>2, <1>3, <1>4 DEF EventInv

\* The steps of the threads outside of the module, and of the kernel.
LEMMA FlagStepKeeps ==
    ASSUME EventInv,
           \/ UNCHANGED evars /\ (Kernel \/ \E t \in Threads : Wakeup(t))
           \/ \E t \in Threads : FlagStep(t)
    PROVE  EventInv'
<1>1. FlagInv
  BY DEF EventInv
<1>2. CASE Kernel \/ \E t \in Threads : Wakeup(t) \/ Sleep(t)
  <2>1. FlagInv' /\ UNCHANGED fvars /\ UNCHANGED evars
    BY <1>1, <1>2, SchedKeeps DEF FlagStep
  <2> QED
    BY <2>1, FlagsOnly DEF fvars
<1>3. ASSUME NEW t \in Threads, NEW u \in Threads, NEW mask \in Masks,
             thread_flags_set(t, u, mask), UNCHANGED evars
      PROVE  EventInv'
  <2>1. mask \in SUBSET Bits
    BY ThreadFlagsAssumption
  <2>2. /\ FlagInv' /\ flags'[u] = flags[u] \cup mask /\ inside' = inside
        /\ flags' = [flags EXCEPT ![u] = @ \cup mask]
    BY <1>1, <1>3, <2>1, SetKeeps DEF thread_flags_set
  <2>3. flags[Owner] \subseteq flags'[Owner]
    BY <1>1, <2>2, EventFlags DEF FlagInv, FlagTypes
  <2> QED
    BY <1>3, <2>2, <2>3, FlagsOnly
<1>4. ASSUME at[Owner] = "none", UNCHANGED evars, ThreadStep(Owner), ~Sleep(Owner)
      PROVE  EventInv'
  <2>1. CASE \E u \in Threads, mask \in Masks : thread_flags_set(Owner, u, mask)
    BY <1>3, <1>4, <2>1, EventFlags
  <2>2. CASE wait_one_reads(Owner) \/ wait_returns(Owner)
    BY <1>1, <1>4, <2>2, EventFlags, ReadsKeeps, ReturnsKeeps, FlagsOnly
  <2>3. ASSUME NEW mask \in Masks,
               \/ thread_flags_wait_any(Owner, mask)
               \/ thread_flags_wait_one(Owner, mask)
               \/ thread_flags_wait_all(Owner, mask)
        PROVE  EventInv'
    <3>1. mask \in SUBSET Bits
      BY ThreadFlagsAssumption
    <3> QED
      BY <1>1, <1>4, <2>3, <3>1, EventFlags, WaitsKeeps, FlagsOnly
  <2>4. ASSUME NEW mask \in Masks, thread_flags_clear(Owner, mask)
        PROVE  EventInv'
    BY <1>1, <1>4, <2>4, EventFlags, ClearKeeps, FlagsOnly
  <2> QED
    BY <1>4, <2>1, <2>2, <2>3, <2>4 DEF ThreadStep
<1> QED
  BY <1>2, <1>3, <1>4, EventFlags DEF FlagStep

\* The critical section of event_post() adds the event to the list unless it
\* is linked; either way it is queued or about to be handled afterwards.
LEMMA PostSection ==
    ASSUME EventInv, NEW q \in Queues, NEW e \in Events, post_section(q, e)
    PROVE  /\ event_list' \in [Queues -> Seq(Events)]
           /\ linked' \in [Events -> BOOLEAN]
           /\ pending' \in SUBSET Events
           /\ \A x \in Events : Queued(x) => Queued(x)'
           /\ \A x \in Events : linked'[x] => Queued(x)' \/ linked[x]
           /\ \A x \in pending' : x \in pending \/ Queued(x)' \/ (Unlinking /\ result = x)
<1>1. EventTypes /\ LinkedIsKept /\ pending' = pending \cup {e}
  BY DEF EventInv, post_section
<1>2. CASE linked[e]
  <2>1. event_list' = event_list /\ linked' = linked
    BY <1>2 DEF post_section
  <2>2. \A x \in Events : Queued(x)' <=> Queued(x)
    BY <2>1 DEF Queued
  <2> QED
    BY <1>1, <1>2, <2>1, <2>2 DEF EventTypes, LinkedIsKept
<1>3. CASE ~linked[e]
  <2> DEFINE l == Append(event_list[q], e)
  <2>1. event_list' = [event_list EXCEPT ![q] = l] /\ linked' = [linked EXCEPT ![e] = TRUE]
    BY <1>3 DEF post_section
  <2>2. event_list[q] \in Seq(Events)
    BY <1>1 DEF EventTypes
  <2>3. l \in Seq(Events) /\ \A x : Occurs(l, x) <=> Occurs(event_list[q], x) \/ x = e
    BY <2>2, AppendQueue
  <2> HIDE DEF l
  <2>4. /\ event_list' \in [Queues -> Seq(Events)]
        /\ event_list'[q] = l
        /\ \A k \in Queues \ {q} : event_list'[k] = event_list[k]
    BY <1>1, <2>1, <2>3 DEF EventTypes
  <2>5. \A x \in Events : Queued(x)' <=> Queued(x) \/ x = e
    BY <2>3, <2>4, QueuedIs
  <2> QED
    BY <1>1, <2>1, <2>4, <2>5 DEF EventTypes
<1> QED
  BY <1>2, <1>3

\* A step that leaves the thread flags alone.
LEMMA SameFlags ==
    ASSUME FlagInv, UNCHANGED vars
    PROVE  FlagInv' /\ sched' = sched /\ flags' = flags /\ inside' = inside
  BY DEF vars, FlagInv, FlagTypes

\* event_post() by a thread, up to the end of the critical section.
LEMMA PostKeeps ==
    ASSUME EventInv, NEW t \in Threads, NEW q \in Queues, NEW e \in Events,
           event_post(t, q, e)
    PROVE  EventInv'
<1>1. /\ FlagInv /\ EventTypes /\ Taken /\ LinkedIsKept /\ NoLostEvent
      /\ OwnerPlace /\ Announced
      /\ FlagInv' /\ flags' = flags /\ inside' = inside
      /\ waiter' = waiter /\ result' = result /\ timer' = timer
  BY SameFlags DEF EventInv, event_post
<1>2. /\ at[t] = "none" /\ inside[t] = Outside
      /\ at' = [at EXCEPT ![t] = IF waiter THEN "flag" ELSE "none"]
  BY DEF event_post, At, Running, Goto
<1>3. /\ event_list' \in [Queues -> Seq(Events)]
      /\ linked' \in [Events -> BOOLEAN]
      /\ pending' \in SUBSET Events
      /\ \A x \in Events : Queued(x) => Queued(x)'
      /\ \A x \in Events : linked'[x] => Queued(x)' \/ linked[x]
      /\ \A x \in pending' : x \in pending \/ Queued(x)' \/ (Unlinking /\ result = x)
  BY PostSection DEF event_post
<1>4. EventTypes'
  BY <1>1, <1>2, <1>3 DEF EventTypes
<1>5. /\ \A x \in Threads \ {t} : at'[x] = at[x]
      /\ at'[t] \in {"none", "flag"} /\ (waiter => at'[t] = "flag")
  BY <1>1, <1>2 DEF EventTypes
<1>6. (Unlinking' <=> Unlinking) /\ (at'[Owner] = "handle" <=> at[Owner] = "handle")
  BY <1>2, <1>5, EventFlags DEF Unlinking
<1>7. Taken' /\ LinkedIsKept' /\ NoLostEvent'
  BY <1>1, <1>3, <1>6 DEF Taken, LinkedIsKept, NoLostEvent, EventTypes
<1>8. OwnerPlace'
  BY <1>1, <1>2, <1>5, EventFlags DEF OwnerPlace
<1>9. Announced'
  <2>1. GoesToWait' => waiter /\ at'[t] = "flag"
    BY <1>1, <1>2, <1>5, EventFlags DEF GoesToWait, OwnerPlace
  <2> QED
    BY <2>1 DEF Announced
<1> QED
  BY <1>1, <1>4, <1>7, <1>8, <1>9 DEF EventInv

\* event_post() by a handler.
LEMMA IsrPostKeeps ==
    ASSUME EventInv, NEW q \in Queues, NEW e \in Events, IsrPost(q, e)
    PROVE  EventInv'
<1>1. /\ FlagInv /\ EventTypes /\ Taken /\ LinkedIsKept /\ NoLostEvent
      /\ OwnerPlace /\ Announced
      /\ waiter' = waiter /\ at' = at /\ result' = result /\ timer' = timer
  BY DEF EventInv, IsrPost
<1>2. /\ FlagInv' /\ inside' = inside
      /\ waiter => THREAD_FLAG_EVENT \in flags'[Owner]
  <2>1. CASE waiter
    BY <1>1, <2>1, SetKeeps, EventFlags DEF IsrPost
  <2>2. CASE ~waiter
    BY <1>1, <2>2, SameFlags DEF IsrPost
  <2> QED
    BY <2>1, <2>2
<1>3. /\ event_list' \in [Queues -> Seq(Events)]
      /\ linked' \in [Events -> BOOLEAN]
      /\ pending' \in SUBSET Events
      /\ \A x \in Events : Queued(x) => Queued(x)'
      /\ \A x \in Events : linked'[x] => Queued(x)' \/ linked[x]
      /\ \A x \in pending' : x \in pending \/ Queued(x)' \/ (Unlinking /\ result = x)
  BY PostSection DEF IsrPost
<1>4. EventTypes'
  BY <1>1, <1>3 DEF EventTypes
<1>5. Taken' /\ LinkedIsKept' /\ NoLostEvent'
  BY <1>1, <1>3 DEF Taken, LinkedIsKept, NoLostEvent, EventTypes, Unlinking
<1>6. OwnerPlace'
  BY <1>1, <1>2 DEF OwnerPlace
<1>7. Announced'
  BY <1>1, <1>2 DEF Announced, GoesToWait, OwnerPlace
<1> QED
  BY <1>2, <1>4, <1>5, <1>6, <1>7 DEF EventInv

\* event_post() goes on to set the owner's flag.
LEMMA SetsFlagKeeps ==
    ASSUME EventInv, NEW t \in Threads, post_sets_flag(t)
    PROVE  EventInv'
<1>1. /\ FlagInv /\ EventTypes /\ Taken /\ LinkedIsKept /\ NoLostEvent
      /\ OwnerPlace /\ Announced
      /\ UNCHANGED <<event_list, linked, waiter, result, timer, pending>>
  BY DEF EventInv, post_sets_flag
<1>2. at[t] = "flag" /\ at' = [at EXCEPT ![t] = "none"]
  BY DEF post_sets_flag, At, Goto
<1>3. FlagInv' /\ inside' = inside /\ THREAD_FLAG_EVENT \in flags'[Owner]
  <2>1. thread_flags_set(t, Owner, {THREAD_FLAG_EVENT})
    BY DEF post_sets_flag
  <2>2. /\ FlagInv' /\ inside' = inside
        /\ flags'[Owner] = flags[Owner] \cup {THREAD_FLAG_EVENT}
    BY <1>1, <2>1, SetKeeps, EventFlags
  <2> QED
    BY <2>2
<1>4. EventTypes' /\ at'[t] = "none" /\ \A x \in Threads \ {t} : at'[x] = at[x]
  BY <1>1, <1>2 DEF EventTypes
<1>5. Unlinking' <=> Unlinking
  BY <1>2, <1>4, EventFlags DEF Unlinking
<1>6. Taken' /\ LinkedIsKept' /\ NoLostEvent'
  BY SMTT(30), <1>1, <1>2, <1>4, <1>5, EventFlags
  DEF Taken, LinkedIsKept, NoLostEvent, Queued
<1>7. OwnerPlace' /\ Announced'
  BY <1>1, <1>2, <1>3, <1>4, EventFlags DEF OwnerPlace, Announced
<1> QED
  BY <1>3, <1>4, <1>6, <1>7 DEF EventInv

\* event_cancel() takes the event out of its list and clears its link.
LEMMA CancelKeeps ==
    ASSUME EventInv, NEW t \in Threads, NEW q \in Queues, NEW e \in Events,
           event_cancel(t, q, e)
    PROVE  EventInv'
<1> DEFINE l == clist_remove(event_list[q], e)
<1>1. /\ FlagInv /\ EventTypes /\ Taken /\ LinkedIsKept /\ NoLostEvent
      /\ OwnerPlace /\ Announced
      /\ FlagInv' /\ flags' = flags /\ inside' = inside
      /\ waiter' = waiter /\ at' = at /\ result' = result /\ timer' = timer
  BY SameFlags DEF EventInv, event_cancel
<1>2. /\ event_list' = [event_list EXCEPT ![q] = l]
      /\ linked' = [linked EXCEPT ![e] = FALSE]
      /\ pending' = IF result = e THEN pending ELSE pending \ {e}
  BY DEF event_cancel, cancel_section
<1>3. event_list[q] \in Seq(Events)
  BY <1>1 DEF EventTypes
<1>4. /\ l \in Seq(Events)
      /\ \A x \in Events \ {e} : Occurs(l, x) <=> Occurs(event_list[q], x)
      /\ event_list[q] = << >> => l = << >>
  <2>1. CASE Occurs(event_list[q], e)
    <3>1. l = list_remove(event_list[q], e)
      BY <2>1 DEF clist_remove, Occurs
    <3>2. event_list[q] # << >>
      BY <2>1 DEF Occurs
    <3> QED
      BY <1>3, <2>1, <3>1, <3>2, RemoveFromList
  <2>2. CASE ~Occurs(event_list[q], e)
    BY <1>3, <2>2 DEF clist_remove, Occurs
  <2> QED
    BY <2>1, <2>2
<1> HIDE DEF l
<1>5. /\ event_list' \in [Queues -> Seq(Events)]
      /\ event_list'[q] = l
      /\ \A k \in Queues \ {q} : event_list'[k] = event_list[k]
  BY <1>1, <1>2, <1>4 DEF EventTypes
<1>6. EventTypes'
  BY <1>1, <1>2, <1>5 DEF EventTypes
<1>7. \A x \in Events \ {e} : Queued(x)' <=> Queued(x)
  BY <1>4, <1>5, QueuedIs
<1>8. Taken' /\ LinkedIsKept' /\ NoLostEvent'
  BY <1>1, <1>2, <1>7 DEF Taken, LinkedIsKept, NoLostEvent, EventTypes, Unlinking
<1>9. \A k \in Queues : Empty(k) => Empty(k)'
  BY <1>4, <1>5 DEF Empty
<1>10. OwnerPlace' /\ Announced'
  BY <1>1, <1>9 DEF OwnerPlace, Announced, GoesToWait
<1> QED
  BY <1>1, <1>6, <1>8, <1>10 DEF EventInv

\* The owner takes the first event of a list.
LEMMA PopKeeps ==
    ASSUME EventInv, NEW q \in Queues, lpop(q), inside[Owner] = Outside,
           at[Owner] \in {"none", "wait", "timed get"},
           NEW l \in {"unlink", "timed unlink"}, Goto(Owner, l),
           UNCHANGED <<vars, linked, waiter, timer, pending>>
    PROVE  EventInv'
<1>1. /\ FlagInv /\ EventTypes /\ Taken /\ LinkedIsKept /\ NoLostEvent /\ OwnerPlace
      /\ FlagInv' /\ flags' = flags /\ inside' = inside
      /\ UNCHANGED <<linked, waiter, timer, pending>>
  BY SameFlags DEF EventInv
<1> DEFINE h == Head(event_list[q])
           r == Tail(event_list[q])
<1>2. /\ event_list[q] # << >> /\ event_list[q] \in Seq(Events)
      /\ result' = h
      /\ event_list' = [event_list EXCEPT ![q] = r]
      /\ at' = [at EXCEPT ![Owner] = l]
  BY <1>1 DEF lpop, Goto, EventTypes
<1>3. /\ r \in Seq(Events) /\ h \in Events
      /\ \A x : Occurs(event_list[q], x) <=> x = h \/ Occurs(r, x)
  BY <1>2, TailMembers
<1> HIDE DEF h, r
<1>4. /\ event_list' \in [Queues -> Seq(Events)]
      /\ event_list'[q] = r
      /\ \A k \in Queues \ {q} : event_list'[k] = event_list[k]
  BY <1>1, <1>2, <1>3 DEF EventTypes
<1>5. at'[Owner] = l /\ Unlinking' /\ ~Unlinking /\ result = NoEvent /\ result' # NoEvent
  BY <1>1, <1>2, <1>3, EventFlags, EventAssumption DEF EventTypes, Unlinking, Taken
<1>6. EventTypes'
  BY <1>1, <1>2, <1>3, <1>4 DEF EventTypes
<1>7. \A x \in Events : Queued(x) <=> Queued(x)' \/ (x = h /\ Queued(x))
  BY <1>3, <1>4, QueuedIs
<1>8. Taken' /\ LinkedIsKept' /\ NoLostEvent'
  BY <1>1, <1>2, <1>5, <1>7, EventAssumption
  DEF Taken, LinkedIsKept, NoLostEvent, EventTypes
<1>9. OwnerPlace' /\ Announced'
  BY <1>1, <1>5 DEF OwnerPlace, Announced, GoesToWait
<1> QED
  BY <1>1, <1>6, <1>8, <1>9 DEF EventInv

\* The owner goes from one step to another, with the lists and the links as
\* they are, and has no event; it looks at the queues before it goes to wait.
LEMMA OwnerMoves ==
    ASSUME EventInv, FlagInv', UNCHANGED <<event_list, linked, result, pending>>,
           waiter' \in BOOLEAN, waiter => waiter', timer' \in BOOLEAN,
           at[Owner] \in {"none", "wait", "wait for flag", "timed get", "timed wait"},
           NEW l \in {"none", "wait", "wait for flag", "timed get", "timed wait"},
           Goto(Owner, l),
           inside'[Owner] # Outside =>
               /\ l \in {"none", "wait", "timed wait"}
               /\ l = "wait" => inside'[Owner].mask = {THREAD_FLAG_EVENT},
           l \in {"wait for flag", "wait"} => waiter',
           l = "wait for flag" => \A q \in Queues : Empty(q),
           l = "wait" /\ inside'[Owner] # Outside => GoesToWait /\ flags' = flags
    PROVE  EventInv'
<1>1. /\ EventTypes /\ Taken /\ LinkedIsKept /\ NoLostEvent /\ Announced
      /\ at' = [at EXCEPT ![Owner] = l] /\ Owner \in Threads
  BY EventFlags DEF EventInv, Goto
<1>2. EventTypes' /\ at'[Owner] = l /\ \A x \in Threads \ {Owner} : at'[x] = at[x]
  BY <1>1 DEF EventTypes
<1>3. ~Unlinking /\ ~Unlinking'
  BY <1>2 DEF Unlinking
<1>4. Taken' /\ LinkedIsKept' /\ NoLostEvent'
  <2>1. at[Owner] # "handle" /\ at'[Owner] # "handle"
    BY <1>2
  <2>2. Taken'
    BY <1>1, <1>3, <2>1 DEF Taken
  <2>3. LinkedIsKept' /\ NoLostEvent'
    <3>1. event_list' = event_list /\ linked' = linked /\ result' = result /\ pending' = pending
      OBVIOUS
    <3>2. \A e : Queued(e)' <=> Queued(e)
      BY <3>1 DEF Queued
    <3>3. LinkedIsKept'
      BY <1>1, <1>3, <3>1, <3>2 DEF LinkedIsKept
    <3> QED
      BY <1>1, <3>1, <3>2, <3>3 DEF NoLostEvent
  <2> QED
    BY <2>2, <2>3
<1>5. OwnerPlace'
  BY <1>2 DEF OwnerPlace
<1>6. Announced'
  <2>1. CASE l = "wait for flag"
    BY <2>1 DEF Announced, Empty
  <2>2. CASE l = "wait" /\ inside'[Owner] # Outside
    BY <1>1, <1>2, <2>2 DEF Announced, Empty
  <2>3. CASE ~(l = "wait for flag" \/ (l = "wait" /\ inside'[Owner] # Outside))
    BY <1>2, <2>3 DEF Announced, GoesToWait
  <2> QED
    BY <2>1, <2>2, <2>3
<1> QED
  BY <1>2, <1>4, <1>5, <1>6 DEF EventInv

\* event_queues_claim(), event_get(), event_wait_multi() up to its wait, and
\* the same of event_wait_timeout_ztimer().
LEMMA LookKeeps ==
    ASSUME EventInv,
           \/ event_queues_claim \/ event_wait_multi \/ timed_get
           \/ \E q \in Queues : event_get(q)
    PROVE  EventInv'
<1>1. /\ FlagInv' /\ sched' = sched /\ flags' = flags /\ inside' = inside
      /\ inside[Owner] = Outside /\ waiter \in BOOLEAN /\ timer \in BOOLEAN
      /\ at \in [Threads -> {"none", "flag", "unlink", "wait", "wait for flag",
                             "timed get", "timed unlink", "timed wait", "handle"}]
  <2>1. UNCHANGED vars /\ Running(Owner)
    BY DEF event_queues_claim, event_wait_multi, timed_get, event_get, At
  <2> QED
    BY <2>1, SameFlags DEF EventInv, EventTypes, Running
<1>2. CASE event_queues_claim
  <2>1. /\ at[Owner] = "none" /\ waiter' = TRUE
        /\ UNCHANGED <<event_list, linked, at, result, timer, pending>>
    BY <1>2 DEF event_queues_claim, At
  <2>2. Goto(Owner, "none")
    BY <1>1, <2>1, EventFlags DEF Goto
  <2> QED
    BY <1>1, <2>1, <2>2, OwnerMoves
<1>3. CASE event_wait_multi
  <2>1. /\ at[Owner] \in {"none", "wait"} /\ waiter
        /\ UNCHANGED <<linked, waiter, timer, pending>>
    BY <1>3 DEF event_wait_multi, At, EventInv, OwnerPlace
  <2>2. CASE \E q \in Queues : lpop(q) /\ Goto(Owner, "unlink") /\ UNCHANGED vars
    BY <1>1, <2>1, <2>2, PopKeeps
  <2>3. CASE /\ \A q \in Queues : Empty(q)
             /\ Goto(Owner, "wait for flag")
             /\ UNCHANGED <<vars, event_list, result>>
    BY <1>1, <2>1, <2>3, OwnerMoves
  <2> QED
    BY <1>3, <2>2, <2>3 DEF event_wait_multi
<1>4. CASE timed_get
  <2>1. /\ at[Owner] = "timed get"
        /\ UNCHANGED <<vars, linked, waiter, timer, pending>>
    BY <1>4 DEF timed_get, At
  <2>2. CASE lpop(1) /\ Goto(Owner, "timed unlink")
    BY <1>1, <2>1, <2>2, PopKeeps, EventFlags
  <2>3. CASE Goto(Owner, "timed wait") /\ UNCHANGED <<event_list, result>>
    BY <1>1, <2>1, <2>3, OwnerMoves
  <2> QED
    BY <1>4, <2>2, <2>3 DEF timed_get
<1>5. ASSUME NEW q \in Queues, event_get(q) PROVE EventInv'
  BY <1>1, <1>5, PopKeeps DEF event_get, At
<1> QED
  BY <1>2, <1>3, <1>4, <1>5

\* The waits for flags inside of the module.
LEMMA WaitKeeps ==
    ASSUME EventInv, wait_for_flag \/ event_wait_timeout \/ timed_wait
    PROVE  EventInv'
<1>1. FlagInv /\ Owner \in Threads /\ waiter \in BOOLEAN /\ timer \in BOOLEAN
  BY EventFlags DEF EventInv, EventTypes
<1>2. CASE wait_for_flag
  <2>1. /\ at[Owner] = "wait for flag" /\ Goto(Owner, "wait")
        /\ UNCHANGED <<event_list, linked, waiter, result, timer, pending>>
    BY <1>2 DEF wait_for_flag, At
  <2>2. FlagInv' /\ flags' = flags /\ inside'[Owner].mask = {THREAD_FLAG_EVENT}
    BY <1>1, <1>2, EventFlags, WaitsKeeps DEF wait_for_flag
  <2>3. waiter /\ GoesToWait
    BY <2>1 DEF EventInv, OwnerPlace, GoesToWait
  <2> QED
    BY <1>1, <2>1, <2>2, <2>3, OwnerMoves
<1>3. CASE event_wait_timeout
  <2>1. /\ at[Owner] = "none" /\ Goto(Owner, "timed get") /\ timer' = TRUE
        /\ UNCHANGED <<event_list, linked, waiter, result, pending>>
        /\ inside[Owner] = Outside
    BY <1>3 DEF event_wait_timeout, At, Running
  <2>2. FlagInv' /\ inside' = inside
    BY <1>1, <1>3, ClearKeeps DEF event_wait_timeout
  <2> QED
    BY <1>1, <2>1, <2>2, OwnerMoves
<1>4. CASE timed_wait
  <2>1. /\ at[Owner] = "timed wait"
        /\ UNCHANGED <<event_list, linked, waiter, at, result, timer, pending>>
    BY <1>4 DEF timed_wait, At, evars
  <2>2. FlagInv'
    BY <1>1, <1>4, EventFlags, WaitsKeeps DEF timed_wait
  <2>3. Goto(Owner, "timed wait")
    BY <1>1, <2>1 DEF Goto, EventInv, EventTypes
  <2> QED
    BY <1>1, <2>1, <2>2, <2>3, OwnerMoves
<1> QED
  BY <1>2, <1>3, <1>4

\* The owner comes back from a wait for a flag.
LEMMA FlagReturnKeeps ==
    ASSUME EventInv, wait_flag_returns
    PROVE  EventInv'
<1>1. /\ FlagInv /\ EventTypes /\ OwnerPlace /\ Owner \in Threads
      /\ UNCHANGED <<event_list, linked, waiter, result, timer, pending>>
  BY EventFlags DEF EventInv, wait_flag_returns
<1>2. FlagInv' /\ inside' = [inside EXCEPT ![Owner] = Outside]
  BY <1>1, ReturnsKeeps DEF wait_flag_returns
<1>3. inside'[Owner] = Outside /\ inside[Owner] # Outside
  <2>1. inside[Owner].fn # Outside.fn
    BY DEF wait_flag_returns, wait_returns, Outside
  <2> QED
    BY <1>1, <1>2, <2>1 DEF FlagInv, FlagTypes
<1>4. at[Owner] \in {"none", "wait", "timed wait"}
  BY <1>1, <1>3 DEF OwnerPlace
<1>5. \E l \in {"none", "wait", "timed get", "timed wait"} :
          Goto(Owner, l) /\ (l = "wait" => at[Owner] = "wait")
  <2>1. CASE at' = at
    <3>1. Goto(Owner, at[Owner])
      BY <1>1, <2>1 DEF Goto, EventTypes
    <3> QED
      BY <1>4, <3>1
  <2>2. CASE Goto(Owner, "timed get") \/ Goto(Owner, "none")
    BY <2>2
  <2> QED
    BY <2>1, <2>2 DEF wait_flag_returns
<1>6. at[Owner] = "wait" => waiter
  BY <1>1 DEF OwnerPlace
<1> QED
  BY <1>1, <1>2, <1>3, <1>4, <1>5, <1>6, OwnerMoves DEF EventTypes

\* The link of the event that was taken is cleared.
LEMMA UnlinksKeeps ==
    ASSUME EventInv, unlinks
    PROVE  EventInv'
<1>1. /\ EventTypes /\ Taken /\ LinkedIsKept /\ NoLostEvent /\ OwnerPlace
      /\ FlagInv' /\ flags' = flags /\ inside' = inside /\ inside[Owner] = Outside
      /\ UNCHANGED <<event_list, waiter, result, pending>> /\ Owner \in Threads
  BY SameFlags, EventFlags DEF EventInv, unlinks, At, Running
<1>2. /\ Unlinking
      /\ linked' = [linked EXCEPT ![result] = FALSE]
      /\ timer' = (timer /\ at[Owner] # "timed unlink")
      /\ at' = [at EXCEPT ![Owner] = "handle"]
  BY DEF unlinks, At, Goto, Unlinking
<1>3. result \in Events /\ timer' \in BOOLEAN
  BY <1>1, <1>2 DEF Taken, EventTypes
<1>4. EventTypes' /\ at'[Owner] = "handle" /\ ~Unlinking'
  BY <1>1, <1>2, <1>3 DEF EventTypes, Unlinking
<1>5. Taken' /\ NoLostEvent'
  BY <1>1, <1>2, <1>4 DEF Taken, NoLostEvent, Queued
<1>6. LinkedIsKept'
  BY <1>1, <1>2, <1>3 DEF LinkedIsKept, Queued, EventTypes
<1>7. OwnerPlace' /\ Announced'
  BY <1>1, <1>4 DEF OwnerPlace, Announced, GoesToWait
<1> QED
  BY <1>1, <1>4, <1>5, <1>6, <1>7 DEF EventInv

\* The handler of the event is called.
LEMMA HandlesKeeps ==
    ASSUME EventInv, handles
    PROVE  EventInv'
<1>1. /\ EventTypes /\ Taken /\ LinkedIsKept /\ NoLostEvent /\ OwnerPlace
      /\ FlagInv' /\ flags' = flags /\ inside' = inside /\ inside[Owner] = Outside
      /\ UNCHANGED <<event_list, linked, waiter, timer>> /\ Owner \in Threads
  BY SameFlags, EventFlags DEF EventInv, handles, At, Running
<1>2. /\ at[Owner] = "handle"
      /\ pending' = IF Queued(result) THEN pending ELSE pending \ {result}
      /\ result' = NoEvent
      /\ at' = [at EXCEPT ![Owner] = "none"]
  BY DEF handles, At, Goto
<1>3. EventTypes' /\ at'[Owner] = "none" /\ ~Unlinking' /\ ~Unlinking
  BY <1>1, <1>2 DEF EventTypes, Unlinking
<1>4. Taken' /\ LinkedIsKept'
  BY <1>1, <1>2, <1>3 DEF Taken, LinkedIsKept, Queued
<1>5. \A e \in Events : Queued(e)' <=> Queued(e)
  BY <1>1 DEF Queued
<1>6. NoLostEvent'
  BY <1>1, <1>2, <1>5 DEF NoLostEvent, EventTypes
<1>7. OwnerPlace' /\ Announced'
  BY <1>1, <1>3 DEF OwnerPlace, Announced, GoesToWait
<1> QED
  BY <1>1, <1>3, <1>4, <1>6, <1>7 DEF EventInv

\* The timer of a timed wait sets the owner's flag.
LEMMA TimerKeeps ==
    ASSUME EventInv, TimerExpires
    PROVE  EventInv'
<1>1. /\ FlagInv /\ EventTypes /\ Taken /\ LinkedIsKept /\ NoLostEvent
      /\ OwnerPlace /\ Announced
      /\ UNCHANGED <<event_list, linked, waiter, at, result, pending>> /\ timer' = FALSE
  BY DEF EventInv, TimerExpires
<1>2. FlagInv' /\ inside' = inside /\ flags[Owner] \subseteq flags'[Owner]
  BY <1>1, SetKeeps, EventFlags DEF TimerExpires
<1>3. EventTypes'
  BY <1>1 DEF EventTypes
<1>4. Taken' /\ LinkedIsKept' /\ NoLostEvent'
  BY <1>1 DEF Taken, LinkedIsKept, NoLostEvent, Unlinking, Queued
<1>5. OwnerPlace' /\ Announced'
  BY <1>1, <1>2 DEF OwnerPlace, Announced, GoesToWait, Empty
<1> QED
  BY <1>2, <1>3, <1>4, <1>5 DEF EventInv

\* The invariant holds initially.
LEMMA EventInitInv == EventInit => EventInv
<1> SUFFICES ASSUME EventInit PROVE EventInv
  OBVIOUS
<1>1. /\ \A t \in Threads, p \in Prios : Occurs(Runqueues[p], t) <=> Priority[t] = p
      /\ \A p \in Prios : NoDup(Runqueues[p])
  BY KernelAssumption DEF Occurs, NoDup
<1>2. /\ Threads # {} /\ Priority \in [Threads -> Prios]
      /\ Runqueues \in [Prios -> Seq(Threads)]
  BY KernelAssumption
<1>3. SchedInv(sched) /\ \A x \in Threads : on_runqueue(sched, x)
  BY <1>1, <1>2, BootInv, Zenon DEF Booted, EventInit, Init
<1>4. FlagTypes /\ \A t \in Threads : inside[t] = Outside
  BY DEF EventInit, Init, FlagTypes, Outside
<1>5. ASSUME NEW t \in Threads PROVE WaitOk(sched.status[t], flags[t], inside[t])
  <2>1. sched.status[t] \notin FlagBlocked
    BY <1>3 DEF on_runqueue, OnRunqueue, FlagBlocked
  <2> QED
    BY SMTT(30), <1>4, <2>1 DEF WaitOk, FlagBlocked, Outside
<1>6. FlagInv
  BY <1>3, <1>4, <1>5 DEF FlagInv
<1>7. EventTypes
  <2>1. event_list \in [Queues -> Seq(Events)]
    BY DEF EventInit
  <2>2. linked \in [Events -> BOOLEAN] /\ waiter \in BOOLEAN /\ timer \in BOOLEAN
    BY Zenon DEF EventInit
  <2> QED
    BY <2>1, <2>2 DEF EventInit, EventTypes
<1>8. at[Owner] = "none" /\ result = NoEvent /\ \A e \in Events : ~linked[e]
  BY EventFlags DEF EventInit
<1>9. Taken /\ LinkedIsKept /\ NoLostEvent /\ OwnerPlace /\ Announced
  BY <1>8 DEF EventInit, Taken, Unlinking, LinkedIsKept, NoLostEvent, OwnerPlace,
              Announced, GoesToWait
<1> QED
  BY <1>6, <1>7, <1>9 DEF EventInv

\* Every step keeps it.
LEMMA EventNextInv == EventInv /\ [EventNext]_allvars => EventInv'
<1> SUFFICES ASSUME EventInv, [EventNext]_allvars PROVE EventInv'
  OBVIOUS
<1>1. CASE UNCHANGED allvars
  BY <1>1, FlagsOnly, SameFlags DEF allvars, vars, evars, EventInv
<1>2. CASE \/ Kernel /\ UNCHANGED evars
           \/ \E t \in Threads : FlagStep(t) \/ (Wakeup(t) /\ UNCHANGED evars)
  BY <1>2, FlagStepKeeps
<1>3. CASE \E t \in Threads : post_sets_flag(t)
  BY <1>3, SetsFlagKeeps
<1>4. CASE \E t \in Threads, q \in Queues, e \in Events :
               event_post(t, q, e) \/ event_cancel(t, q, e)
  BY <1>4, PostKeeps, CancelKeeps
<1>5. CASE \/ event_queues_claim \/ event_wait_multi \/ timed_get
           \/ \E q \in Queues : event_get(q)
  BY <1>5, LookKeeps
<1>6. CASE wait_for_flag \/ event_wait_timeout \/ timed_wait
  BY <1>6, WaitKeeps
<1>7. CASE wait_flag_returns
  BY <1>7, FlagReturnKeeps
<1>8. CASE unlinks \/ handles
  BY <1>8, UnlinksKeeps, HandlesKeeps
<1>9. CASE TimerExpires \/ \E q \in Queues, e \in Events : IsrPost(q, e)
  BY <1>9, TimerKeeps, IsrPostKeeps
<1> QED
  BY <1>1, <1>2, <1>3, <1>4, <1>5, <1>6, <1>7, <1>8, <1>9 DEF EventNext, OwnerProceeds

\* Only the end of its wait function takes a thread out of it.
LEMMA LeavesByReturn ==
    ASSUME EventInv, EventNext, NEW t \in Threads,
           inside[t] # Outside, inside'[t] = Outside
    PROVE  wait_returns(t)
<1>1. FlagInv /\ FlagTypes /\ Owner \in Threads
  BY EventFlags DEF EventInv, FlagInv
<1>2. \A x \in Threads : Running(x) => x # t
  BY DEF Running
<1>3. ASSUME NEW x \in Threads, wait_one_reads(x) PROVE inside'[t] # Outside
  <2>1. CASE x = t
    BY <1>1, <1>3, <2>1 DEF wait_one_reads, FlagTypes, Outside
  <2>2. CASE x # t
    BY <1>1, <1>3, <2>2 DEF wait_one_reads, FlagTypes
  <2> QED
    BY <2>1, <2>2
<1>4. ASSUME NEW x \in Threads, wait_returns(x) PROVE wait_returns(t)
  BY <1>1, <1>4 DEF wait_returns, FlagTypes
<1>5. ASSUME NEW x \in Threads, NEW mask,
             \/ thread_flags_wait_any(x, mask)
             \/ thread_flags_wait_one(x, mask)
             \/ thread_flags_wait_all(x, mask)
      PROVE  inside'[t] = inside[t]
  <2>1. x # t /\ \E w : inside' = [inside EXCEPT ![x] = w]
    BY <1>2, <1>5 DEF thread_flags_wait_any, thread_flags_wait_one,
                      thread_flags_wait_all, waits
  <2> QED
    BY <1>1, <2>1 DEF FlagTypes
<1>6. CASE inside' = inside
  BY <1>6
<1>7. ASSUME NEW x \in Threads, FlagStep(x) PROVE wait_returns(t)
  <2>1. \/ wait_one_reads(x)
        \/ wait_returns(x)
        \/ \E mask : \/ thread_flags_wait_any(x, mask)
                     \/ thread_flags_wait_one(x, mask)
                     \/ thread_flags_wait_all(x, mask)
        \/ inside' = inside
    BY <1>7 DEF FlagStep, ThreadStep, Sleep, fvars, thread_flags_set, thread_flags_clear
  <2> QED
    BY <1>3, <1>4, <1>5, <1>6, <2>1
<1>8. CASE wait_for_flag \/ timed_wait
  BY <1>1, <1>5, <1>8 DEF wait_for_flag, timed_wait
<1>9. CASE wait_flag_returns
  BY <1>1, <1>4, <1>9 DEF wait_flag_returns
<1>10. CASE \/ Kernel \/ \E x \in Threads : Wakeup(x) \/ post_sets_flag(x)
            \/ TimerExpires \/ event_wait_timeout
  BY <1>6, <1>10 DEF Kernel, Wakeup, fvars, post_sets_flag, thread_flags_set,
                     TimerExpires, IsrSet, event_wait_timeout, thread_flags_clear
<1>11. CASE \/ \E x \in Threads, q \in Queues, e \in Events :
                   event_post(x, q, e) \/ event_cancel(x, q, e)
            \/ event_queues_claim \/ event_wait_multi \/ timed_get
            \/ \E q \in Queues : event_get(q)
            \/ unlinks \/ handles
  BY <1>6, <1>11 DEF event_post, event_cancel, event_queues_claim, event_wait_multi,
                     timed_get, event_get, unlinks, handles, vars
<1>12. CASE \E q \in Queues, e \in Events : IsrPost(q, e)
  BY <1>6, <1>12 DEF IsrPost, IsrSet, vars
<1> QED
  BY <1>7, <1>8, <1>9, <1>10, <1>11, <1>12 DEF EventNext, OwnerProceeds

-----------------------------------------------------------------------------
(* An owner of the highest priority: links are exact *)

\* The owner alone has the highest priority.
OwnerIsHighest == \A t \in Threads \ {Owner} : Priority[Owner] < Priority[t]

\* When the owner can run it is active, or whoever is active is about to give
\* up the CPU.
OwnerFirst(s) ==
    /\ s.active \in Threads
    /\ s.priority = Priority
    /\ \A t \in Threads : s.call[t].op \in {"none", "yield"}
    /\ on_runqueue(s, Owner) => \/ s.active = Owner \/ s.pendsv \/ s.idle
                                \/ s.call[s.active].op = "yield"

\* The link of an event tells whether it is queued, and it is queued once; the
\* event that is being unlinked is not queued.
LinksExact ==
    /\ \A q \in Queues : NoDup(event_list[q])
    /\ \A p, q \in Queues, e \in Events :
           Occurs(event_list[p], e) /\ Occurs(event_list[q], e) => p = q
    /\ \A e \in Events : linked[e] <=> Queued(e) \/ (Unlinking /\ result = e)
    /\ Unlinking => ~Queued(result)

\* The owner of the highest priority is not interrupted by a thread while it
\* unlinks an event.
LinkInv ==
    /\ OwnerFirst(sched)
    /\ Unlinking => on_runqueue(sched, Owner)
    /\ LinksExact

\* What a step does to the scheduler.
LEMMA SchedSteps ==
    ASSUME EventInv, EventNext
    PROVE  \/ sched' = sched
           \/ KernelStep /\ UNCHANGED evars
           \/ \E t \in Threads, st \in BlockedStatus :
                 /\ Running(t) /\ at[t] \notin {"unlink", "timed unlink"}
                 /\ at'[t] \notin {"unlink", "timed unlink"}
                 /\ sched' = [sched_set_status(sched, t, st) EXCEPT !.call[t] = CallYield]
           \/ \E t, u \in Threads :
                 /\ Running(t) /\ ~on_runqueue(sched, u)
                 /\ sched' = [thread_flags_wake(sched, u) EXCEPT !.call[t] = CallYield]
           \/ \E u \in Threads :
                 /\ ~on_runqueue(sched, u)
                 /\ sched' = cortexm_isr_end(thread_flags_wake(sched, u))
           \/ \E u \in Threads : IsrWakes(u)
<1>1. /\ Owner \in Threads /\ {"FLAG_BLOCKED_ANY", "FLAG_BLOCKED_ALL", "SLEEPING"} \subseteq BlockedStatus
      /\ at \in [Threads -> {"none", "flag", "unlink", "wait", "wait for flag", "timed get",
                             "timed unlink", "timed wait", "handle"}]
  BY EventFlags DEF BlockedStatus, EventInv, EventTypes
<1>2. \A u \in Threads : \A f : Wakes(u, f) => ~on_runqueue(sched, u)
  BY DEF Wakes, on_runqueue, OnRunqueue
<1>3. ASSUME NEW u \in Threads, NEW mask,
             IsrSet(u, mask) \/ \E t \in Threads : thread_flags_set(t, u, mask)
      PROVE  \/ sched' = sched
             \/ \E t \in Threads :
                   /\ Running(t) /\ ~on_runqueue(sched, u)
                   /\ sched' = [thread_flags_wake(sched, u) EXCEPT !.call[t] = CallYield]
             \/ /\ ~on_runqueue(sched, u)
                /\ sched' = cortexm_isr_end(thread_flags_wake(sched, u))
  BY <1>2, <1>3 DEF IsrSet, thread_flags_set
<1>4. ASSUME NEW t \in Threads, NEW mask,
             \/ thread_flags_wait_any(t, mask)
             \/ thread_flags_wait_one(t, mask)
             \/ thread_flags_wait_all(t, mask)
      PROVE  \/ sched' = sched
             \/ \E st \in BlockedStatus :
                   /\ Running(t)
                   /\ sched' = [sched_set_status(sched, t, st) EXCEPT !.call[t] = CallYield]
  <2>1. \E st \in BlockedStatus : \E fn, enough : waits(t, fn, mask, st, enough) /\ Running(t)
    BY <1>1, <1>4 DEF thread_flags_wait_any, thread_flags_wait_one, thread_flags_wait_all
  <2> QED
    BY <2>1 DEF waits
<1>5. CASE Kernel /\ UNCHANGED evars
  BY <1>5 DEF Kernel
<1>6. ASSUME NEW t \in Threads, FlagStep(t)
      PROVE  \/ sched' = sched
             \/ \E st \in BlockedStatus :
                   /\ Running(t) /\ at[t] = "none" /\ at'[t] = "none"
                   /\ sched' = [sched_set_status(sched, t, st) EXCEPT !.call[t] = CallYield]
             \/ \E u \in Threads :
                   /\ Running(t) /\ ~on_runqueue(sched, u)
                   /\ sched' = [thread_flags_wake(sched, u) EXCEPT !.call[t] = CallYield]
  <2>1. at[t] = "none" /\ at'[t] = "none"
    BY <1>6 DEF FlagStep, evars
  <2>2. CASE Sleep(t)
    BY <1>1, <2>1, <2>2 DEF Sleep, Sleeps
  <2>3. CASE \E u \in Threads, mask \in Masks : thread_flags_set(t, u, mask)
    BY <1>2, <2>3 DEF thread_flags_set
  <2>4. CASE \E mask \in Masks : \/ thread_flags_wait_any(t, mask)
                                 \/ thread_flags_wait_one(t, mask)
                                 \/ thread_flags_wait_all(t, mask)
    BY <1>4, <2>1, <2>4
  <2>5. CASE \/ wait_one_reads(t) \/ wait_returns(t)
             \/ \E mask \in Masks : thread_flags_clear(t, mask)
    BY <2>5 DEF wait_one_reads, wait_returns, thread_flags_clear
  <2> QED
    BY <1>1, <1>6, <2>2, <2>3, <2>4, <2>5 DEF FlagStep, ThreadStep
<1>7. CASE \E t \in Threads : Wakeup(t)
  BY <1>7 DEF Wakeup
<1>8. CASE \/ \E t \in Threads : post_sets_flag(t)
           \/ TimerExpires \/ \E q \in Queues, e \in Events : IsrPost(q, e)
  BY <1>1, <1>3, <1>8 DEF post_sets_flag, TimerExpires, IsrPost, vars
<1>9. CASE wait_for_flag \/ timed_wait
  <2>1. /\ at[Owner] \notin {"unlink", "timed unlink"}
        /\ at'[Owner] \notin {"unlink", "timed unlink"}
    BY <1>1, <1>9 DEF wait_for_flag, timed_wait, At, Goto, evars
  <2> QED
    BY <1>1, <1>4, <1>9, <2>1 DEF wait_for_flag, timed_wait
<1>10. CASE \/ \E t \in Threads, q \in Queues, e \in Events :
                   event_post(t, q, e) \/ event_cancel(t, q, e)
            \/ event_queues_claim \/ event_wait_multi \/ timed_get
            \/ \E q \in Queues : event_get(q)
            \/ unlinks \/ handles \/ event_wait_timeout \/ wait_flag_returns
  BY <1>10 DEF event_post, event_cancel, event_queues_claim, event_wait_multi,
               timed_get, event_get, unlinks, handles, vars, event_wait_timeout,
               thread_flags_clear, wait_flag_returns, wait_returns
<1> QED
  BY <1>5, <1>6, <1>7, <1>8, <1>9, <1>10 DEF EventNext, OwnerProceeds

\* sched_run() prefers the owner.
LEMMA OwnerChosen ==
    ASSUME OwnerIsHighest, NEW s \in SchedState, RunqueueExact(s), s.bitcache # {},
           NEW prev \in {s.active, NoThread}, s.priority = Priority,
           \A t \in Threads : s.call[t].op \in {"none", "yield"}
    PROVE  OwnerFirst(sched_run_next(s, prev))
<1> DEFINE r == sched_run_next(s, prev)
<1>1. /\ r \in SchedState /\ RunqueueExact(r)
      /\ r.active \in Threads
      /\ \A q \in r.bitcache : r.priority[r.active] <= q
      /\ r.priority = s.priority /\ r.call = s.call
  BY RunNext
<1> HIDE DEF r
<1>2. ASSUME on_runqueue(r, Owner) PROVE r.active = Owner
  <2>1. Priority[Owner] \in r.bitcache
    BY <1>1, <1>2, OnItsQueue, EventFlags
  <2>2. Priority[r.active] <= Priority[Owner]
    BY <1>1, <2>1
  <2>3. Priority[r.active] \in Int /\ Priority[Owner] \in Int
    BY SMTT(30), <1>1, EventFlags, SchedFields DEF Prios
  <2> QED
    BY SMTT(30), <1>1, <2>2, <2>3 DEF OwnerIsHighest
<1> QED
  BY <1>1, <1>2 DEF OwnerFirst, r

\* A quiet step keeps the preference.
LEMMA OwnerQuiet ==
    ASSUME NEW s, OwnerFirst(s), NEW r, Quiet(r, s)
    PROVE  OwnerFirst(r)
  BY DEF OwnerFirst, Quiet, SameQueues, on_runqueue

\* A thread that leaves thread_yield_higher() to be called gives way.
LEMMA OwnerYield ==
    ASSUME NEW s, OwnerFirst(s), NEW m \in SchedState, m.priority = s.priority,
           m.active = s.active, m.call = s.call, NEW t \in Threads, s.active = t
    PROVE  OwnerFirst([m EXCEPT !.call[t] = CallYield])
<1> DEFINE r == [m EXCEPT !.call[t] = CallYield]
<1>1. /\ SameQueues(r, m) /\ r.call = [m.call EXCEPT ![t] = CallYield]
      /\ r.active = m.active
  BY SetCall, CallTypes
<1> HIDE DEF r
<1>2. r.priority = Priority /\ r.active = t
  BY <1>1 DEF OwnerFirst, SameQueues
<1>3. r.call[t].op = "yield" /\ \A x \in Threads \ {t} : r.call[x] = s.call[x]
  <2>1. m.call \in [Threads -> Calls]
    BY SchedFields
  <2>2. r.call[t] = CallYield /\ \A x \in Threads \ {t} : r.call[x] = m.call[x]
    BY <1>1, <2>1
  <2>3. CallYield.op = "yield"
    BY CallTypes
  <2> QED
    BY <2>2, <2>3
<1> QED
  BY <1>2, <1>3 DEF OwnerFirst, r

\* A step of the kernel.
LEMMA OwnerKernel ==
    ASSUME OwnerIsHighest, SchedInv(sched), OwnerFirst(sched), KernelStep
    PROVE  OwnerFirst(sched')
<1>1. CASE PendSV
  <2> DEFINE s == [sched EXCEPT !.pendsv = FALSE]
  <2>1. sched' = sched_run(s)
    BY <1>1 DEF PendSV
  <2>2. /\ s \in SchedState /\ SameQueues(s, sched)
        /\ s.active = sched.active /\ s.call = sched.call
    BY DEF SchedInv, SchedState, SameQueues
  <2> HIDE DEF s
  <2>3. RunqueueExact(s) /\ s.priority = Priority /\ s.active \in Threads
    BY <2>2, SameQueuesExact DEF SchedInv, OwnerFirst, SameQueues
  <2>4. CASE Idle = NoThread /\ s.bitcache = {}
    <3>1. sched' = [unschedule(s, s.active) EXCEPT !.idle = TRUE]
      BY <2>1, <2>3, <2>4, SchedAssumption DEF sched_run
    <3>2. /\ unschedule(s, s.active) \in SchedState
          /\ unschedule(s, s.active).priority = Priority
          /\ unschedule(s, s.active).active = s.active
          /\ unschedule(s, s.active).call = s.call
      <4>1. CASE s.status[s.active] = "RUNNING"
        <5>1. on_runqueue(s, s.active)
          BY <4>1 DEF on_runqueue, OnRunqueue
        <5> QED
          BY <2>2, <2>3, <2>4, <5>1, OnItsQueue
      <4>2. CASE s.status[s.active] # "RUNNING"
        BY <2>2, <2>3, <4>2 DEF unschedule
      <4> QED
        BY <4>1, <4>2
    <3> QED
      <4> DEFINE n == unschedule(s, s.active)
      <4>1. /\ n \in SchedState /\ n.priority = Priority
            /\ n.active = s.active /\ n.call = s.call
            /\ sched' = [n EXCEPT !.idle = TRUE]
        BY <3>1, <3>2
      <4> HIDE DEF n
      <4>2. /\ sched'.priority = Priority /\ sched'.active = s.active
            /\ sched'.call = s.call /\ sched'.idle
        BY <4>1 DEF SchedState
      <4> QED
        BY <2>2, <2>3, <4>2 DEF OwnerFirst
  <2>5. CASE ~(Idle = NoThread /\ s.bitcache = {})
    <3>1. sched' = sched_run_next(s, s.active)
      BY <2>1, <2>5 DEF sched_run
    <3>2. s.bitcache # {}
      <4>1. Idle # NoThread => on_runqueue(s, Idle) /\ Idle \in Threads
        BY <2>2, SchedAssumption DEF SchedInv, IdleRunnable, SameQueues, on_runqueue
      <4> QED
        BY <2>2, <2>3, <2>5, <4>1, OnItsQueue
    <3> QED
      BY <2>2, <2>3, <3>1, <3>2, OwnerChosen DEF OwnerFirst
  <2> QED
    BY <2>4, <2>5
<1>2. CASE IdleWake
  <2> DEFINE s == [sched EXCEPT !.idle = FALSE]
  <2>1. sched' = sched_run_next(s, NoThread) /\ sched.bitcache # {}
    BY <1>2 DEF IdleWake
  <2>2. /\ s \in SchedState /\ SameQueues(s, sched) /\ s.call = sched.call
    BY DEF SchedInv, SchedState, SameQueues
  <2> HIDE DEF s
  <2>3. RunqueueExact(s) /\ s.priority = Priority /\ s.bitcache # {}
    BY <2>1, <2>2, SameQueuesExact DEF SchedInv, OwnerFirst, SameQueues
  <2> QED
    BY <2>1, <2>2, <2>3, OwnerChosen DEF OwnerFirst
<1>3. ASSUME NEW t \in Threads, SchedCall(t) PROVE OwnerFirst(sched')
  <2> DEFINE s == [sched EXCEPT !.call[t] = NoCall]
  <2>1. sched' = thread_yield_higher(s)
    BY <1>3 DEF SchedCall, OwnerFirst
  <2>2. /\ s \in SchedState /\ SameQueues(s, sched) /\ s.active = sched.active
        /\ s.call = [sched.call EXCEPT ![t] = NoCall]
    BY SetCall, CallTypes DEF SchedInv
  <2> HIDE DEF s
  <2>3. Quiet(sched', s) /\ sched'.pendsv
    BY <2>1, <2>2, PendYield
  <2>4. /\ sched'.active \in Threads /\ sched'.priority = Priority
        /\ sched'.call = [sched.call EXCEPT ![t] = NoCall]
    BY <2>2, <2>3 DEF OwnerFirst, Quiet, SameQueues
  <2>5. \A x \in Threads : sched'.call[x].op \in {"none", "yield"}
    BY <2>4, CallTypes, SchedFields DEF OwnerFirst, SchedInv
  <2> QED
    BY <2>3, <2>4, <2>5 DEF OwnerFirst
<1> QED
  BY <1>1, <1>2, <1>3 DEF KernelStep

\* thread_flags_wake() changes the run queues and the request only.
LEMMA FlagWakeFields ==
    ASSUME NEW s, SchedInv(s), NEW u \in Threads, ~on_runqueue(s, u)
    PROVE  LET r == thread_flags_wake(s, u)
           IN  /\ r \in SchedState /\ r.request
               /\ r.priority = s.priority /\ r.active = s.active
               /\ r.call = s.call /\ r.pendsv = s.pendsv /\ r.idle = s.idle
<1> DEFINE m == sched_set_status(s, u, "PENDING")
<1>1. "PENDING" \in OnRunqueue
  BY DEF OnRunqueue
<1>2. m \in SchedState /\ SameButQueues(m, s)
  BY <1>1, PushInv DEF SchedInv
<1> HIDE DEF m
<1>3. LET r == [m EXCEPT !.request = TRUE]
      IN  /\ r \in SchedState /\ r.request
          /\ r.priority = s.priority /\ r.active = s.active
          /\ r.call = s.call /\ r.pendsv = s.pendsv /\ r.idle = s.idle
  BY <1>2 DEF SchedState, SameButQueues
<1> QED
  BY <1>3 DEF m, thread_flags_wake

\* Every step keeps the preference, and takes the owner off its run queue only
\* when it blocks itself, which it does not while it unlinks an event.
LEMMA OwnerStays ==
    ASSUME OwnerIsHighest, EventInv, EventNext, OwnerFirst(sched)
    PROVE  /\ OwnerFirst(sched')
           /\ Unlinking /\ Unlinking' /\ on_runqueue(sched, Owner) =>
                  on_runqueue(sched', Owner)
<1>1. SchedInv(sched) /\ sched \in SchedState /\ sched.status \in [Threads -> Status]
  BY SchedFields DEF EventInv, FlagInv, SchedInv
<1>2. Owner \in Threads
  BY EventFlags
<1>3. CASE sched' = sched
  BY <1>3
<1>4. CASE KernelStep
  <2>1. OwnerFirst(sched')
    BY <1>1, <1>4, OwnerKernel
  <2>2. \A x \in Threads : \/ sched'.status[x] = sched.status[x]
                           \/ on_runqueue(sched, x) /\ on_runqueue(sched', x)
    BY <1>1, <1>4, PendSVInv, IdleWakeInv, SchedCallInv DEF KernelStep
  <2> QED
    BY <1>2, <2>1, <2>2 DEF on_runqueue
<1>5. ASSUME NEW t \in Threads, NEW st \in BlockedStatus,
             Running(t), at[t] \notin {"unlink", "timed unlink"},
             sched' = [sched_set_status(sched, t, st) EXCEPT !.call[t] = CallYield]
      PROVE  /\ OwnerFirst(sched')
             /\ Unlinking /\ on_runqueue(sched, Owner) => on_runqueue(sched', Owner)
  <2> DEFINE m == sched_set_status(sched, t, st)
  <2>1. /\ sched.active = t /\ t # Idle /\ on_runqueue(sched, t) /\ IsHead(sched, t)
    BY <1>1, <1>5, RunningThread
  <2>2. m \in SchedState /\ SameButQueues(m, sched)
    BY <1>1, <2>1, BlockSelf
  <2>3. sched'.status = [sched.status EXCEPT ![t] = st]
    BY ZenonT(30), <1>1, <1>5, <2>1, BlockYield
  <2>4. sched' = [m EXCEPT !.call[t] = CallYield]
    BY <1>5
  <2> HIDE DEF m
  <2>5. OwnerFirst(sched')
    BY <2>1, <2>2, <2>4, OwnerYield DEF SameButQueues
  <2>6. Unlinking => sched'.status[Owner] = sched.status[Owner]
    BY <1>1, <1>2, <1>5, <2>3 DEF Unlinking
  <2> QED
    BY <2>5, <2>6 DEF on_runqueue
<1>6. ASSUME NEW u \in Threads, ~on_runqueue(sched, u),
             NEW r, r = thread_flags_wake(sched, u),
             \/ sched' = cortexm_isr_end(r)
             \/ \E t \in Threads : Running(t) /\ sched' = [r EXCEPT !.call[t] = CallYield]
      PROVE  OwnerFirst(sched') /\ (on_runqueue(sched, Owner) => on_runqueue(sched', Owner))
  <2>1. /\ r \in SchedState /\ r.request
        /\ r.priority = sched.priority /\ r.active = sched.active
        /\ r.call = sched.call /\ r.pendsv = sched.pendsv /\ r.idle = sched.idle
    BY <1>1, <1>6, FlagWakeFields
  <2>2. SchedInv(r) /\ r.status = [sched.status EXCEPT ![u] = "PENDING"]
    BY <1>1, <1>6, FlagWake
  <2>3. on_runqueue(sched, Owner) => on_runqueue(r, Owner)
    BY <1>1, <1>2, <2>2 DEF on_runqueue, OnRunqueue
  <2>4. CASE sched' = cortexm_isr_end(r)
    <3>1. Quiet(sched', r) /\ sched'.pendsv
      BY <2>1, <2>4, PendYield DEF cortexm_isr_end
    <3> QED
      BY <2>1, <2>3, <3>1 DEF OwnerFirst, Quiet, SameQueues, on_runqueue
  <2>5. ASSUME NEW t \in Threads, Running(t), sched' = [r EXCEPT !.call[t] = CallYield]
        PROVE  OwnerFirst(sched') /\ sched'.status = r.status
    <3>1. sched.active = t
      BY <1>1, <2>5, RunningThread
    <3>2. OwnerFirst(sched')
      BY <2>1, <2>5, <3>1, OwnerYield
    <3>3. sched'.status = r.status
      BY <2>1, <2>5, SetCall, CallTypes DEF SameQueues
    <3> QED
      BY <3>2, <3>3
  <2> QED
    BY <1>6, <2>3, <2>4, <2>5 DEF on_runqueue
<1>7. ASSUME NEW u \in Threads, IsrWakes(u)
      PROVE  OwnerFirst(sched') /\ (on_runqueue(sched, Owner) => on_runqueue(sched', Owner))
  <2> DEFINE r == sched_set_status(sched, u, "RUNNING")
             p == sched.priority[u]
  <2>1. sched.status[u] = "SLEEPING" /\ IsrEnds(r, p)
    BY <1>7 DEF IsrWakes, wakeup
  <2>2. ~on_runqueue(sched, u) /\ "RUNNING" \in OnRunqueue
    BY <2>1 DEF on_runqueue, OnRunqueue
  <2>3. /\ SchedInv(r) /\ r.status = [sched.status EXCEPT ![u] = "RUNNING"]
        /\ SameButQueues(r, sched)
    BY <1>1, <2>2, PushInv
  <2> HIDE DEF r, p
  <2>4. PICK garbage \in BOOLEAN : sched' = cortexm_isr_end(sched_switch_isr(r, p, garbage))
    BY <2>1 DEF IsrEnds
  <2>5. r \in SchedState
    BY <2>3 DEF SchedInv
  <2>6. Quiet(sched', r)
    BY <2>4, <2>5, IsrQuiet
  <2>7. on_runqueue(sched, Owner) => on_runqueue(sched', Owner)
    BY <1>1, <1>2, <2>3, <2>6 DEF on_runqueue, OnRunqueue, Quiet, SameQueues
  <2>8. CASE u # Owner
    <3>1. OwnerFirst(r)
      BY <1>1, <1>2, <2>3, <2>8 DEF OwnerFirst, SameButQueues, on_runqueue
    <3> QED
      BY <2>6, <2>7, <3>1, OwnerQuiet
  <2>9. CASE u = Owner /\ sched.active # Owner
    <3>1. /\ r.active \in Threads /\ r.active # NoThread /\ r.active # Owner
          /\ r.priority = Priority /\ p = Priority[Owner]
      BY <2>3, <2>9, SchedAssumption DEF OwnerFirst, SameButQueues, p
    <3>2. Priority[r.active] > Priority[Owner]
      BY <1>2, <3>1, KernelAssumption DEF OwnerIsHighest, Prios
    <3>3. SwitchNeeded(r, p)
      BY <3>1, <3>2 DEF SwitchNeeded
    <3> DEFINE n == sched_switch_isr(r, p, garbage)
    <3>4. n \in SchedState /\ n.request
      BY <2>5, <3>1, <3>3 DEF sched_switch_isr, SchedState
    <3> HIDE DEF n
    <3>5. sched' = thread_yield_higher(n)
      BY <2>4, <3>4 DEF cortexm_isr_end, n
    <3>6. sched'.pendsv
      BY <3>4, <3>5, PendYield
    <3> QED
      BY <2>3, <2>6, <2>7, <3>1, <3>6 DEF OwnerFirst, Quiet, SameQueues, SameButQueues
  <2>10. CASE sched.active = Owner
    BY <2>3, <2>6, <2>7, <2>10 DEF OwnerFirst, Quiet, SameQueues, SameButQueues
  <2> QED
    BY <2>8, <2>9, <2>10
<1> QED
  BY <1>3, <1>4, <1>5, <1>6, <1>7, SchedSteps

\* While the owner unlinks an event no other thread executes.
LEMMA UnlinksAlone ==
    ASSUME LinkInv, NEW t \in Threads, At(t, "none")
    PROVE  ~Unlinking
<1> SUFFICES ASSUME Unlinking PROVE FALSE
  OBVIOUS
<1>1. t # Owner
  BY DEF Unlinking, At
<1>2. sched.active = t /\ ~sched.pendsv /\ ~sched.idle /\ sched.call[t].op = "none"
  BY CallTypes DEF At, Running, Executing, OnCpu
<1> QED
  BY <1>1, <1>2 DEF LinkInv, OwnerFirst

\* The owner begins to unlink in a step of its own, which leaves the scheduler.
BeginsToUnlink == Unlinking' => Unlinking \/ (sched' = sched /\ Running(Owner))

\* A step that neither adds an event to a list nor takes one.
LEMMA LinksSame ==
    ASSUME LinksExact, UNCHANGED <<event_list, linked>>, Unlinking' <=> Unlinking,
           Unlinking => result' = result
    PROVE  LinksExact' /\ BeginsToUnlink
  BY DEF LinksExact, Queued, BeginsToUnlink

\* An event is appended to a list if it is not linked.
LEMMA LinksPost ==
    ASSUME EventInv, LinksExact, NEW q \in Queues, NEW e \in Events, post_section(q, e),
           Unlinking' <=> Unlinking, result' = result
    PROVE  LinksExact' /\ BeginsToUnlink
<1>1. CASE linked[e]
  BY <1>1, LinksSame DEF post_section
<1>2. CASE ~linked[e]
  <2> DEFINE l == Append(event_list[q], e)
  <2>1. event_list' = [event_list EXCEPT ![q] = l] /\ linked' = [linked EXCEPT ![e] = TRUE]
    BY <1>2 DEF post_section
  <2>2. event_list[q] \in Seq(Events) /\ EventTypes
    BY DEF EventInv, EventTypes
  <2>3. ~Queued(e) /\ ~(Unlinking /\ result = e) /\ NoDup(event_list[q])
        /\ \A k \in Queues : ~Occurs(event_list[k], e)
    BY <1>2, QueuedIs DEF LinksExact
  <2>4. NoDup(l) /\ \A x : Occurs(l, x) <=> Occurs(event_list[q], x) \/ x = e
    <3>1. ~Occurs(event_list[q], e) /\ NoDup(event_list[q])
      BY <2>3
    <3> QED
      BY <2>2, <3>1, AppendQueue
  <2> HIDE DEF l
  <2>5. event_list'[q] = l /\ \A k \in Queues \ {q} : event_list'[k] = event_list[k]
    BY <2>1, <2>2 DEF EventTypes
  <2>6. \A x \in Events : Queued(x)' <=> Queued(x) \/ x = e
    BY <2>4, <2>5, QueuedIs
  <2>7. \A k \in Queues : NoDup(event_list'[k])
    BY <2>4, <2>5 DEF LinksExact
  <2>8. \A j, k \in Queues, x \in Events :
            Occurs(event_list'[j], x) /\ Occurs(event_list'[k], x) => j = k
    <3> TAKE j, k \in Queues, x \in Events
    <3> HAVE Occurs(event_list'[j], x) /\ Occurs(event_list'[k], x)
    <3>1. /\ Occurs(event_list[j], x) \/ (j = q /\ x = e)
          /\ Occurs(event_list[k], x) \/ (k = q /\ x = e)
      BY <2>4, <2>5
    <3>2. CASE x = e
      BY <2>3, <3>1, <3>2
    <3>3. CASE x # e
      BY <3>1, <3>3 DEF LinksExact
    <3> QED
      BY <3>2, <3>3
  <2>9. \A x \in Events : linked'[x] <=> Queued(x)' \/ (Unlinking' /\ result' = x)
    BY <2>1, <2>2, <2>6 DEF LinksExact, EventTypes
  <2>10. Unlinking' => ~Queued(result)'
    <3>1. Queued(result)' <=> \E k \in Queues : Occurs(event_list'[k], result')
      BY DEF Queued, Occurs
    <3>2. Unlinking => ~\E k \in Queues : Occurs(event_list'[k], result)
      <4> SUFFICES ASSUME Unlinking, NEW k \in Queues, Occurs(event_list'[k], result)
                   PROVE  FALSE
        OBVIOUS
      <4>1. Occurs(event_list[k], result) \/ result = e
        BY <2>4, <2>5
      <4>2. ~Queued(result) /\ result # e
        BY <2>3 DEF LinksExact
      <4> QED
        BY <4>1, <4>2, QueuedIs
    <3> QED
      BY <3>1, <3>2
  <2>11. ~Unlinking => ~Unlinking'
    OBVIOUS
  <2> QED
    BY <2>7, <2>8, <2>9, <2>10, <2>11 DEF LinksExact, BeginsToUnlink
<1> QED
  BY <1>1, <1>2

\* An event is cancelled by a thread while the owner does not unlink one.
LEMMA LinksCancel ==
    ASSUME EventInv, LinkInv, NEW t \in Threads, NEW q \in Queues, NEW e \in Events,
           event_cancel(t, q, e)
    PROVE  LinksExact' /\ BeginsToUnlink
<1> DEFINE l == clist_remove(event_list[q], e)
<1>1. /\ event_list' = [event_list EXCEPT ![q] = l]
      /\ linked' = [linked EXCEPT ![e] = FALSE]
      /\ result' = result /\ at' = at
      /\ \A k \in Queues \ {q} : ~Occurs(event_list[k], e)
  BY DEF event_cancel, cancel_section, Occurs
<1>2. ~Unlinking /\ ~Unlinking'
  BY <1>1, UnlinksAlone DEF event_cancel, Unlinking
<1>3. EventTypes /\ event_list[q] \in Seq(Events) /\ LinksExact /\ NoDup(event_list[q])
  BY DEF EventInv, EventTypes, LinkInv, LinksExact
<1>4. NoDup(l) /\ ~Occurs(l, e) /\ \A x : x # e => (Occurs(l, x) <=> Occurs(event_list[q], x))
  <2>1. CASE Occurs(event_list[q], e)
    <3>1. l = list_remove(event_list[q], e)
      BY <2>1 DEF clist_remove, Occurs
    <3> QED
      BY SMTT(30), <1>3, <2>1, <3>1, RemoveFromList
  <2>2. CASE ~Occurs(event_list[q], e)
    BY <1>3, <2>2 DEF clist_remove, Occurs
  <2> QED
    BY <2>1, <2>2
<1> HIDE DEF l
<1>5. event_list'[q] = l /\ \A k \in Queues \ {q} : event_list'[k] = event_list[k]
  BY <1>1, <1>3 DEF EventTypes
<1>6. \A x \in Events : Queued(x)' <=> Queued(x) /\ x # e
  BY <1>1, <1>4, <1>5, QueuedIs
<1>7. \A k \in Queues : NoDup(event_list'[k])
  BY <1>3, <1>4, <1>5 DEF LinksExact
<1>8. \A j, k \in Queues, x \in Events :
          Occurs(event_list'[j], x) /\ Occurs(event_list'[k], x) => j = k
  BY SMTT(30), <1>1, <1>3, <1>4, <1>5 DEF LinksExact
<1>9. \A x \in Events : linked'[x] <=> Queued(x)'
  BY <1>1, <1>2, <1>3, <1>6 DEF LinksExact, EventTypes
<1> QED
  BY <1>2, <1>7, <1>8, <1>9 DEF LinksExact, BeginsToUnlink

\* The owner takes an event.
LEMMA LinksPop ==
    ASSUME EventInv, LinksExact, NEW q \in Queues, lpop(q), ~Unlinking, Unlinking',
           linked' = linked, sched' = sched, Running(Owner)
    PROVE  LinksExact' /\ BeginsToUnlink
<1> DEFINE h == Head(event_list[q])
           r == Tail(event_list[q])
<1>1. /\ event_list[q] # << >> /\ event_list[q] \in Seq(Events) /\ EventTypes
      /\ result' = h
      /\ event_list' = [event_list EXCEPT ![q] = r]
  BY DEF lpop, EventInv, EventTypes
<1>2. /\ h \in Events /\ NoDup(r) /\ ~Occurs(r, h)
      /\ \A x : Occurs(event_list[q], x) <=> x = h \/ Occurs(r, x)
  BY <1>1, TailMembers DEF LinksExact
<1> HIDE DEF h, r
<1>3. event_list'[q] = r /\ \A k \in Queues \ {q} : event_list'[k] = event_list[k]
  BY <1>1 DEF EventTypes
<1>4. \A k \in Queues \ {q} : ~Occurs(event_list[k], h)
  BY <1>2 DEF LinksExact
<1>5. \A x \in Events : Queued(x)' <=> Queued(x) /\ x # h
  <2> TAKE x \in Events
  <2>1. /\ Queued(x) <=> \E k \in Queues : Occurs(event_list[k], x)
        /\ Queued(x)' <=> \E k \in Queues : Occurs(event_list'[k], x)
    BY QueuedIs
  <2>2. ASSUME NEW k \in Queues
        PROVE  Occurs(event_list'[k], x) <=> Occurs(event_list[k], x) /\ x # h
    <3>1. CASE k = q
      BY <1>2, <1>3, <3>1
    <3>2. CASE k # q
      BY <1>3, <1>4, <3>2
    <3> QED
      BY <3>1, <3>2
  <2> QED
    BY <2>1, <2>2
<1>6. Queued(h)
  BY <1>2, QueuedIs
<1>7. \A k \in Queues : NoDup(event_list'[k])
  BY <1>2, <1>3 DEF LinksExact
<1>8. \A j, k \in Queues, x \in Events :
          Occurs(event_list'[j], x) /\ Occurs(event_list'[k], x) => j = k
  BY <1>2, <1>3 DEF LinksExact
<1>9. \A x \in Events : linked'[x] <=> Queued(x)' \/ (Unlinking' /\ result' = x)
  BY <1>1, <1>5, <1>6 DEF LinksExact
<1>10. ~Queued(result)'
  BY <1>1, <1>2, <1>5 DEF Queued
<1> QED
  BY <1>7, <1>8, <1>9, <1>10 DEF LinksExact, BeginsToUnlink

\* Every step keeps the links exact.
LEMMA LinksKeep ==
    ASSUME EventInv, LinkInv, EventNext
    PROVE  LinksExact' /\ BeginsToUnlink
<1>1. /\ LinksExact /\ Owner \in Threads /\ Taken /\ LinkedIsKept /\ EventTypes
      /\ at \in [Threads -> {"none", "flag", "unlink", "wait", "wait for flag",
                             "timed get", "timed unlink", "timed wait", "handle"}]
  BY EventFlags DEF LinkInv, EventInv, EventTypes
<1>2. CASE \/ UNCHANGED evars
           \/ TimerExpires \/ event_queues_claim
  <2>1. UNCHANGED <<event_list, linked, result, at>>
    BY <1>2 DEF evars, TimerExpires, event_queues_claim
  <2> QED
    BY <1>1, <2>1, LinksSame DEF Unlinking
<1>3. ASSUME NEW t \in Threads, NEW l, l \notin {"unlink", "timed unlink"},
             at[t] \notin {"unlink", "timed unlink"}, Goto(t, l)
      PROVE  Unlinking' <=> Unlinking
  BY <1>1, <1>3 DEF Goto, Unlinking
<1>4. ASSUME NEW t \in Threads, post_sets_flag(t) PROVE LinksExact' /\ BeginsToUnlink
  <2>1. Unlinking' <=> Unlinking
    BY <1>3, <1>4 DEF post_sets_flag, At
  <2> QED
    BY <1>1, <1>4, <2>1, LinksSame DEF post_sets_flag
<1>5. ASSUME NEW t \in Threads, NEW q \in Queues, NEW e \in Events, event_post(t, q, e)
      PROVE  LinksExact' /\ BeginsToUnlink
  <2>1. Unlinking' <=> Unlinking
    BY <1>3, <1>5 DEF event_post, At
  <2> QED
    BY <1>1, <1>5, <2>1, LinksPost DEF event_post
<1>6. CASE \E q \in Queues, e \in Events : IsrPost(q, e)
  BY <1>1, <1>6, LinksPost DEF IsrPost, Unlinking
<1>7. CASE \/ wait_for_flag \/ event_wait_timeout \/ wait_flag_returns \/ handles
  <2>1. UNCHANGED <<event_list, linked>> /\ (Unlinking' <=> Unlinking)
        /\ (Unlinking => result' = result)
    <3>1. CASE wait_for_flag \/ event_wait_timeout
      BY <1>1, <1>3, <3>1 DEF wait_for_flag, event_wait_timeout, At
    <3>2. CASE handles
      <4>1. at[Owner] = "handle" /\ Goto(Owner, "none") /\ UNCHANGED <<event_list, linked>>
        BY <3>2 DEF handles, At
      <4> QED
        BY <1>1, <1>3, <4>1 DEF Unlinking
    <3>3. CASE wait_flag_returns
      <4>1. UNCHANGED <<event_list, linked, result>>
        BY <3>3 DEF wait_flag_returns
      <4>2. \/ at' = at
            \/ /\ at[Owner] = "timed wait"
               /\ Goto(Owner, "timed get") \/ Goto(Owner, "none")
        BY <3>3 DEF wait_flag_returns
      <4> QED
        BY <1>1, <1>3, <4>1, <4>2 DEF Unlinking
    <3> QED
      BY <1>7, <3>1, <3>2, <3>3
  <2> QED
    BY <1>1, <2>1, LinksSame
<1>8. CASE \E t \in Threads, q \in Queues, e \in Events : event_cancel(t, q, e)
  BY <1>8, LinksCancel
<1>9. ASSUME NEW q \in Queues, lpop(q), NEW l \in {"unlink", "timed unlink"},
             Goto(Owner, l), at[Owner] \in {"none", "wait", "timed get"},
             UNCHANGED <<vars, linked>>, Running(Owner)
      PROVE  LinksExact' /\ BeginsToUnlink
  <2>1. ~Unlinking /\ Unlinking' /\ sched' = sched
    BY <1>1, <1>9 DEF Unlinking, Goto, vars
  <2> QED
    BY <1>1, <1>9, <2>1, LinksPop
<1>10. CASE event_wait_multi
  <2>1. at[Owner] \in {"none", "wait"} /\ Running(Owner) /\ linked' = linked
    BY <1>10 DEF event_wait_multi, At
  <2>2. CASE \E q \in Queues : lpop(q) /\ Goto(Owner, "unlink") /\ UNCHANGED vars
    BY <1>9, <2>1, <2>2
  <2>3. CASE Goto(Owner, "wait for flag") /\ UNCHANGED <<event_list, result>>
    BY <1>1, <1>3, <2>1, <2>3, LinksSame
  <2> QED
    BY <1>10, <2>2, <2>3 DEF event_wait_multi
<1>11. CASE timed_get
  <2>1. at[Owner] = "timed get" /\ Running(Owner) /\ linked' = linked /\ UNCHANGED vars
    BY <1>11 DEF timed_get, At
  <2>2. CASE lpop(1) /\ Goto(Owner, "timed unlink")
    BY <1>9, <2>1, <2>2, EventFlags
  <2>3. CASE Goto(Owner, "timed wait") /\ UNCHANGED <<event_list, result>>
    BY <1>1, <1>3, <2>1, <2>3, LinksSame
  <2> QED
    BY <1>11, <2>2, <2>3 DEF timed_get
<1>12. CASE \E q \in Queues : event_get(q)
  BY <1>9, <1>12 DEF event_get, At
<1>13. CASE unlinks
  <2>1. /\ Unlinking /\ UNCHANGED <<event_list, result>>
        /\ linked' = [linked EXCEPT ![result] = FALSE] /\ Goto(Owner, "handle")
    BY <1>13 DEF unlinks, At, Unlinking
  <2>2. ~Unlinking' /\ result \in Events
    BY <1>1, <2>1 DEF Goto, Unlinking, Taken, EventTypes
  <2>3. \A x \in Events : Queued(x)' <=> Queued(x)
    BY <2>1 DEF Queued
  <2>4. \A x \in Events : linked'[x] <=> Queued(x)'
    BY <1>1, <2>1, <2>2, <2>3 DEF LinksExact, EventTypes
  <2> QED
    BY <1>1, <2>1, <2>2, <2>4 DEF LinksExact, BeginsToUnlink
<1> QED
  BY <1>2, <1>4, <1>5, <1>6, <1>7, <1>8, <1>10, <1>11, <1>12, <1>13
  DEF EventNext, OwnerProceeds, FlagStep, timed_wait

-----------------------------------------------------------------------------
(* The theorems *)

\* The inductive invariant holds: a thread inside a wait function is blocked
\* or has its flags, a linked event is kept, and an event that comes while the
\* owner goes to wait is announced.
THEOREM EventInductive == EventSpec => []EventInv
  BY EventInitInv, EventNextInv, PTL DEF EventSpec

\* A thread that is blocked waits for flags that are not set.
THEOREM FlagsSeen == EventSpec => []BlockedIsUnmet
<1>1. EventInv => BlockedIsUnmet
  BY DEF EventInv, FlagInv, WaitOk, BlockedIsUnmet
<1> QED
  BY <1>1, EventInductive, PTL

\* A wait function returns what it waited for, although the flags are looked
\* at again after the thread was woken.
THEOREM WaitsReturn == EventSpec => ReturnsWhatItWaitedFor
<1> DEFINE A == \A t \in Threads : inside[t] # Outside /\ inside'[t] = Outside =>
                  /\ Returned(t) \subseteq inside[t].mask
                  /\ inside[t].fn = "any" => Returned(t) # {}
                  /\ inside[t].fn = "one_read" => \E b \in Bits : Returned(t) = {b}
                  /\ inside[t].fn = "all" => Returned(t) = inside[t].mask
<1>1. ASSUME EventInv, [EventNext]_allvars PROVE [A]_vars
  <2>1. CASE UNCHANGED allvars
    BY <2>1 DEF allvars, vars
  <2>2. CASE EventNext
    <3>1. FlagInv
      BY <1>1 DEF EventInv
    <3>2. ASSUME NEW t \in Threads, inside[t] # Outside, inside'[t] = Outside
          PROVE  wait_returns(t)
      BY <1>1, <2>2, <3>2, LeavesByReturn
    <3> QED
      BY <3>1, <3>2, ReturnsFlags
  <2> QED
    BY <1>1, <2>1, <2>2
<1> QED
  BY <1>1, EventInductive, PTL DEF EventSpec, ReturnsWhatItWaitedFor

\* An event that was posted and not cancelled is queued or about to be handled.
THEOREM EventsKept == EventSpec => []NoLostEvent
<1>1. EventInv => NoLostEvent
  BY DEF EventInv
<1> QED
  BY <1>1, EventInductive, PTL

\* While the owner is blocked in event_wait_multi() and a queue is not empty, a
\* thread is about to set the owner's flag.
THEOREM WakeupsKept == EventSpec => []NoLostWakeup
<1>1. EventInv => NoLostWakeup
  <2> SUFFICES ASSUME EventInv, sched.status[Owner] = "FLAG_BLOCKED_ANY",
                      at[Owner] = "wait", \E q \in Queues : ~Empty(q)
               PROVE  \E t \in Threads : at[t] = "flag"
    BY DEF NoLostWakeup
  <2>1. /\ inside[Owner] # Outside
        /\ flags[Owner] \cap inside[Owner].mask = {}
    BY EventFlags DEF EventInv, FlagInv, WaitOk, FlagBlocked
  <2>2. THREAD_FLAG_EVENT \notin flags[Owner]
    BY <2>1 DEF EventInv, OwnerPlace
  <2> QED
    BY <2>1, <2>2 DEF EventInv, Announced, GoesToWait
<1> QED
  BY <1>1, EventInductive, PTL

\* With an owner of the highest priority, the link of an event tells whether it
\* is queued, no event is queued twice, and the one being unlinked is not.
THEOREM LinksTell == ASSUME OwnerIsHighest PROVE EventSpec => []LinksExact
<1>1. EventInit => LinkInv
  <2> SUFFICES ASSUME EventInit PROVE LinkInv
    OBVIOUS
  <2> DEFINE s == [status |-> [t \in Threads |-> "PENDING"],
                   priority |-> Priority,
                   runqueues |-> Runqueues,
                   bitcache |-> {p \in Prios : Runqueues[p] # << >>},
                   active |-> NoThread,
                   request |-> FALSE, pendsv |-> FALSE, idle |-> FALSE,
                   call |-> [t \in Threads |-> NoCall],
                   fault |-> FALSE]
  <2>1. sched = sched_run_next(s, NoThread)
    BY DEF EventInit, Init, Booted
  <2>2. /\ \A t \in Threads, p \in Prios : Occurs(Runqueues[p], t) <=> Priority[t] = p
        /\ \A p \in Prios : NoDup(Runqueues[p])
    BY KernelAssumption DEF Occurs, NoDup
  <2>3. /\ Threads # {} /\ Priority \in [Threads -> Prios]
        /\ Runqueues \in [Prios -> Seq(Threads)]
    BY KernelAssumption
  <2>4. s \in SchedState
    BY <2>3, CallTypes DEF SchedState, Status, OnRunqueue
  <2>5. /\ s.status = [t \in Threads |-> "PENDING"] /\ s.priority = Priority
        /\ s.runqueues = Runqueues /\ s.bitcache = {p \in Prios : Runqueues[p] # << >>}
        /\ s.call = [t \in Threads |-> NoCall]
    OBVIOUS
  <2> HIDE DEF s
  <2>6. \A x \in Threads : on_runqueue(s, x)
    BY <2>5 DEF on_runqueue, OnRunqueue
  <2>7. RunqueueExact(s)
    BY <2>2, <2>5, <2>6, ExactRunqueues
  <2>8. s.bitcache # {} /\ \A t \in Threads : s.call[t].op \in {"none", "yield"}
    BY <2>3, <2>4, <2>5, <2>6, <2>7, OnItsQueue, CallTypes
  <2>9. OwnerFirst(sched)
    BY <2>1, <2>4, <2>5, <2>7, <2>8, OwnerChosen
  <2>10. ~Unlinking /\ \A e : ~Queued(e)
    BY EventFlags DEF EventInit, Unlinking, Queued
  <2>11. LinksExact
    BY <2>10 DEF EventInit, LinksExact, NoDup, Occurs
  <2> QED
    BY <2>9, <2>10, <2>11 DEF LinkInv
<1>2. EventInv /\ LinkInv /\ [EventNext]_allvars => LinkInv'
  <2> SUFFICES ASSUME EventInv, LinkInv, [EventNext]_allvars PROVE LinkInv'
    OBVIOUS
  <2>1. CASE UNCHANGED allvars
    BY <2>1 DEF allvars, LinkInv, LinksExact, Unlinking, Queued
  <2>2. CASE EventNext
    <3>1. /\ OwnerFirst(sched')
          /\ Unlinking /\ Unlinking' => on_runqueue(sched', Owner)
      BY <2>2, OwnerStays DEF LinkInv
    <3>2. LinksExact' /\ BeginsToUnlink
      BY <2>2, LinksKeep
    <3>3. Running(Owner) => on_runqueue(sched, Owner)
      BY RunningThread, EventFlags DEF EventInv, FlagInv
    <3> QED
      BY <3>1, <3>2, <3>3 DEF LinkInv, BeginsToUnlink
  <2> QED
    BY <2>1, <2>2
<1>3. LinkInv => LinksExact
  BY DEF LinkInv
<1> QED
  BY <1>1, <1>2, <1>3, EventInductive, PTL DEF EventSpec
=============================================================================
