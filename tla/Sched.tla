------------------------------- MODULE Sched -------------------------------
(***************************************************************************)
(* The scheduler of RIOT (core/sched.c): one run queue per priority, a     *)
(* bit cache of the non-empty ones, the active thread, and the flag an     *)
(* interrupt handler raises to ask for a switch.                           *)
(*                                                                         *)
(* Kernel functions run with interrupts disabled, so what one of them does *)
(* between irq_disable() and irq_restore() is one atomic step.  They are   *)
(* written here as operators from a scheduler state s to the next one, so  *)
(* that a caller's critical section (a mutex unlock that wakes a waiter    *)
(* and puts the caller to sleep, say) composes them into one action.  The  *)
(* variable sched holds the current state.                                 *)
(*                                                                         *)
(* What a thread does AFTER irq_restore() is a step of its own, since      *)
(* interrupts come in between: thread_yield_higher() and sched_switch()    *)
(* are recorded in s.call[t] and taken by SchedCall(t).                    *)
(*                                                                         *)
(* The CPU is modelled after Cortex-M: thread_yield_higher() only pends    *)
(* the PendSV exception (s.pendsv), which runs sched_run() once no other   *)
(* handler is active.  Without an idle thread sched_run() itself waits for *)
(* a runnable thread with interrupts open (s.idle).                        *)
(***************************************************************************)
EXTENDS Integers, Sequences

CONSTANTS
    Threads,    \* thread control blocks, thread_t
    NoThread,   \* the NULL thread_t pointer
    Idle,       \* the idle thread, or NoThread without MODULE_CORE_IDLE_THREAD
    NPrio       \* SCHED_PRIO_LEVELS; 0 is the highest priority

ASSUME SchedAssumption ==
    /\ NPrio \in Nat \ {0}
    /\ NoThread \notin Threads
    /\ Idle \in Threads \cup {NoThread}

VARIABLE sched

Prios == 0 .. NPrio - 1

OnRunqueue == {"RUNNING", "PENDING"}

BlockedStatus ==
    {"STOPPED", "ZOMBIE", "SLEEPING", "MUTEX_BLOCKED", "RECEIVE_BLOCKED",
     "SEND_BLOCKED", "REPLY_BLOCKED", "FLAG_BLOCKED_ANY", "FLAG_BLOCKED_ALL",
     "MBOX_BLOCKED", "COND_BLOCKED"}

Status == BlockedStatus \cup OnRunqueue

\* What a thread still has to call after its critical section.
Calls == [op : {"none", "thread_yield", "yield", "reply_yield", "switch",
                "switch_to"},
          prio : Prios, to : Threads \cup {NoThread}]
Call(op) == [op |-> op, prio |-> 0, to |-> NoThread]
NoCall == Call("none")
CallThreadYield == Call("thread_yield")
CallYield == Call("yield")
\* thread_yield_higher(), if the status still is STATUS_REPLY_BLOCKED.
CallReplyYield == Call("reply_yield")
\* sched_switch(u->priority), where the priority is read at the call.
CallSwitchTo(u) == [Call("switch_to") EXCEPT !.to = u]
CallSwitch(p) == [Call("switch") EXCEPT !.prio = p]

SchedState ==
    [status : [Threads -> Status],
     priority : [Threads -> Prios],
     runqueues : [Prios -> Seq(Threads)],
     bitcache : SUBSET Prios,
     active : Threads \cup {NoThread},
     request : BOOLEAN,      \* sched_context_switch_request
     pendsv : BOOLEAN,       \* the PendSV exception is pending
     idle : BOOLEAN,         \* inside the idle loop of sched_run()
     call : [Threads -> Calls],
     fault : BOOLEAN]        \* sched_active_thread was dereferenced while NULL

-----------------------------------------------------------------------------
(* Run queues *)

on_runqueue(s, t) == s.status[t] \in OnRunqueue

runqueue_push(s, t, p) ==
    [s EXCEPT !.runqueues[p] = Append(@, t),
              !.bitcache = @ \cup {p}]

\* Mutant of runqueue_pop: the bit of a queue that becomes empty stays set.
runqueue_pop_keeps_bit(s, t) ==
    LET p == s.priority[t]
    IN  [s EXCEPT !.runqueues[p] = IF @ = << >> THEN << >> ELSE Tail(@)]

\* clist_lpop() of the queue of t's priority: its head leaves, whoever it is.
runqueue_pop(s, t) ==
    LET p == s.priority[t]
        rest == IF s.runqueues[p] = << >> THEN << >> ELSE Tail(s.runqueues[p])
    IN  [s EXCEPT !.runqueues[p] = rest,
                  !.bitcache = IF rest = << >> THEN @ \ {p} ELSE @]

\* clist_lpoprpush(): the head of the queue of priority p becomes its tail.
sched_runq_advance(s, p) ==
    IF s.runqueues[p] = << >>
    THEN s
    ELSE [s EXCEPT !.runqueues[p] = Append(Tail(@), Head(@))]

sched_set_status(s, t, st) ==
    LET moved == IF st \in OnRunqueue
                 THEN IF on_runqueue(s, t) THEN s
                      ELSE runqueue_push(s, t, s.priority[t])
                 ELSE IF on_runqueue(s, t) THEN runqueue_pop(s, t)
                      ELSE s
    IN  [moved EXCEPT !.status[t] = st]

-----------------------------------------------------------------------------
(* Choosing the next thread *)

unschedule(s, t) ==
    IF s.status[t] = "RUNNING" THEN [s EXCEPT !.status[t] = "PENDING"] ELSE s

get_prio_queue_from_runqueue(s) ==
    CHOOSE p \in s.bitcache : \A q \in s.bitcache : p <= q

\* The second half of sched_run(); prev is its local active_thread, which is
\* NULL when it comes out of the idle loop.
sched_run_next(s, prev) ==
    LET next == Head(s.runqueues[get_prio_queue_from_runqueue(s)])
        run  == [s EXCEPT !.request = FALSE, !.status[next] = "RUNNING"]
        off  == IF s.active # next /\ prev # NoThread
                THEN unschedule(run, prev) ELSE run
    IN  [off EXCEPT !.active = next]

sched_run(s) ==
    IF Idle = NoThread /\ s.bitcache = {}
    THEN [IF s.active # NoThread THEN unschedule(s, s.active) ELSE s
            EXCEPT !.idle = TRUE]
    ELSE sched_run_next(s, s.active)

thread_yield_higher(s) == [s EXCEPT !.pendsv = TRUE]

\* Mutant of SwitchNeeded: the priorities are not compared.
SwitchNeeded_if_blocked(s, other_prio) == ~on_runqueue(s, s.active)

SwitchNeeded(s, other_prio) ==
    ~on_runqueue(s, s.active) \/ s.priority[s.active] > other_prio

\* sched_switch() called by a thread, which then is the active one.
sched_switch(s, other_prio) ==
    IF SwitchNeeded(s, other_prio) THEN thread_yield_higher(s) ELSE s

\* sched_switch() called by an interrupt handler.  The active thread may be
\* NULL; what is then read from address 0 is garbage, and the outcome open.
sched_switch_isr(s, other_prio, garbage) ==
    IF s.active = NoThread
    THEN [s EXCEPT !.fault = TRUE, !.request = @ \/ garbage]
    ELSE [s EXCEPT !.request = @ \/ SwitchNeeded(s, other_prio)]

\* The critical section of thread_wakeup(): the status is set to RUNNING.
wakeup(s, u) == sched_set_status(s, u, "RUNNING")

\* Mutant of cortexm_isr_end: the request of the handler is not looked at.
cortexm_isr_end_ignores(s) == s

\* The end of every interrupt handler.
cortexm_isr_end(s) == IF s.request THEN thread_yield_higher(s) ELSE s

\* The critical section of sched_task_exit() by t, which is active, without
\* the thread table.  cpu_switch_context_exit() then enables interrupts and
\* pends PendSV; a handler that comes before it finds no active thread.
task_exit(s, t) ==
    thread_yield_higher([sched_set_status(s, t, "STOPPED")
                            EXCEPT !.active = NoThread])

\* Changes t's priority; the caller has interrupts disabled.  The trailing
\* thread_yield_higher() pends PendSV.
sched_change_priority(s, t, p) ==
    LET moved == IF on_runqueue(s, t)
                 THEN runqueue_push(runqueue_pop(s, t), t, p)
                 ELSE s
        set   == [moved EXCEPT !.priority[t] = p]
        yield == \/ set.active = t
                 \/ /\ set.active # NoThread
                    /\ set.priority[set.active] > p
                    /\ on_runqueue(set, t)
    IN  IF s.priority[t] = p THEN s
        ELSE IF yield THEN thread_yield_higher(set) ELSE set

-----------------------------------------------------------------------------
(* Wait lists: sequences of threads, sorted by priority *)

\* Mutant of thread_add_to_list: before the entries of the same priority.
thread_add_to_list_first(s, list, t) ==
    LET after == {i \in DOMAIN list : s.priority[list[i]] >= s.priority[t]}
        pos   == IF after = {} THEN Len(list) + 1
                 ELSE CHOOSE i \in after : \A j \in after : i <= j
    IN  SubSeq(list, 1, pos - 1) \o <<t>> \o SubSeq(list, pos, Len(list))

\* thread_add_to_list(): before the first entry of strictly lower priority.
thread_add_to_list(s, list, t) ==
    LET after == {i \in DOMAIN list : s.priority[list[i]] > s.priority[t]}
        pos   == IF after = {} THEN Len(list) + 1
                 ELSE CHOOSE i \in after : \A j \in after : i <= j
    IN  SubSeq(list, 1, pos - 1) \o <<t>> \o SubSeq(list, pos, Len(list))

\* list_remove() of a thread that is on the list.
list_remove(list, t) ==
    LET i == CHOOSE i \in DOMAIN list : list[i] = t
    IN  SubSeq(list, 1, i - 1) \o SubSeq(list, i + 1, Len(list))

-----------------------------------------------------------------------------
(* The steps of the kernel that no operation below takes itself *)

\* The CPU executes t's code, with interrupts enabled.
OnCpu(t) == sched.active = t /\ ~sched.pendsv /\ ~sched.idle

\* t executes application code: it is between two kernel calls.
Executing(t) == OnCpu(t) /\ sched.call[t] = NoCall

\* The critical section of thread_yield() by t; thread_yield_higher() is left.
yield_section(s, t) ==
    [IF on_runqueue(s, t) THEN sched_runq_advance(s, s.priority[t]) ELSE s
        EXCEPT !.call[t] = CallYield]

\* t makes the call it has left after its critical section.
SchedCall(t) ==
    /\ OnCpu(t)
    /\ LET s == [sched EXCEPT !.call[t] = NoCall]
       IN  \/ /\ sched.call[t].op = "yield"
              /\ sched' = thread_yield_higher(s)
           \/ /\ sched.call[t].op = "switch"
              /\ sched' = sched_switch(s, sched.call[t].prio)
           \/ /\ sched.call[t].op = "switch_to"
              /\ sched' = sched_switch(s, s.priority[sched.call[t].to])
           \/ /\ sched.call[t].op = "reply_yield"
              /\ sched' = IF s.status[t] = "REPLY_BLOCKED"
                          THEN thread_yield_higher(s) ELSE s
           \/ /\ sched.call[t].op = "thread_yield"
              /\ sched' = yield_section(s, t)

\* The PendSV exception is taken.
PendSV ==
    /\ sched.pendsv
    /\ ~sched.idle
    /\ sched' = sched_run([sched EXCEPT !.pendsv = FALSE])

\* The idle loop of sched_run() finds a run queue that is not empty.
IdleWake ==
    /\ sched.idle
    /\ sched.bitcache # {}
    /\ sched' = sched_run_next([sched EXCEPT !.idle = FALSE], NoThread)

KernelStep == PendSV \/ IdleWake \/ \E t \in Threads : SchedCall(t)

-----------------------------------------------------------------------------
(* What a scheduler state must satisfy *)

InQueue(s, t, p) == \E i \in DOMAIN s.runqueues[p] : s.runqueues[p][i] = t

\* A thread is on the run queue of its priority, once, if and only if its
\* status says so (STATUS_ON_RUNQUEUE), and on no other; the bit cache
\* names exactly the queues that are not empty.
RunqueueExact(s) ==
    /\ \A t \in Threads, p \in Prios :
           InQueue(s, t, p) <=> on_runqueue(s, t) /\ s.priority[t] = p
    /\ \A p \in Prios : \A i, j \in DOMAIN s.runqueues[p] :
           s.runqueues[p][i] = s.runqueues[p][j] => i = j
    /\ s.bitcache = {p \in Prios : s.runqueues[p] # << >>}
=============================================================================
