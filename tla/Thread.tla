------------------------------- MODULE Thread -------------------------------
(***************************************************************************)
(* The life of threads (core/thread.c, sched_task_exit() of core/sched.c): *)
(* creation in a caller-supplied stack, sleep and wakeup, yield, zombies,  *)
(* exit, change of priority, and interrupt handlers that wake threads.     *)
(*                                                                         *)
(* A member of Threads is a stack area with the control block at its top;  *)
(* the application may create a thread in it while no thread lives there.  *)
(***************************************************************************)
EXTENDS Sched, FiniteSets

CONSTANTS
    Main,           \* the thread kernel_init() starts
    MainPrio,       \* THREAD_PRIORITY_MAIN
    MaxPid,         \* KERNEL_PID_LAST, i.e. MAXTHREADS
    ChangeOthers    \* threads also call sched_change_priority() on others

Pids == 1 .. MaxPid
NoPid == 0          \* KERNEL_PID_UNDEF

ASSUME ThreadAssumption ==
    /\ Main \in Threads \ {Idle}
    /\ MainPrio \in Prios
    /\ MainPrio < NPrio - 1
    /\ MaxPid \in Nat
    /\ MaxPid >= 2
    /\ ChangeOthers \in BOOLEAN

VARIABLES
    sched_threads,      \* pid -> control block, NoThread for a free slot
    sched_num_threads,
    pid,                \* thread_t::pid
    noyield             \* history: a THREAD_CREATE_WOUT_YIELD thread was
                        \* created since sched_run() last chose a thread

tvars == <<sched_threads, sched_num_threads, pid>>
vars == <<sched, sched_threads, sched_num_threads, pid, noyield>>

\* THREAD_CREATE_SLEEPING, THREAD_CREATE_WOUT_YIELD or neither
Flags == {"SLEEPING", "WOUT_YIELD", "NONE"}

\* kernel_init() has created the idle thread, if any, and then the main
\* thread, and the scheduler has started main.
kernel_init ==
    [status |-> [t \in Threads |-> IF t = Main THEN "RUNNING"
                                   ELSE IF t = Idle THEN "PENDING"
                                   ELSE "STOPPED"],
     priority |-> [t \in Threads |-> IF t = Main THEN MainPrio
                                     ELSE NPrio - 1],
     runqueues |-> [p \in Prios |->
                       IF p = MainPrio THEN <<Main>>
                       ELSE IF p = NPrio - 1 /\ Idle # NoThread THEN <<Idle>>
                       ELSE << >>],
     bitcache |-> {MainPrio} \cup {p \in {NPrio - 1} : Idle # NoThread},
     active |-> Main,
     request |-> FALSE, pendsv |-> FALSE, idle |-> FALSE,
     call |-> [t \in Threads |-> NoCall],
     fault |-> FALSE]

Booted == IF Idle = NoThread THEN <<Main>> ELSE <<Idle, Main>>

Init ==
    /\ sched = kernel_init
    /\ sched_threads = [i \in Pids |-> IF i \in DOMAIN Booted THEN Booted[i]
                                       ELSE NoThread]
    /\ sched_num_threads = Len(Booted)
    /\ pid = [t \in Threads |-> IF t = Main THEN Len(Booted)
                                ELSE IF t = Idle THEN 1 ELSE NoPid]
    /\ noyield = FALSE

-----------------------------------------------------------------------------
(* Operations of the executing thread t *)

FreePids == {i \in Pids : sched_threads[i] = NoThread}

\* thread_create() in the stack area c, whose last thread has terminated.
\* Without a free slot it returns -EOVERFLOW and changes nothing.
thread_create(t, c, p, flag) ==
    /\ Executing(t) /\ t # Idle
    /\ sched.status[c] = "STOPPED"
    /\ FreePids # {}
    /\ LET i == CHOOSE i \in FreePids : \A j \in FreePids : i <= j
           new == [sched EXCEPT !.priority[c] = p, !.status[c] = "STOPPED",
                                !.call[c] = NoCall]
       IN  /\ sched_threads' = [sched_threads EXCEPT ![i] = c]
           /\ pid' = [pid EXCEPT ![c] = i]
           /\ sched_num_threads' = sched_num_threads + 1
           /\ sched' = CASE flag = "SLEEPING" ->
                                sched_set_status(new, c, "SLEEPING")
                         [] flag = "WOUT_YIELD" ->
                                sched_set_status(new, c, "PENDING")
                         [] flag = "NONE" ->
                                [sched_set_status(new, c, "PENDING")
                                    EXCEPT !.call[t] = CallSwitch(p)]
           /\ noyield' = (noyield \/ flag = "WOUT_YIELD")

thread_sleep(t) ==
    /\ Executing(t) /\ t # Idle
    /\ sched' = [sched_set_status(sched, t, "SLEEPING")
                    EXCEPT !.call[t] = CallYield]
    /\ UNCHANGED <<tvars, noyield>>

\* Mutant of Sleeper: a zombie counts as well.
Sleeper_or_zombie(i) == sched_threads[i] # NoThread
                        /\ sched.status[sched_threads[i]] \in {"SLEEPING", "ZOMBIE"}

Sleeper(i) == sched_threads[i] # NoThread
              /\ sched.status[sched_threads[i]] = "SLEEPING"

thread_wakeup(t, i) ==
    /\ Executing(t) /\ t # Idle
    /\ Sleeper(i)
    /\ LET u == sched_threads[i]
       IN  sched' = [wakeup(sched, u) EXCEPT !.call[t] = CallSwitchTo(u)]
    /\ UNCHANGED <<tvars, noyield>>

thread_yield(t) ==
    /\ Executing(t) /\ t # Idle
    /\ sched' = yield_section(sched, t)
    /\ UNCHANGED <<tvars, noyield>>

thread_zombify(t) ==
    /\ Executing(t) /\ t # Idle
    /\ sched' = [sched_set_status(sched, t, "ZOMBIE")
                    EXCEPT !.call[t] = CallYield]
    /\ UNCHANGED <<tvars, noyield>>

\* Mutant of release: the slot of the table is not cleared.
release_keeps_slot(u) ==
    /\ sched_num_threads' = sched_num_threads - 1
    /\ UNCHANGED <<sched_threads, pid>>

\* The control block leaves the table.
release(u) ==
    /\ sched_threads' = [sched_threads EXCEPT ![pid[u]] = NoThread]
    /\ sched_num_threads' = sched_num_threads - 1
    /\ UNCHANGED pid

thread_kill_zombie(t, i) ==
    /\ Executing(t) /\ t # Idle
    /\ sched_threads[i] # NoThread
    /\ sched.status[sched_threads[i]] = "ZOMBIE"
    /\ release(sched_threads[i])
    /\ sched' = sched_set_status(sched, sched_threads[i], "STOPPED")
    /\ UNCHANGED noyield

sched_task_exit(t) ==
    /\ Executing(t) /\ t # Idle
    /\ release(t)
    /\ sched' = task_exit(sched, t)
    /\ UNCHANGED noyield

change_priority(t, u, p) ==
    /\ Executing(t) /\ t # Idle
    /\ u # t => ChangeOthers /\ u # Idle /\ sched.status[u] # "STOPPED"
    /\ sched' = sched_change_priority(sched, u, p)
    /\ UNCHANGED <<tvars, noyield>>

-----------------------------------------------------------------------------
(* Interrupt handlers *)

\* A handler calls thread_wakeup().
IsrWakeup(i) ==
    /\ Sleeper(i)
    /\ \E garbage \in BOOLEAN :
         LET u == sched_threads[i]
         IN  sched' = cortexm_isr_end(
                 sched_switch_isr(wakeup(sched, u), sched.priority[u], garbage))
    /\ UNCHANGED <<tvars, noyield>>

\* sched_run(), and the calls that lead to it.
Kernel ==
    \/ /\ PendSV \/ IdleWake
       /\ noyield' = FALSE
       /\ UNCHANGED tvars
    \/ /\ \E t \in Threads : SchedCall(t)
       /\ UNCHANGED <<tvars, noyield>>

ThreadStep(t) ==
    \/ \E c \in Threads, p \in Prios, f \in Flags : thread_create(t, c, p, f)
    \/ thread_sleep(t)
    \/ \E i \in Pids : thread_wakeup(t, i)
    \/ thread_yield(t)
    \/ thread_zombify(t)
    \/ \E i \in Pids : thread_kill_zombie(t, i)
    \/ sched_task_exit(t)
    \/ \E u \in Threads, p \in Prios : change_priority(t, u, p)

Next ==
    \/ Kernel
    \/ \E i \in Pids : IsrWakeup(i)
    \/ \E t \in Threads : ThreadStep(t)

\* Exceptions that are pending are taken and code that has the CPU goes on:
\* fairness of the CPU itself.  Nothing is assumed of the application.
Spec == Init /\ [][Next]_vars /\ WF_vars(Kernel)

-----------------------------------------------------------------------------
(* Properties *)

\* Every variable holds a value of its type (thread_t, sched_threads[], the
\* scheduler's globals).
TypeOK ==
    /\ sched \in SchedState
    /\ sched_threads \in [Pids -> Threads \cup {NoThread}]
    /\ sched_num_threads \in 0 .. MaxPid
    /\ pid \in [Threads -> Pids \cup {NoPid}]
    /\ noyield \in BOOLEAN

\* `st >= STATUS_ON_RUNQUEUE` tells whether a thread is on the run queue of
\* its priority, although _runqueue_pop() removes the head of the queue and
\* never looks at the thread it is given.
StatusMatchesRunqueue == RunqueueExact(sched)

\* A thread that executes, or is about to call sched_switch(), is RUNNING and
\* is the head of its run queue: whatever it does next may pop it.
RunningIsHead ==
    \A t \in Threads :
        OnCpu(t) /\ sched.call[t].op \in {"none", "switch", "switch_to"} =>
            /\ sched.status[t] = "RUNNING"
            /\ sched.runqueues[sched.priority[t]] # << >>
            /\ Head(sched.runqueues[sched.priority[t]]) = t

\* While a thread executes application code no thread of higher priority is
\* runnable, except one created with THREAD_CREATE_WOUT_YIELD since the last
\* run of the scheduler.
HighestPriorityRuns ==
    \A t \in Threads : Executing(t) /\ ~noyield =>
        \A p \in sched.bitcache : sched.priority[t] <= p

\* The pid table: the threads that have not terminated are exactly the ones
\* in it, each in the slot its pid names, and sched_num_threads counts them.
ThreadTableExact ==
    /\ \A t \in Threads : sched.status[t] # "STOPPED" <=>
           pid[t] \in Pids /\ sched_threads[pid[t]] = t
    /\ \A i \in Pids : sched_threads[i] # NoThread => pid[sched_threads[i]] = i
    /\ sched_num_threads = Cardinality({i \in Pids : sched_threads[i] # NoThread})

\* The idle loop of sched_run() and a pending switch never leave the only
\* runnable thread of the highest priority waiting: it gets the CPU, unless
\* another thread of that priority or a higher one becomes runnable, or it
\* was created with THREAD_CREATE_WOUT_YIELD.
OnlyHighest(t) == on_runqueue(sched, t) /\ \A u \in Threads \ {t} :
    on_runqueue(sched, u) => sched.priority[u] > sched.priority[t]

HighestGetsCpu ==
    \A t \in Threads :
        OnlyHighest(t) ~> (sched.active = t \/ ~OnlyHighest(t) \/ noyield)

\* A terminated thread comes back only through thread_create(), and a zombie
\* only leaves the table: no wakeup, yield or switch revives either.
TerminatedStaysDown ==
    [][\A t \in Threads :
         /\ sched.status[t] = "ZOMBIE" => sched.status'[t] \in {"ZOMBIE", "STOPPED"}
         /\ sched.status[t] = "STOPPED" /\ sched.status'[t] # "STOPPED" =>
                sched_num_threads' = sched_num_threads + 1]_vars
=============================================================================
