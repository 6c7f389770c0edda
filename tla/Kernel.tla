------------------------------- MODULE Kernel -------------------------------
(***************************************************************************)
(* A booted system with a fixed set of threads, the setting of the modules *)
(* that model the blocking primitives: all threads have been created and   *)
(* are runnable, and the scheduler has chosen the first one.               *)
(***************************************************************************)
EXTENDS Sched

CONSTANTS
    Priority,   \* the priority each thread is created with
    Runqueues   \* the run queues the creations leave behind

ASSUME KernelAssumption ==
    /\ Threads # {}
    /\ Priority \in [Threads -> Prios]
    /\ Runqueues \in [Prios -> Seq(Threads)]
    /\ \A t \in Threads, p \in Prios :
           (\E i \in DOMAIN Runqueues[p] : Runqueues[p][i] = t)
               <=> Priority[t] = p
    /\ \A p \in Prios : \A i, j \in DOMAIN Runqueues[p] :
           Runqueues[p][i] = Runqueues[p][j] => i = j

Booted ==
    sched_run_next(
        [status |-> [t \in Threads |-> "PENDING"],
         priority |-> Priority,
         runqueues |-> Runqueues,
         bitcache |-> {p \in Prios : Runqueues[p] # << >>},
         active |-> NoThread,
         request |-> FALSE, pendsv |-> FALSE, idle |-> FALSE,
         call |-> [t \in Threads |-> NoCall],
         fault |-> FALSE],
        NoThread)

\* An interrupt handler whose body leaves s and calls sched_switch(p) ends.
IsrEnds(s, p) ==
    \E garbage \in BOOLEAN :
        sched' = cortexm_isr_end(sched_switch_isr(s, p, garbage))

\* t gives up the CPU: thread_sleep().
Sleeps(t) ==
    sched' = [sched_set_status(sched, t, "SLEEPING") EXCEPT !.call[t] = CallYield]

\* A handler, a timer's for instance, wakes a sleeping thread.
IsrWakes(u) ==
    /\ sched.status[u] = "SLEEPING"
    /\ IsrEnds(wakeup(sched, u), sched.priority[u])
=============================================================================
