------------------------------- MODULE Event -------------------------------
(***************************************************************************)
(* Event queues (sys/event/event.c) on top of thread flags: events are     *)
(* posted by threads and handlers, cancelled by threads, and taken by the  *)
(* one that owns the queues, which waits with or without a timeout.        *)
(* A post pushes the event and then, with interrupts enabled again, sets   *)
(* the owner's flag; a get takes the event from the list and then clears   *)
(* its link, whose value tells whether the event is queued.                *)
(***************************************************************************)
EXTENDS ThreadFlags, FiniteSets

CONSTANTS
    Owner,      \* the thread that claims the queues
    NQueues,    \* the queues, in the order event_wait_multi() looks at them
    Events,
    NoEvent

THREAD_FLAG_EVENT == 0
THREAD_FLAG_TIMEOUT == 1

Queues == 1 .. NQueues

ASSUME EventAssumption ==
    /\ Owner \in Threads
    /\ NQueues \in Nat \ {0}
    /\ NoEvent \notin Events
    /\ NFlags >= 2

VARIABLES
    event_list, \* event_queue_t::event_list
    linked,     \* event_t::list_node.next is not NULL
    waiter,     \* event_queue_t::waiter is the owner: the queues are claimed
    at,         \* the step of a function of the module a thread comes to next
    result,     \* the event the owner has taken and not yet handled
    timer,      \* the timer of event_wait_timeout_ztimer() is set
    wait_flags, \* history: the flags the waits of _wait_timeout() have returned,
                \* {} outside of it
    pending     \* history: the events posted since they were last handled or
                \* cancelled

evars == <<event_list, linked, waiter, at, result, timer, wait_flags, pending>>
allvars == <<sched, flags, inside, event_list, linked, waiter, at, result,
             timer, wait_flags, pending>>

EventInit ==
    /\ Init
    /\ event_list = [q \in Queues |-> << >>]
    /\ linked = [e \in Events |-> FALSE]
    /\ waiter = FALSE
    /\ at = [t \in Threads |-> "none"]
    /\ result = NoEvent
    /\ timer = FALSE
    /\ wait_flags = {}
    /\ pending = {}

At(t, l) == Running(t) /\ at[t] = l

Goto(t, l) == at' = [at EXCEPT ![t] = l]

Queued(e) == \E q \in Queues : \E i \in DOMAIN event_list[q] : event_list[q][i] = e

-----------------------------------------------------------------------------
(* Posting and cancelling *)

\* event_queues_claim() by the owner.
event_queues_claim ==
    /\ At(Owner, "none")
    /\ ~waiter
    /\ waiter' = TRUE
    /\ UNCHANGED <<vars, event_list, linked, at, result, timer, wait_flags, pending>>

\* The critical section of event_post().
post_section(q, e) ==
    /\ IF linked[e] THEN UNCHANGED <<event_list, linked>>
       ELSE /\ event_list' = [event_list EXCEPT ![q] = Append(@, e)]
            /\ linked' = [linked EXCEPT ![e] = TRUE]
    /\ pending' = pending \cup {e}

event_post(t, q, e) ==
    /\ At(t, "none")
    /\ post_section(q, e)
    /\ Goto(t, IF waiter THEN "flag" ELSE "none")
    /\ UNCHANGED <<vars, waiter, result, timer, wait_flags>>

post_sets_flag(t) ==
    /\ At(t, "flag")
    /\ thread_flags_set(t, Owner, {THREAD_FLAG_EVENT})
    /\ Goto(t, "none")
    /\ UNCHANGED <<event_list, linked, waiter, result, timer, wait_flags, pending>>

IsrPost(q, e) ==
    /\ post_section(q, e)
    /\ IF waiter THEN IsrSet(Owner, {THREAD_FLAG_EVENT}) ELSE UNCHANGED vars
    /\ UNCHANGED <<waiter, at, result, timer, wait_flags>>

\* clist_remove() changes nothing when the event is not in the list.
clist_remove(list, e) ==
    IF \E i \in DOMAIN list : list[i] = e THEN list_remove(list, e) ELSE list

cancel_section(q, e) ==
    /\ event_list' = [event_list EXCEPT ![q] = clist_remove(@, e)]
    /\ linked' = [linked EXCEPT ![e] = FALSE]
    /\ pending' = IF result = e THEN pending ELSE pending \ {e}

\* The caller names the queue the event is in, if it is in one.
event_cancel(t, q, e) ==
    /\ At(t, "none")
    /\ \A p \in Queues \ {q} : \A i \in DOMAIN event_list[p] : event_list[p][i] # e
    /\ cancel_section(q, e)
    /\ UNCHANGED <<vars, waiter, at, result, timer, wait_flags>>

-----------------------------------------------------------------------------
(* Taking events *)

\* clist_lpop(): the link of the event keeps its value.
lpop(q) ==
    /\ event_list[q] # << >>
    /\ result' = Head(event_list[q])
    /\ event_list' = [event_list EXCEPT ![q] = Tail(@)]

Empty(q) == event_list[q] = << >>

\* event_get() by the owner; without an event it changes nothing.
event_get(q) ==
    /\ At(Owner, "none")
    /\ lpop(q)
    /\ Goto(Owner, "unlink")
    /\ UNCHANGED <<vars, linked, waiter, timer, wait_flags, pending>>

\* event_wait_multi(): the first queue with an event, or the flag.
event_wait_multi ==
    /\ (At(Owner, "none") /\ waiter) \/ At(Owner, "wait")
    /\ \/ \E q \in Queues :
             /\ \A p \in 1 .. q - 1 : Empty(p)
             /\ lpop(q)
             /\ Goto(Owner, "unlink")
             /\ UNCHANGED vars
       \/ /\ \A q \in Queues : Empty(q)
          /\ Goto(Owner, "wait for flag")
          /\ UNCHANGED <<vars, event_list, result>>
    /\ UNCHANGED <<linked, waiter, timer, wait_flags, pending>>

\* Mutant of wait_for_flag: an old flag is cleared before the wait.
wait_for_flag_cleared ==
    /\ At(Owner, "wait for flag")
    /\ inside' = [inside EXCEPT ![Owner] =
                     [fn |-> "any", mask |-> {THREAD_FLAG_EVENT}, tmp |-> {}]]
    /\ flags' = [flags EXCEPT ![Owner] = @ \ {THREAD_FLAG_EVENT}]
    /\ sched' = [sched_set_status(sched, Owner, "FLAG_BLOCKED_ANY")
                    EXCEPT !.call[Owner] = CallYield]
    /\ Goto(Owner, "wait")
    /\ UNCHANGED <<event_list, linked, waiter, result, timer, wait_flags, pending>>

wait_for_flag ==
    /\ At(Owner, "wait for flag")
    /\ thread_flags_wait_any(Owner, {THREAD_FLAG_EVENT})
    /\ Goto(Owner, "wait")
    /\ UNCHANGED <<event_list, linked, waiter, result, timer, wait_flags, pending>>

\* event_wait_timeout_ztimer(): the flag is cleared, the timer is set.
event_wait_timeout ==
    /\ At(Owner, "none") /\ waiter
    /\ ~timer
    /\ thread_flags_clear(Owner, {THREAD_FLAG_TIMEOUT})
    /\ timer' = TRUE
    /\ wait_flags' = {}
    /\ Goto(Owner, "timed get")
    /\ UNCHANGED <<event_list, linked, waiter, result, pending>>

\* _wait_timeout(): event_get(), in one queue.
timed_get ==
    /\ At(Owner, "timed get")
    /\ \/ /\ lpop(1)
          /\ Goto(Owner, "timed unlink")
          /\ wait_flags' = {}
       \/ /\ Empty(1)
          /\ Goto(Owner, "timed wait")
          /\ UNCHANGED <<event_list, result, wait_flags>>
    /\ UNCHANGED <<vars, linked, waiter, timer, pending>>

\* Mutant of timed_wait: the wait is for events only.
timed_wait_event ==
    /\ At(Owner, "timed wait")
    /\ thread_flags_wait_any(Owner, {THREAD_FLAG_EVENT})
    /\ UNCHANGED evars

timed_wait ==
    /\ At(Owner, "timed wait")
    /\ thread_flags_wait_any(Owner, {THREAD_FLAG_EVENT, THREAD_FLAG_TIMEOUT})
    /\ UNCHANGED evars

\* The wait for a flag returns: with the flag of an event the owner looks
\* again, with that of the timer alone it returns NULL.
wait_flag_returns ==
    /\ wait_returns(Owner)
    /\ CASE at[Owner] = "timed wait" /\ THREAD_FLAG_EVENT \in flags[Owner] ->
               Goto(Owner, "timed get") /\ wait_flags' = wait_flags \cup Returned(Owner)
         [] at[Owner] = "timed wait" /\ THREAD_FLAG_EVENT \notin flags[Owner] ->
               Goto(Owner, "none") /\ wait_flags' = {}
         [] OTHER -> UNCHANGED <<at, wait_flags>>
    /\ UNCHANGED <<event_list, linked, waiter, result, timer, pending>>

\* Mutant of unlinks: the link keeps its value.
unlinks_not ==
    /\ At(Owner, "unlink") \/ At(Owner, "timed unlink")
    /\ timer' = (timer /\ at[Owner] # "timed unlink")
    /\ Goto(Owner, "handle")
    /\ UNCHANGED <<vars, event_list, linked, waiter, result, wait_flags, pending>>

\* list_node.next = NULL, with interrupts enabled, and the ztimer_remove() of
\* a timed wait.
unlinks ==
    /\ At(Owner, "unlink") \/ At(Owner, "timed unlink")
    /\ linked' = [linked EXCEPT ![result] = FALSE]
    /\ timer' = (timer /\ at[Owner] # "timed unlink")
    /\ Goto(Owner, "handle")
    /\ UNCHANGED <<vars, event_list, waiter, result, wait_flags, pending>>

\* The owner calls the event's handler.
handles ==
    /\ At(Owner, "handle")
    /\ pending' = IF Queued(result) THEN pending ELSE pending \ {result}
    /\ result' = NoEvent
    /\ Goto(Owner, "none")
    /\ UNCHANGED <<vars, event_list, linked, waiter, timer, wait_flags>>

\* The handler of the timer sets the owner's flag.
TimerExpires ==
    /\ timer
    /\ IsrSet(Owner, {THREAD_FLAG_TIMEOUT})
    /\ timer' = FALSE
    /\ UNCHANGED <<event_list, linked, waiter, at, result, wait_flags, pending>>

-----------------------------------------------------------------------------
\* The steps of the owner inside the functions of this module.
OwnerProceeds ==
    \/ event_wait_multi /\ at[Owner] = "wait"
    \/ wait_for_flag
    \/ wait_flag_returns /\ at[Owner] # "none"
    \/ timed_get \/ timed_wait
    \/ unlinks \/ handles

\* Thread flags used outside of them: the owner waits for its own in every way,
\* the others set them.
FlagStep(t) ==
    /\ at[t] = "none"
    /\ \/ t = Owner /\ ThreadStep(t)
       \/ t # Owner /\ (Sleep(t) \/ \E mask \in Masks : thread_flags_set(t, Owner, mask))
    /\ UNCHANGED evars

EventNext ==
    \/ Kernel /\ UNCHANGED evars
    \/ \E t \in Threads :
          \/ FlagStep(t)
          \/ Wakeup(t) /\ UNCHANGED evars
          \/ post_sets_flag(t)
          \/ \E q \in Queues, e \in Events : event_post(t, q, e) \/ event_cancel(t, q, e)
    \/ event_queues_claim
    \/ \E q \in Queues : event_get(q)
    \/ event_wait_multi /\ at[Owner] = "none"
    \/ event_wait_timeout
    \/ OwnerProceeds
    \/ \E q \in Queues, e \in Events : IsrPost(q, e)
    \/ TimerExpires

EventSpec == EventInit /\ [][EventNext]_allvars

\* The CPU goes on, and a thread that has it does not stop inside a call.
EventFairSpec ==
    /\ EventSpec
    /\ WF_allvars(Kernel /\ UNCHANGED evars)
    /\ WF_allvars(OwnerProceeds)
    /\ WF_allvars(at[Owner] = "none" /\ UNCHANGED evars
                     /\ (wait_one_reads(Owner) \/ wait_returns(Owner)))

-----------------------------------------------------------------------------
(* Properties *)

\* No event is lost: an event that was posted and not cancelled is queued, or
\* is the one whose handler the owner is about to call, even when it is posted
\* between the two steps of a get.
NoLostEvent == \A e \in pending : Queued(e) \/ result = e

\* No wakeup is lost: while the owner is blocked in event_wait_multi() and a
\* queue is not empty, a thread is about to set the owner's flag.
NoLostWakeup ==
    sched.status[Owner] = "FLAG_BLOCKED_ANY" /\ at[Owner] = "wait"
        /\ (\E q \in Queues : ~Empty(q)) =>
            \E t \in Threads : at[t] = "flag"

InTimedWait == at[Owner] \in {"timed get", "timed wait"}

\* The flag of the timer was returned together with the flag of an event, no
\* event was found, and the call waits again with no timer set.
TimeoutForgotten ==
    /\ at[Owner] = "timed wait"
    /\ THREAD_FLAG_TIMEOUT \in wait_flags
    /\ ~timer /\ THREAD_FLAG_TIMEOUT \notin flags[Owner]

\* event_wait_timeout_ztimer() returns once its timer has expired, unless it
\* has forgotten the timeout; and it returns, even then, once an event is in
\* its queue and whoever posted it has set the flag.
TimedWaitReturns ==
    /\ InTimedWait /\ ~timer ~> ~InTimedWait \/ TimeoutForgotten
    /\ InTimedWait /\ ~Empty(1) /\ (\A t \in Threads : at[t] # "flag") ~> ~InTimedWait
=============================================================================
