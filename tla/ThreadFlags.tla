---------------------------- MODULE ThreadFlags ----------------------------
(***************************************************************************)
(* Thread flags (core/thread_flags.c): threads and interrupt handlers set  *)
(* bits of a thread, which waits for any, for one or for all bits of a     *)
(* mask and clears what it was waiting for.  A thread_flags_t is the set   *)
(* of the numbers of its bits, 0 being the least significant one.          *)
(***************************************************************************)
EXTENDS Kernel

CONSTANTS
    NFlags,     \* number of bits of thread_flags_t that are used
    Masks       \* the masks that are set, cleared and waited for

Bits == 0 .. NFlags - 1

ASSUME ThreadFlagsAssumption ==
    /\ NFlags \in Nat
    /\ Masks \subseteq SUBSET Bits

VARIABLES
    flags,      \* thread_t::flags
    inside      \* the wait function a thread is inside, with its argument,
                \* which is also in thread_t::wait_data while it is blocked;
                \* tmp is the local variable of thread_flags_wait_one()

fvars == <<flags, inside>>
vars == <<sched, flags, inside>>

Outside == [fn |-> "none", mask |-> {}, tmp |-> {}]

\* thread_create() does not initialise the flags: they are what the memory of
\* the control block happens to hold.
Init ==
    /\ sched = Booted
    /\ flags \in [Threads -> SUBSET Bits]
    /\ inside = [t \in Threads |-> Outside]

Running(t) == Executing(t) /\ inside[t] = Outside /\ t # Idle

-----------------------------------------------------------------------------
(* Setting *)

\* Mutant of Wakes: STATUS_FLAG_BLOCKED_ALL falls into the default case.
Wakes_any_only(u, f) ==
    sched.status[u] = "FLAG_BLOCKED_ANY" /\ f \cap inside[u].mask # {}

\* Mutant of Wakes: a wait for all flags ends with the first of them.
Wakes_on_any(u, f) ==
    /\ sched.status[u] \in {"FLAG_BLOCKED_ANY", "FLAG_BLOCKED_ALL"}
    /\ f \cap inside[u].mask # {}

\* The condition of _thread_flags_wake() for u with the flags f.
Wakes(u, f) ==
    \/ sched.status[u] = "FLAG_BLOCKED_ANY" /\ f \cap inside[u].mask # {}
    \/ sched.status[u] = "FLAG_BLOCKED_ALL" /\ inside[u].mask \subseteq f

\* Mutant of thread_flags_wake: no switch is requested.
thread_flags_wake_quietly(s, u) == sched_set_status(s, u, "PENDING")

thread_flags_wake(s, u) ==
    [sched_set_status(s, u, "PENDING") EXCEPT !.request = TRUE]

thread_flags_set(t, u, mask) ==
    /\ Running(t)
    /\ flags' = [flags EXCEPT ![u] = @ \cup mask]
    /\ sched' = IF Wakes(u, flags[u] \cup mask)
                THEN [thread_flags_wake(sched, u) EXCEPT !.call[t] = CallYield]
                ELSE sched
    /\ UNCHANGED inside

\* In a handler thread_yield_higher() pends PendSV, as does its end.
IsrSet(u, mask) ==
    /\ flags' = [flags EXCEPT ![u] = @ \cup mask]
    /\ sched' = IF Wakes(u, flags[u] \cup mask)
                THEN cortexm_isr_end(thread_flags_wake(sched, u))
                ELSE sched
    /\ UNCHANGED inside

-----------------------------------------------------------------------------
(* Waiting *)

\* _thread_flags_wait() in the function fn, when the flags do not suffice.
waits(t, fn, mask, status, enough) ==
    /\ inside' = [inside EXCEPT ![t] = [fn |-> fn, mask |-> mask, tmp |-> {}]]
    /\ \/ enough /\ UNCHANGED sched
       \/ /\ ~enough
          /\ sched' = [sched_set_status(sched, t, status)
                          EXCEPT !.call[t] = CallYield]
    /\ UNCHANGED flags

thread_flags_wait_any(t, mask) ==
    /\ Running(t)
    /\ waits(t, "any", mask, "FLAG_BLOCKED_ANY", flags[t] \cap mask # {})

thread_flags_wait_one(t, mask) ==
    /\ Running(t)
    /\ waits(t, "one", mask, "FLAG_BLOCKED_ANY", flags[t] \cap mask # {})

thread_flags_wait_all(t, mask) ==
    /\ Running(t)
    /\ waits(t, "all", mask, "FLAG_BLOCKED_ALL", mask \subseteq flags[t])

\* thread_flags_wait_one() reads the flags, with interrupts enabled, and
\* keeps the least significant bit.
LowestBit(f) == {b \in f : \A c \in f : b <= c}

wait_one_reads(t) ==
    /\ Executing(t)
    /\ inside[t].fn = "one"
    /\ inside' = [inside EXCEPT ![t] = [fn |-> "one_read", mask |-> @.mask,
                                        tmp |-> LowestBit(flags[t] \cap @.mask)]]
    /\ UNCHANGED <<sched, flags>>

\* _thread_flags_clear_atomic() of mask by t.
clear_atomic(t, mask) == flags' = [flags EXCEPT ![t] = @ \ mask]

\* A wait function clears what it waited for and returns it.
wait_returns(t) ==
    /\ Executing(t)
    /\ inside[t].fn \in {"any", "all", "one_read"}
    /\ clear_atomic(t, IF inside[t].fn = "one_read" THEN inside[t].tmp
                       ELSE inside[t].mask)
    /\ inside' = [inside EXCEPT ![t] = Outside]
    /\ UNCHANGED sched

thread_flags_clear(t, mask) ==
    /\ Running(t)
    /\ clear_atomic(t, mask)
    /\ UNCHANGED <<sched, inside>>

-----------------------------------------------------------------------------
Kernel == KernelStep /\ UNCHANGED fvars
Sleep(t) == Running(t) /\ Sleeps(t) /\ UNCHANGED fvars
Wakeup(t) == IsrWakes(t) /\ UNCHANGED fvars

ThreadStep(t) ==
    \/ wait_one_reads(t)
    \/ wait_returns(t)
    \/ Sleep(t)
    \/ \E mask \in Masks :
          \/ \E u \in Threads : thread_flags_set(t, u, mask)
          \/ thread_flags_wait_any(t, mask)
          \/ thread_flags_wait_one(t, mask)
          \/ thread_flags_wait_all(t, mask)
          \/ thread_flags_clear(t, mask)

-----------------------------------------------------------------------------
(* Properties *)

\* No flag is missed: a thread that is blocked waits for flags that are not
\* set, whatever threads and handlers set before and while it blocked.
BlockedIsUnmet ==
    \A t \in Threads :
        /\ sched.status[t] = "FLAG_BLOCKED_ANY" => flags[t] \cap inside[t].mask = {}
        /\ sched.status[t] = "FLAG_BLOCKED_ALL" => ~(inside[t].mask \subseteq flags[t])

\* The flags a wait function clears, and returns.
Returned(t) == flags[t] \ flags'[t]

\* A wait for any flag returns at least one of them, a wait for one exactly
\* one, and a wait for all returns its mask, although the flags are looked at
\* again, in another critical section, after the thread was woken.
ReturnsWhatItWaitedFor ==
    [][\A t \in Threads : inside[t] # Outside /\ inside'[t] = Outside =>
         /\ Returned(t) \subseteq inside[t].mask
         /\ inside[t].fn = "any" => Returned(t) # {}
         /\ inside[t].fn = "one_read" => \E b \in Bits : Returned(t) = {b}
         /\ inside[t].fn = "all" => Returned(t) = inside[t].mask]_vars

\* The flags that t is inside a wait function for are set.
Satisfied(t) ==
    /\ inside[t].fn # "none"
    /\ IF inside[t].fn = "all" THEN inside[t].mask \subseteq flags[t]
       ELSE flags[t] \cap inside[t].mask # {}

\* A thread that alone has the highest priority returns from a wait function
\* once the flags it waits for are set.
SatisfiedWaitReturns ==
    \A t \in Threads : (\A u \in Threads \ {t} : Priority[t] < Priority[u]) =>
        Satisfied(t) ~> inside[t] = Outside
=============================================================================
