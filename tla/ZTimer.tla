------------------------------- MODULE ZTimer -------------------------------
(***************************************************************************)
(* The timer multiplexer (sys/ztimer/core.c): any number of timers on one  *)
(* hardware counter with one alarm.  The timers that are set form a list   *)
(* in which each stores only the distance to the one before it; a counter  *)
(* of fewer bits than an unsigned is extended by checkpoints (ztimer with  *)
(* MODULE_ZTIMER_EXTEND); with OnDemand (MODULE_ZTIMER_ONDEMAND) the       *)
(* counter only runs while the clock has users.                            *)
(*                                                                         *)
(* Everything between irq_disable() and irq_restore() is one step, and the *)
(* counter advances between steps.  The alarm is taken late when it goes   *)
(* off while interrupts are disabled, and callbacks take time; delay       *)
(* counts the ticks lost that way since the handler last ended.            *)
(***************************************************************************)
EXTENDS Integers, Sequences

CONSTANTS
    Timers,         \* the ztimer_t objects of the application
    None,           \* no timer, no alarm
    Width,          \* bits of an unsigned
    MaxValue,       \* ztimer_clock_t::max_value, all ones
    Min,            \* least value the driver arms the alarm with
    OnDemand,       \* MODULE_ZTIMER_ONDEMAND
    AdjustSet,      \* ztimer_clock_t::adjust_set
    AdjustStart,    \* ztimer_clock_t::adjust_clock_start
    Intervals,      \* the intervals the application sets
    MaxUsers,       \* bound: ztimer_acquire() calls not yet released
    MaxDelay        \* bound: ticks from an alarm to the end of its handler

UINT == 2 ^ Width

ASSUME ZTimerAssumption ==
    /\ None \notin Timers \cup Int
    /\ Width \in Nat \ {0}
    /\ MaxValue \in {2 ^ k - 1 : k \in 1 .. Width}
    /\ Min \in Nat \ {0}
    /\ OnDemand \in BOOLEAN
    /\ AdjustSet \in Nat
    /\ AdjustStart \in Nat
    /\ Intervals \subseteq 0 .. UINT - 1
    /\ MaxUsers \in Nat
    /\ MaxDelay \in Nat
    /\ MaxValue < UINT - 1 => 2 * (MaxValue \div 2) + MaxDelay <= MaxValue

VARIABLES
    clock,      \* ztimer_clock_t, its timers and the alarm it has armed; and,
                \* as history, the ticks (modulo UINT) since it was last read
    lower,      \* the hardware counter
    entry,      \* the timer whose callback ztimer_handler() is running
    acquiring,  \* where a thread is inside ztimer_acquire()
    releases,   \* ztimer_set() calls that still have to release the clock
    acquired,   \* ztimer_acquire() calls not yet released
    due,        \* history: ticks until the interval of a timer is over, then -1
    delay       \* history: ticks the clock was held up since its last handler

vars == <<clock, lower, entry, acquiring, releases, acquired, due, delay>>

Extended == MaxValue < UINT - 1

half == MaxValue \div 2

min(a, b) == IF a < b THEN a ELSE b

\* ops->set() of the driver: in Min ticks at the earliest.
armed(c, val) == [c EXCEPT !.alarm = IF val < Min THEN Min ELSE val]

\* ops->cancel().
cancelled(c) == [c EXCEPT !.alarm = None]

-----------------------------------------------------------------------------
(* Reading the clock *)

add_modulo(a, b, mod) == IF a < b THEN a + mod + 1 - b ELSE a - b

\* The side effect of ztimer_now() on an extended clock.
checkpointed(c) ==
    IF Extended
    THEN [c EXCEPT !.checkpoint =
                      (@ + add_modulo(lower, c.lower_last, MaxValue)) % UINT,
                   !.lower_last = lower, !.since = 0]
    ELSE c

ztimer_now(c) == IF Extended THEN checkpointed(c).checkpoint ELSE lower

-----------------------------------------------------------------------------
(* The list: c.list holds the timers in order, c.offset their distances *)

is_set(c, t) == \E i \in DOMAIN c.list : c.list[i] = t

index(c, t) == CHOOSE i \in DOMAIN c.list : c.list[i] = t

\* What is left of diff when _ztimer_update_head_offset() comes to an entry.
left(c, diff) ==
    LET f[i \in 1 .. Len(c.list)] ==
            IF i = 1 THEN diff
            ELSE LET before == c.offset[c.list[i - 1]]
                 IN  IF f[i - 1] > before THEN f[i - 1] - before ELSE 0
    IN  f

\* _ztimer_update_head_offset(): the list is counted from now.
update_head_offset(c) ==
    LET l == left(c, (ztimer_now(c) - c.base) % UINT)
        counted(t) == LET d == l[index(c, t)]
                      IN  IF d <= c.offset[t] THEN c.offset[t] - d ELSE 0
    IN  [checkpointed(c) EXCEPT
            !.base = ztimer_now(c),
            !.offset = [t \in Timers |-> IF is_set(c, t) THEN counted(t) ELSE @[t]]]

\* The sum of the first i offsets, in the width of an unsigned.
delta_sum(c) ==
    LET f[i \in 0 .. Len(c.list)] ==
            IF i = 0 THEN 0 ELSE (f[i - 1] + c.offset[c.list[i]]) % UINT
    IN  f

\* Mutant of add_entry_to_list: the entry behind keeps its distance.
add_entry_to_list_only(c, t, val) ==
    LET later == {i \in DOMAIN c.list : delta_sum(c)[i] > val}
        p     == IF later = {} THEN Len(c.list) + 1
                 ELSE CHOOSE i \in later : \A j \in later : i <= j
    IN  [c EXCEPT !.list = SubSeq(@, 1, p - 1) \o <<t>> \o SubSeq(@, p, Len(@)),
                  !.offset[t] = (val - delta_sum(c)[p - 1]) % UINT]

\* _add_entry_to_list() jumps past the entries whose target is not later.
add_entry_to_list(c, t, val) ==
    LET later == {i \in DOMAIN c.list : delta_sum(c)[i] > val}
        p     == IF later = {} THEN Len(c.list) + 1
                 ELSE CHOOSE i \in later : \A j \in later : i <= j
        own   == (val - delta_sum(c)[p - 1]) % UINT
    IN  [c EXCEPT
            !.list = SubSeq(@, 1, p - 1) \o <<t>> \o SubSeq(@, p, Len(@)),
            !.offset = [u \in Timers |->
                           CASE u = t -> own
                             [] p <= Len(c.list) /\ u = c.list[p] -> (@[u] - own) % UINT
                             [] OTHER -> @[u]]]

\* _del_entry_from_list(): the entry behind t takes over t's distance.  What
\* remains in t's own offset is never read again.
del_entry_from_list(c, t) ==
    LET p == index(c, t)
    IN  [c EXCEPT
            !.list = SubSeq(@, 1, p - 1) \o SubSeq(@, p + 1, Len(@)),
            !.offset = [u \in Timers |->
                           CASE u = t -> 0
                             [] p < Len(c.list) /\ u = c.list[p + 1] -> (@[u] + @[t]) % UINT
                             [] OTHER -> @[u]]]

-----------------------------------------------------------------------------
(* Users and the alarm *)

\* _ztimer_acquire(): the first user starts the counter.
user_added(c) ==
    IF OnDemand THEN [c EXCEPT !.users = @ + 1, !.running = TRUE] ELSE c

\* ztimer_release(): the last one stops it, with no alarm armed.
user_removed(c) ==
    CASE ~OnDemand -> c
      [] OnDemand /\ c.users = 1 ->
            [cancelled(c) EXCEPT !.users = 0, !.running = FALSE, !.since = None]
      [] OTHER -> [c EXCEPT !.users = @ - 1]

unused(c) == OnDemand /\ c.users = 0

\* The value _ztimer_update() arms the alarm with; None to cancel it.
update_value(c) ==
    IF c.list = << >> THEN IF Extended THEN half ELSE None
    ELSE LET first == c.offset[Head(c.list)]
         IN  IF Extended THEN min(first, half) ELSE first

arm(c, val) == IF val = None THEN cancelled(c) ELSE armed(c, val)

\* _ztimer_update(), if the clock has users left.
ztimer_update(c) == IF unused(c) THEN c ELSE arm(c, update_value(c))

-----------------------------------------------------------------------------
(* The critical sections of ztimer_set() and ztimer_remove() *)

subtract(val, adjust) == IF val > adjust THEN val - adjust ELSE 0

set_value(c, val) ==
    subtract(IF unused(c) THEN subtract(val, AdjustStart) ELSE val, AdjustSet)

set_section(c, t, val) ==
    LET v  == set_value(c, val)
        c1 == update_head_offset(user_added(c))
        c2 == IF is_set(c1, t) THEN del_entry_from_list(c1, t) ELSE c1
        c3 == add_entry_to_list(c2, t, v)
    IN  IF Head(c3.list) = t THEN armed(c3, IF Extended THEN min(v, half) ELSE v)
        ELSE c3

remove_section(c, t) ==
    ztimer_update(user_removed(del_entry_from_list(update_head_offset(c), t)))

-----------------------------------------------------------------------------
Init ==
    /\ clock = [list |-> << >>, offset |-> [t \in Timers |-> 0], base |-> 0,
                lower_last |-> 0, checkpoint |-> 0,
                alarm |-> IF Extended /\ ~OnDemand THEN half ELSE None,
                since |-> None, users |-> 0, running |-> ~OnDemand]
    /\ lower = 0
    /\ entry = None
    /\ acquiring = [at |-> "none", val |-> None]
    /\ releases = 0
    /\ acquired = 0
    /\ due = [t \in Timers |-> 0]
    /\ delay = 0

Pending == clock.alarm = 0

\* Something the clock waits for is held up.
HeldUp ==
    \/ Pending
    \/ entry # None
    \/ acquiring.at # "none" /\ clock.alarm = None

\* Code other than the clock's handler runs: the alarm is not pending, or it
\* goes off while interrupts are disabled.
Interruptible == entry = None /\ (Pending => delay < MaxDelay)

\* A call that arms the alarm anew takes back a pending one.
Rearms == delay' = IF Pending /\ clock'.alarm # 0 THEN delay + 1 ELSE delay

\* Time passes.
Tick ==
    /\ clock.running
    /\ HeldUp => delay < MaxDelay
    /\ lower' = (lower + 1) % (MaxValue + 1)
    /\ due' = [t \in Timers |-> IF is_set(clock, t) /\ due[t] >= 0 THEN due[t] - 1
                                ELSE due[t]]
    /\ clock' = [clock EXCEPT !.alarm = IF @ \in {None, 0} THEN @ ELSE @ - 1,
                              !.since = IF @ = None THEN @ ELSE (@ + 1) % UINT]
    /\ delay' = IF HeldUp THEN delay + 1 ELSE delay
    /\ UNCHANGED <<entry, acquiring, releases, acquired>>

\* A timer that was set has two users until the caller, its interrupts enabled
\* again, releases one.  Bound: one such caller at a time.
ztimer_set(t, val) ==
    /\ Interruptible
    /\ is_set(clock, t) => releases = 0
    /\ clock' = set_section(clock, t, val)
    /\ due' = [due EXCEPT ![t] = set_value(clock, val)]
    /\ releases' = IF OnDemand /\ is_set(clock, t) THEN 1 ELSE releases
    /\ Rearms
    /\ UNCHANGED <<lower, entry, acquiring, acquired>>

set_releases ==
    /\ Interruptible
    /\ releases = 1
    /\ clock' = user_removed(clock)
    /\ releases' = 0
    /\ UNCHANGED <<lower, entry, acquiring, acquired, due, delay>>

\* ztimer_remove() of a timer that is not set changes nothing.
ztimer_remove(t) ==
    /\ Interruptible
    /\ is_set(clock, t)
    /\ clock' = remove_section(clock, t)
    /\ due' = [due EXCEPT ![t] = 0]
    /\ Rearms
    /\ UNCHANGED <<lower, entry, acquiring, releases, acquired>>

\* ztimer_acquire().  The first user goes on to _ztimer_update() with
\* interrupts enabled: it reads the list, and then arms the alarm.
ztimer_acquire ==
    /\ OnDemand
    /\ Interruptible
    /\ acquiring.at = "none"
    /\ acquired < MaxUsers
    /\ clock' = user_added(clock)
    /\ acquired' = acquired + 1
    /\ acquiring' = IF clock.users = 0 THEN [acquiring EXCEPT !.at = "reads"]
                    ELSE acquiring
    /\ UNCHANGED <<lower, entry, releases, due, delay>>

acquire_reads ==
    /\ Interruptible
    /\ acquiring.at = "reads"
    /\ acquiring' = [at |-> "arms", val |-> update_value(clock)]
    /\ UNCHANGED <<clock, lower, entry, releases, acquired, due, delay>>

acquire_arms ==
    /\ Interruptible
    /\ acquiring.at = "arms"
    /\ clock' = arm(clock, acquiring.val)
    /\ acquiring' = [at |-> "none", val |-> None]
    /\ Rearms
    /\ UNCHANGED <<lower, entry, releases, acquired, due>>

\* ztimer_release() by a user that acquired the clock.
ztimer_release ==
    /\ Interruptible
    /\ acquiring.at = "none"
    /\ acquired > 0
    /\ clock' = user_removed(clock)
    /\ acquired' = acquired - 1
    /\ UNCHANGED <<lower, entry, acquiring, releases, due, delay>>

-----------------------------------------------------------------------------
(* ztimer_handler() *)

\* An unsigned read as a signed integer.
int(x) == IF x < 2 ^ (Width - 1) THEN x ELSE x - UINT

\* Ticks until the target of the first timer.
head_diff(c) == int((c.base + c.offset[Head(c.list)] - ztimer_now(c)) % UINT)

\* The alarm of an extended clock came for a checkpoint only.
handler_postpones ==
    /\ Pending /\ entry = None
    /\ Extended /\ clock.list # << >>
    /\ head_diff(clock) > 0
    /\ clock' = armed(checkpointed(clock), min(head_diff(clock), half))
    /\ delay' = 0
    /\ UNCHANGED <<lower, entry, acquiring, releases, acquired, due>>

handler_idle ==
    /\ Pending /\ entry = None
    /\ clock.list = << >>
    /\ clock' = ztimer_update(checkpointed(clock))
    /\ delay' = 0
    /\ UNCHANGED <<lower, entry, acquiring, releases, acquired, due>>

\* _now_next(): the first entry leaves the list once its offset is 0.
now_next(c) ==
    IF c.list # << >> /\ c.offset[Head(c.list)] = 0 THEN Head(c.list) ELSE None

popped(c) == IF now_next(c) = None THEN c ELSE [c EXCEPT !.list = Tail(@)]

\* Mutant of handler_fires: every alarm is taken to be for the first timer.
handler_fires_anyway ==
    /\ Pending /\ entry = None
    /\ clock.list # << >>
    /\ LET c == checkpointed(clock)
           h == Head(c.list)
       IN  /\ clock' = popped([c EXCEPT !.base = (@ + c.offset[h]) % UINT,
                                        !.offset[h] = 0, !.alarm = None])
           /\ entry' = h
    /\ UNCHANGED <<lower, acquiring, releases, acquired, due, delay>>

\* The first timer has expired; its callback comes next.
handler_fires ==
    /\ Pending /\ entry = None
    /\ clock.list # << >>
    /\ Extended => head_diff(clock) <= 0
    /\ LET c == checkpointed(clock)
           h == Head(c.list)
       IN  /\ clock' = popped([c EXCEPT !.base = (@ + c.offset[h]) % UINT,
                                        !.offset[h] = 0, !.alarm = None])
           /\ entry' = h
    /\ UNCHANGED <<lower, acquiring, releases, acquired, due, delay>>

\* Mutant of handler_loop: the alarm for the timers that are left is not set.
handler_loop_unarmed(c) ==
    LET r == user_removed(c)
        n == IF unused(r) \/ now_next(r) # None THEN r ELSE update_head_offset(r)
    IN  IF unused(r) \/ now_next(n) = None
        THEN /\ clock' = n
             /\ entry' = None
             /\ delay' = 0
        ELSE /\ clock' = popped(n)
             /\ entry' = now_next(n)
             /\ UNCHANGED delay

\* The rest of the handler's loop from the end of a callback on: either the
\* next callback, or the alarm for the timers that are left.
handler_loop(c) ==
    LET r == user_removed(c)
        n == IF unused(r) \/ now_next(r) # None THEN r ELSE update_head_offset(r)
    IN  IF unused(r) \/ now_next(n) = None
        THEN /\ clock' = ztimer_update(n)
             /\ entry' = None
             /\ delay' = 0
        ELSE /\ clock' = popped(n)
             /\ entry' = now_next(n)
             /\ UNCHANGED delay

\* Mutant of callback_sets: the re-set timer keeps its second user.
callback_sets_keeps(t, val) ==
    /\ entry # None
    /\ set_value(clock, val) > 0
    /\ handler_loop(set_section(clock, t, val))
    /\ due' = [due EXCEPT ![t] = set_value(clock, val)]
    /\ UNCHANGED <<lower, acquiring, releases, acquired>>

\* A callback uses the clock in no way, sets a timer or removes one.  An
\* interval of 0 would come up again in the same handler, without end.
callback_returns ==
    /\ entry # None
    /\ handler_loop(clock)
    /\ UNCHANGED <<lower, acquiring, releases, acquired, due>>

callback_sets(t, val) ==
    /\ entry # None
    /\ set_value(clock, val) > 0
    /\ LET c == set_section(clock, t, val)
       IN  handler_loop(IF is_set(clock, t) THEN user_removed(c) ELSE c)
    /\ due' = [due EXCEPT ![t] = set_value(clock, val)]
    /\ UNCHANGED <<lower, acquiring, releases, acquired>>

callback_removes(t) ==
    /\ entry # None
    /\ is_set(clock, t)
    /\ handler_loop(remove_section(clock, t))
    /\ due' = [due EXCEPT ![t] = 0]
    /\ UNCHANGED <<lower, acquiring, releases, acquired>>

Callback ==
    \/ callback_returns
    \/ \E t \in Timers, val \in Intervals : callback_sets(t, val)
    \/ \E t \in Timers : callback_removes(t)

Handler == handler_postpones \/ handler_idle \/ handler_fires \/ Callback

Next ==
    \/ Tick
    \/ \E t \in Timers, val \in Intervals : ztimer_set(t, val)
    \/ set_releases
    \/ \E t \in Timers : ztimer_remove(t)
    \/ ztimer_acquire \/ acquire_reads \/ acquire_arms
    \/ ztimer_release
    \/ Handler

\* The counter runs, and a pending interrupt is taken; a thread inside
\* ztimer_acquire() goes on.
Fairness ==
    /\ WF_vars(Tick)
    /\ WF_vars(Handler)
    /\ WF_vars(acquire_reads \/ acquire_arms)

Spec == Init /\ [][Next]_vars /\ Fairness

-----------------------------------------------------------------------------
(* Properties *)

\* No callback runs before its timer's interval is over: ztimer.h promises
\* "at least" the interval, whatever other timers are set, re-set and removed
\* in between and wherever the counter wraps.
NeverEarly == entry # None => due[entry] <= 0

\* The relative offsets and the extended counter lose nothing: two readings of
\* a clock that was not stopped differ by the ticks that really passed, and a
\* timer that is not yet due has as target exactly the time at which its
\* interval ends.
TargetsExact ==
    /\ clock.since # None =>
          ztimer_now(clock) = (clock.checkpoint + clock.since) % UINT
    /\ \A t \in Timers : is_set(clock, t) /\ due[t] >= 0 =>
          (clock.base + delta_sum(clock)[index(clock, t)] - ztimer_now(clock)) % UINT
              = due[t]

\* The clock has one user for every timer that is set or firing, every re-set
\* still to be released and every thread that acquired it: the counter never
\* stops under a timer, and never runs for nobody.
UsersExact ==
    OnDemand =>
        /\ clock.users = Len(clock.list) + (IF entry # None THEN 1 ELSE 0)
                         + releases + acquired
        /\ clock.running <=> clock.users > 0

\* A timer whose interval is over fires, unless it is removed or set again.
TimerFires ==
    \A t \in Timers :
        is_set(clock, t) /\ due[t] <= 0 ~> ~is_set(clock, t) \/ due[t] > 0
=============================================================================
