------------------------------ MODULE LonTimer ------------------------------
(***************************************************************************)
(* The polled software timers of the stack (lcs/lcs_timer.c): an absolute  *)
(* expiration in ticks of a free-running counter that wraps, zero meaning  *)
(* "not running", and an optional repeat interval.                         *)
(*                                                                         *)
(* The counter is 2 * HalfRange ticks wide (2^32 in the code). The history *)
(* variables interval, repeats, due and halted say what the caller asked   *)
(* for, in unbounded real time; no operation of the code reads them.       *)
(***************************************************************************)
EXTENDS Integers

CONSTANTS
    HalfRange,      \* half of the counter's range, 2^31 in the code
    Durations,      \* the durations callers ask for, zero to stop an interval
    MaxLate         \* a timer is polled at most this long after it is due

ASSUME RangeAssumption == HalfRange \in Nat \ {0, 1}

ASSUME DurationAssumption == Durations \subseteq 0 .. 2 * HalfRange - 1

ASSUME LateAssumption == MaxLate \in 0 .. HalfRange - 1

VARIABLES
    tick,     \* OsalGetTickCount()
    timer,    \* the LonTimer: expiration and repeatTimeout
    interval, \* history: the caller has an interval under way
    repeats,  \* history: the caller has asked for repeats and not ended them
    due,      \* history: ticks until the interval is over, negative when late
    halted    \* history: whether the timer was halted, and by what

vars == <<tick, timer, interval, repeats, due, halted>>

Range == 2 * HalfRange

MaxDuration == HalfRange - 1            \* LON_TIMER_MAX_DURATION

Limit(d) == IF d > MaxDuration THEN MaxDuration ELSE d

\* (int32_t) of an unsigned counter value.
Signed(x) == IF x % Range >= HalfRange THEN (x % Range) - Range ELSE x % Range

-----------------------------------------------------------------------------

\* SetLonTimer: the timer's fields after it is started for d ticks.
SetTimer(tm, d) ==
    IF d = 0
    THEN [tm EXCEPT !.expiration = 0]
    ELSE LET at == (tick + Limit(d)) % Range
         IN  [expiration |-> IF at = 0 THEN 1 ELSE at, repeatTimeout |-> 0]

\* SetLonRepeatTimer.
SetRepeat(tm, first, repeat) ==
    [SetTimer(tm, Limit(first)) EXCEPT !.repeatTimeout = Limit(repeat)]

Delta(tm) == Signed(tm.expiration - tick)

\* Faulty variant: expiration and tick are compared as unsigned numbers.
ExpiredUnsigned(tm) == tm.expiration # 0 /\ tm.expiration <= tick

\* What LonTimerExpired returns.
Expired(tm) == tm.expiration # 0 /\ Delta(tm) <= 0

\* LonTimerRunning.
Running(tm) == tm.expiration # 0 /\ Delta(tm) > 0

\* Faulty variant: the repeat interval is not put back after the timer is set.
RestartOnce(tm) ==
    LET t   == tm.repeatTimeout
        adj == IF Signed(t + Delta(tm)) < 0 THEN 0 ELSE Delta(tm)
    IN  IF t = 0 THEN [tm EXCEPT !.expiration = 0] ELSE SetTimer(tm, t + adj)

\* What LonTimerExpired leaves behind when it returns true: a repeating timer
\* is started again, for an interval shortened by how late the poll came.
Restart(tm) ==
    LET t   == tm.repeatTimeout
        adj == IF Signed(t + Delta(tm)) < 0 THEN 0 ELSE Delta(tm)
        off == [tm EXCEPT !.expiration = 0]
    IN  IF t = 0 THEN off
                 ELSE [SetTimer(off, t + adj) EXCEPT !.repeatTimeout = t]

-----------------------------------------------------------------------------

\* When a timer started now for d ticks is due: a timer cannot expire at
\* counter value zero, which is reserved, and is due one tick later instead.
InRealTime(d) == IF d # 0 /\ (tick + d) % Range = 0 THEN d + 1 ELSE d

Init ==
    /\ tick \in 0 .. Range - 1
    /\ timer = [expiration |-> 0, repeatTimeout |-> 0]
    /\ interval = FALSE
    /\ repeats = FALSE
    /\ due = 0
    /\ halted = "no"

\* The interval under way is one the timer can know of.
Expected == interval /\ halted # "late"

\* One millisecond passes; the timer is polled before it is too late.
Tick ==
    /\ Expected => due > -MaxLate
    /\ tick' = (tick + 1) % Range
    /\ due' = IF Expected THEN due - 1 ELSE due
    /\ UNCHANGED <<timer, interval, repeats, halted>>

\* Started with a duration the timer is a one-shot timer; zero "stops the current
\* time interval, but does not terminate a repeating timer".
SetLonTimer(d) ==
    /\ timer' = SetTimer(timer, d)
    /\ interval' = (d # 0)
    /\ repeats' = (repeats /\ d = 0)
    /\ due' = InRealTime(Limit(d))
    /\ halted' = IF d = 0 THEN "zero" ELSE "no"
    /\ UNCHANGED tick

SetLonRepeatTimer(first, repeat) ==
    /\ timer' = SetRepeat(timer, first, repeat)
    /\ interval' = (first # 0)
    /\ repeats' = (repeat # 0)
    /\ due' = InRealTime(Limit(first))
    /\ halted' = IF first = 0 THEN "zero" ELSE "no"
    /\ UNCHANGED tick

\* The next interval of a repeating timer is meant to start when this one was
\* due, or now if the poll comes more than a period after that. Of a poll exactly
\* a period late nothing is left of the period, and SetLonTimer(0) stops the timer.
RequestNextInterval ==
    /\ interval' = repeats
    /\ due' = IF ~repeats THEN 0
              ELSE InRealTime(timer.repeatTimeout
                                + IF due + timer.repeatTimeout < 0 THEN 0 ELSE due)
    /\ halted' = IF repeats /\ due + timer.repeatTimeout = 0 THEN "late" ELSE "no"
    /\ UNCHANGED repeats

\* A poll that reports the timer; one that reports nothing changes nothing.
LonTimerExpired ==
    /\ Expired(timer)
    /\ timer' = Restart(timer)
    /\ RequestNextInterval
    /\ UNCHANGED tick

Next ==
    \/ Tick
    \/ \E d \in Durations : SetLonTimer(d)
    \/ \E first, repeat \in Durations : SetLonRepeatTimer(first, repeat)
    \/ LonTimerExpired

Spec == Init /\ [][Next]_vars

-----------------------------------------------------------------------------

TypeOK ==
    /\ tick \in 0 .. Range - 1
    /\ timer \in [expiration : 0 .. Range - 1, repeatTimeout : 0 .. MaxDuration]
    /\ interval \in BOOLEAN
    /\ repeats \in BOOLEAN
    /\ due \in -MaxDuration .. MaxDuration
    /\ halted \in {"no", "zero", "late"}

\* Whatever the counter's value when a timer is started, LonTimerExpired
\* reports it exactly from the tick on which it is due, also when the counter
\* wraps in between, and never after its interval was stopped; until then
\* LonTimerRunning says it runs. The intervals of a repeating timer do not drift
\* with late polls. The exception is the interval after a poll that came exactly a
\* period late: it is never reported (lcs_timer.c:103).
ReportsExactlyWhenDue ==
    /\ Expired(timer) <=> (Expected /\ due <= 0)
    /\ Running(timer) <=> (Expected /\ due > 0)

\* A repeating timer ends when SetLonRepeatTimer is called for no repeats or the
\* timer is started as a one-shot timer (lcs_timer.c:29-31, 61-62). Against that
\* comment two more calls end it, and only these: setting it, or its first
\* interval, to zero, and a poll exactly a period late.
RepeatingTimerKeepsRunning ==
    repeats /\ timer.expiration = 0 => halted \in {"zero", "late"}
=============================================================================
