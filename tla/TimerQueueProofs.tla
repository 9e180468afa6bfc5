-------------------------- MODULE TimerQueueProofs --------------------------
(***************************************************************************)
(* Proofs about the two structures that every layer is built on.           *)
(*                                                                         *)
(* LonTimer, for every width of the counter: a timer is reported exactly   *)
(* when it is due, across wrap-arounds of the counter, if it is polled in  *)
(* time.                                                                   *)
(*                                                                         *)
(* LcsQueue, for every capacity and every set of entry values: the indices *)
(* of a queue stay consistent with its entry count, and the circular array *)
(* implements a bounded first-in first-out buffer.                         *)
(***************************************************************************)
EXTENDS LonTimer, LcsQueue, TLAPS

(***************************************************************************)
(* The timers.                                                             *)
(***************************************************************************)

\* What the callers of the code keep to. One tick less than the limit: a timer of
\* LON_TIMER_MAX_DURATION that would expire at 0, which is reserved, is due a tick
\* later, and that is no longer in the future of the counter.
InTime == \A d \in Durations : d < MaxDuration

\* The expiration of a timer that runs, in terms of the counter: it is where the
\* caller wants it, or a round away, and never 0.
PlaceInv ==
    IF ~Expected
    THEN timer.expiration = 0 /\ due = 0
    ELSE /\ timer.expiration # 0
         /\ timer.expiration - tick \in {due - Range, due, due + Range}
         /\ due \in -MaxDuration .. MaxDuration

\* Repeats are asked for with the repeat interval, and ended by clearing it.
RepeatInv ==
    IF repeats THEN timer.repeatTimeout \in 1 .. MaxDuration - 1
               ELSE timer.repeatTimeout = 0

\* A repeating timer that was not halted is in one of its intervals.
HaltInv == repeats /\ halted = "no" => interval

IndInv == TypeOK /\ PlaceInv /\ RepeatInv /\ HaltInv

-----------------------------------------------------------------------------
(* The counter.                                                            *)

\* Arithmetic within a round of where one is.
LEMMA ModHere == ASSUME NEW r \in Nat \ {0}, NEW x \in 0 .. r - 1 PROVE x % r = x
OBVIOUS

LEMMA ModAhead == ASSUME NEW r \in Nat \ {0}, NEW x \in r .. r + r - 1 PROVE x % r = x - r
OBVIOUS

LEMMA ModBehind == ASSUME NEW r \in Nat \ {0}, NEW x \in -r .. -1 PROVE x % r = x + r
OBVIOUS

LEMMA SumAhead ==
  ASSUME NEW r \in Nat, NEW x \in 0 .. r - 1, NEW d \in 1 .. r - 1, ~(x + d < r)
  PROVE  x + d \in r .. r + r - 1
OBVIOUS

LEMMA RangeType ==
  /\ Range \in Nat \ {0} /\ HalfRange \in Nat \ {0} /\ Range = 2 * HalfRange
  /\ HalfRange > 1 /\ MaxDuration = HalfRange - 1
BY RangeAssumption DEF Range, MaxDuration

\* Going forward from a place of the counter, by less than a round, and back.
LEMMA Wraps ==
  /\ \A x \in 0 .. Range - 1 : x % Range = x
  /\ \A x \in Range .. Range + Range - 1 : x % Range = x - Range
  /\ \A x \in -Range .. -1 : x % Range = x + Range
<1>1. Range \in Nat \ {0}
  BY RangeType
<1> QED
  BY <1>1, ModHere, ModAhead, ModBehind, Zenon

\* The signed difference is the distance, if that is less than half a round.
LEMMA SignedIsDistance ==
  ASSUME NEW x \in Int, NEW d \in -MaxDuration .. MaxDuration,
         x \in {d - Range, d, d + Range}, x \in 1 - Range .. Range - 1
  PROVE  Signed(x) = d
<1>1. CASE x \in 0 .. Range - 1
  <2>1. x % Range = x
    BY <1>1, Wraps, Zenon
  <2> QED
    BY <1>1, <2>1, RangeType DEF Signed
<1>2. CASE x \in -Range .. -1
  <2>1. x % Range = x + Range
    BY <1>2, Wraps, Zenon
  <2> QED
    BY <1>2, <2>1, RangeType DEF Signed
<1> QED
  BY <1>1, <1>2, RangeType

\* Starting a timer for a duration within the limits puts it where it is due.
LEMMA SetTimerPlace ==
  ASSUME NEW tm \in [expiration : 0 .. Range - 1, repeatTimeout : 0 .. MaxDuration],
         tick \in 0 .. Range - 1, NEW d \in 1 .. MaxDuration - 1
  PROVE  LET e == SetTimer(tm, d).expiration
         IN  /\ e \in 1 .. Range - 1
             /\ InRealTime(d) \in 1 .. MaxDuration
             /\ e - tick \in {InRealTime(d) - Range, InRealTime(d), InRealTime(d) + Range}
             /\ SetTimer(tm, d).repeatTimeout = 0
             /\ SetTimer(tm, d) \in [expiration : 0 .. Range - 1, repeatTimeout : 0 .. MaxDuration]
<1>1. Limit(d) = d
  BY RangeType DEF Limit
<1>2. (tick + d) % Range = IF tick + d < Range THEN tick + d ELSE (tick + d) - Range
  <2>1. CASE tick + d < Range
    <3>1. tick + d \in 0 .. Range - 1
      BY <2>1, RangeType
    <3>2. (tick + d) % Range = tick + d
      BY <3>1, Wraps, Zenon
    <3> QED
      BY <2>1, <3>2, Zenon
  <2>2. CASE ~(tick + d < Range)
    <3>1. tick + d \in Range .. Range + Range - 1
      <4>1. tick \in 0 .. Range - 1 /\ d \in 1 .. Range - 1 /\ Range \in Nat
        BY RangeType
      <4> QED
        BY <2>2, <4>1, SumAhead
    <3>2. (tick + d) % Range = (tick + d) - Range
      BY <3>1, Wraps, Zenon
    <3> QED
      BY <2>2, <3>2, Zenon
  <2> QED
    BY <2>1, <2>2
<1>3. SetTimer(tm, d) = [expiration |-> IF (tick + d) % Range = 0 THEN 1 ELSE (tick + d) % Range,
                         repeatTimeout |-> 0]
  BY <1>1, RangeType DEF SetTimer
<1> QED
  BY <1>2, <1>3, RangeType DEF InRealTime

\* A timer is expired, or running, as its distance says.
LEMMA DeltaIsDue ==
  ASSUME IndInv, Expected
  PROVE  Delta(timer) = due /\ timer.expiration # 0
BY SignedIsDistance, RangeType DEF IndInv, TypeOK, PlaceInv, Delta

-----------------------------------------------------------------------------
(* The operations.                                                         *)

LEMMA InitInv == Init => IndInv
<1> SUFFICES ASSUME Init PROVE IndInv
  OBVIOUS
<1>1. interval \in BOOLEAN /\ repeats \in BOOLEAN /\ ~interval /\ ~repeats
  BY Zenon DEF Init
<1>2. /\ tick \in 0 .. Range - 1 /\ due = 0 /\ halted = "no"
      /\ timer = [expiration |-> 0, repeatTimeout |-> 0]
  BY DEF Init
<1> QED
  BY <1>1, <1>2, RangeType DEF IndInv, TypeOK, PlaceInv, Expected, RepeatInv, HaltInv

LEMMA TickInv == ASSUME InTime, IndInv, Tick PROVE IndInv'
<1> USE DEF IndInv
<1>1. tick' = IF tick = Range - 1 THEN 0 ELSE tick + 1
  <2>1. CASE tick = Range - 1
    <3>1. tick + 1 = Range /\ Range \in Range .. Range + Range - 1 /\ Range - Range = 0
      BY <2>1, RangeType
    <3>2. Range % Range = Range - Range
      BY <3>1, Wraps, Zenon
    <3> QED
      BY <2>1, <3>1, <3>2, Zenon DEF Tick
  <2>2. CASE tick # Range - 1
    <3>1. tick + 1 \in 0 .. Range - 1
      BY <2>2, RangeType DEF TypeOK
    <3>2. (tick + 1) % Range = tick + 1
      BY <3>1, Wraps, Zenon
    <3> QED
      BY <2>2, <3>2, Zenon DEF Tick
  <2> QED
    BY <2>1, <2>2
<1>2. CASE ~Expected
  BY <1>1, <1>2, RangeType DEF Tick, TypeOK, PlaceInv, Expected, RepeatInv, HaltInv
<1>3. CASE Expected
  <2>1. due' = due - 1 /\ due > -MaxLate /\ due' \in -MaxDuration .. MaxDuration
    BY <1>3, RangeType, LateAssumption DEF Tick, TypeOK
  <2>2. timer'.expiration - tick' \in {due' - Range, due', due' + Range}
    BY <1>1, <1>3, <2>1, RangeType DEF Tick, TypeOK, PlaceInv, Expected
  <2>3. RepeatInv'
    BY DEF Tick, RepeatInv, HaltInv
  <2> QED
    BY <1>1, <1>3, <2>1, <2>2, <2>3, RangeType DEF Tick, TypeOK, PlaceInv, Expected, HaltInv
<1> QED
  BY <1>2, <1>3

LEMMA SetLonTimerInv ==
  ASSUME InTime, IndInv, NEW d \in Durations, SetLonTimer(d)
  PROVE  IndInv'
<1> USE DEF IndInv
<1>1. d \in 0 .. MaxDuration - 1 /\ Limit(d) = d
  BY DurationAssumption, RangeType DEF InTime, Limit
<1>2. /\ interval' \in BOOLEAN /\ repeats' \in BOOLEAN
      /\ interval' <=> d # 0
      /\ repeats' <=> (repeats /\ d = 0)
  BY Zenon DEF SetLonTimer
<1>3. /\ timer' = SetTimer(timer, d) /\ due' = InRealTime(d) /\ tick' = tick
      /\ halted' = IF d = 0 THEN "zero" ELSE "no"
  BY <1>1 DEF SetLonTimer
<1>4. CASE d = 0
  <2>1. timer' = [timer EXCEPT !.expiration = 0] /\ due' = 0
    BY <1>3, <1>4 DEF SetTimer, InRealTime
  <2> QED
    BY <1>2, <1>3, <1>4, <2>1, RangeType DEF TypeOK, PlaceInv, Expected, RepeatInv, HaltInv
<1>5. CASE d # 0
  <2>1. d \in 1 .. MaxDuration - 1
    BY <1>1, <1>5, RangeType
  <2> QED
    BY <1>2, <1>3, <1>5, <2>1, SetTimerPlace, RangeType DEF TypeOK, PlaceInv, Expected, RepeatInv, HaltInv
<1> QED
  BY <1>4, <1>5

LEMMA SetLonRepeatTimerInv ==
  ASSUME InTime, IndInv, NEW first \in Durations, NEW repeat \in Durations,
         SetLonRepeatTimer(first, repeat)
  PROVE  IndInv'
<1> USE DEF IndInv
<1>1. /\ first \in 0 .. MaxDuration - 1 /\ Limit(first) = first
      /\ repeat \in 0 .. MaxDuration - 1 /\ Limit(repeat) = repeat
  BY DurationAssumption, RangeType DEF InTime, Limit
<1>2. timer' = [SetTimer(timer, first) EXCEPT !.repeatTimeout = repeat]
        /\ due' = InRealTime(first) /\ tick' = tick
        /\ halted' = IF first = 0 THEN "zero" ELSE "no"
  BY <1>1 DEF SetLonRepeatTimer, SetRepeat
<1>3. /\ interval' \in BOOLEAN /\ repeats' \in BOOLEAN
      /\ interval' <=> first # 0
      /\ repeats' <=> repeat # 0
  BY Zenon DEF SetLonRepeatTimer
<1>4. CASE first = 0
  <2>1. due' = 0
    BY <1>2, <1>4 DEF InRealTime
  <2>2. timer' = [timer EXCEPT !.expiration = 0, !.repeatTimeout = repeat]
    BY <1>2, <1>4 DEF SetTimer, TypeOK
  <2> QED
    <3>1. timer' \in [expiration : 0 .. Range - 1, repeatTimeout : 0 .. MaxDuration]
            /\ timer'.expiration = 0
      <4>1. 0 \in 0 .. Range - 1 /\ repeat \in 0 .. MaxDuration
        BY <1>1, RangeType
      <4> QED
        BY <2>2, <4>1 DEF TypeOK
    <3>2. 0 \in -MaxDuration .. MaxDuration
      BY RangeType
    <3> QED
      BY <1>1, <1>2, <1>4, <1>3, <2>1, <2>2, <3>1, <3>2 DEF TypeOK, PlaceInv, Expected, RepeatInv, HaltInv
<1>5. CASE first # 0
  <2>1. LET tm == SetTimer(timer, first)
        IN  /\ tm.expiration \in 1 .. Range - 1 /\ due' \in 1 .. MaxDuration
            /\ tm.expiration - tick \in {due' - Range, due', due' + Range}
            /\ tm \in [expiration : 0 .. Range - 1, repeatTimeout : 0 .. MaxDuration]
    BY <1>1, <1>2, <1>5, SetTimerPlace DEF TypeOK
  <2>2. /\ timer' \in [expiration : 0 .. Range - 1, repeatTimeout : 0 .. MaxDuration]
        /\ timer'.expiration = SetTimer(timer, first).expiration
        /\ timer'.repeatTimeout = repeat
    BY <1>1, <1>2, <2>1, RangeType
  <2> QED
    BY <1>1, <1>2, <1>5, <1>3, <2>1, <2>2, RangeType DEF TypeOK, PlaceInv, Expected, RepeatInv, HaltInv
<1> QED
  BY <1>4, <1>5

\* A repeating timer that is reported is started for the rest of its period.
LEMMA LonTimerExpiredInv == ASSUME InTime, IndInv, LonTimerExpired PROVE IndInv'
<1> USE DEF IndInv
<1>1. Expected
  BY DEF LonTimerExpired, Expired, PlaceInv, Expected
<1>2. Delta(timer) = due /\ due <= 0 /\ due \in -MaxDuration .. 0
  BY <1>1, DeltaIsDue, RangeType DEF LonTimerExpired, Expired, PlaceInv, Expected
<1>3. CASE ~repeats
  <2>1. timer' = [timer EXCEPT !.expiration = 0]
    BY <1>3 DEF LonTimerExpired, Restart, RepeatInv, HaltInv
  <2>2. due' = 0 /\ tick' = tick /\ halted' = "no"
    BY <1>3 DEF LonTimerExpired, RequestNextInterval
  <2>3. interval' \in BOOLEAN /\ repeats' \in BOOLEAN /\ ~interval' /\ ~repeats'
    BY <1>3, Zenon DEF LonTimerExpired, RequestNextInterval, TypeOK
  <2> QED
    BY <1>3, <2>1, <2>2, <2>3, RangeType DEF TypeOK, PlaceInv, Expected, RepeatInv, HaltInv
<1>4. CASE repeats /\ timer.repeatTimeout + due # 0
  <2> DEFINE t == timer.repeatTimeout
             rest == IF t + due < 0 THEN t ELSE t + due
             off == [timer EXCEPT !.expiration = 0]
  <2>1. t \in 1 .. MaxDuration - 1 /\ t + due # 0 /\ t + due \in -MaxDuration .. MaxDuration
    BY <1>2, <1>4, RangeType DEF RepeatInv
  <2>2. Signed(t + due) = t + due
    BY <2>1, RangeType, SignedIsDistance
  <2>3. timer' = [SetTimer(off, rest) EXCEPT !.repeatTimeout = t]
    BY <1>2, <2>1, <2>2, RangeType DEF LonTimerExpired, Restart
  <2>4. due' = InRealTime(rest) /\ tick' = tick /\ halted' = "no"
    <3>1. t + (IF due + t < 0 THEN 0 ELSE due) = rest
      BY <1>2, <2>1, RangeType
    <3> QED
      BY <1>2, <1>4, <2>1, <3>1 DEF LonTimerExpired, RequestNextInterval
  <2>5. off \in [expiration : 0 .. Range - 1, repeatTimeout : 0 .. MaxDuration]
    BY RangeType DEF TypeOK
  <2>6. rest \in 1 .. MaxDuration - 1
    BY <1>2, <2>1, RangeType
  <2> HIDE DEF rest, off
  <2>7. LET tm == SetTimer(off, rest)
        IN  /\ tm.expiration \in 1 .. Range - 1 /\ due' \in 1 .. MaxDuration
            /\ tm.expiration - tick \in {due' - Range, due', due' + Range}
            /\ tm \in [expiration : 0 .. Range - 1, repeatTimeout : 0 .. MaxDuration]
    BY <2>4, <2>5, <2>6, SetTimerPlace DEF TypeOK
  <2>8. /\ timer' \in [expiration : 0 .. Range - 1, repeatTimeout : 0 .. MaxDuration]
        /\ timer'.expiration = SetTimer(off, rest).expiration
        /\ timer'.repeatTimeout = t
    BY <2>1, <2>3, <2>7, RangeType
  <2>9. interval' \in BOOLEAN /\ repeats' \in BOOLEAN /\ interval' /\ repeats'
    BY <1>4, Zenon DEF LonTimerExpired, RequestNextInterval, TypeOK
  <2> QED
    BY <2>1, <2>4, <2>7, <2>8, <2>9, RangeType DEF TypeOK, PlaceInv, Expected, RepeatInv, HaltInv
<1>5. CASE repeats /\ timer.repeatTimeout + due = 0
  <2> DEFINE t == timer.repeatTimeout
             off == [timer EXCEPT !.expiration = 0]
  <2>1. t \in 1 .. MaxDuration - 1 /\ due = -t
    BY <1>2, <1>5, RangeType DEF RepeatInv
  <2>2. Signed(0) = 0
    BY RangeType, SignedIsDistance
  <2>3. timer' = off
    <3>1. timer' = [SetTimer(off, 0) EXCEPT !.repeatTimeout = t]
      BY <1>2, <2>1, <2>2, RangeType DEF LonTimerExpired, Restart
    <3> QED
      BY <3>1 DEF SetTimer, TypeOK
  <2>4. due' = 0 /\ tick' = tick /\ halted' = "late"
    <3>1. due + t = 0 /\ ~(due + t < 0) /\ t + due = 0
      BY <2>1, RangeType
    <3>2. InRealTime(0) = 0
      BY DEF InRealTime
    <3> QED
      BY <1>5, <3>1, <3>2 DEF LonTimerExpired, RequestNextInterval
  <2>5. interval' \in BOOLEAN /\ repeats' \in BOOLEAN /\ repeats'
    BY <1>5, Zenon DEF LonTimerExpired, RequestNextInterval, TypeOK
  <2>6. timer' \in [expiration : 0 .. Range - 1, repeatTimeout : 0 .. MaxDuration]
          /\ timer'.expiration = 0 /\ timer'.repeatTimeout = t
    BY <2>1, <2>3, RangeType DEF TypeOK
  <2> QED
    BY <2>1, <2>4, <2>5, <2>6, RangeType
       DEF TypeOK, PlaceInv, Expected, RepeatInv, HaltInv
<1> QED
  BY <1>1, <1>3, <1>4, <1>5 DEF TypeOK

LEMMA NextInv == ASSUME InTime, IndInv, [Next]_vars PROVE IndInv'
<1>1. CASE UNCHANGED vars
  BY <1>1 DEF vars, IndInv, TypeOK, PlaceInv, Expected, RepeatInv, HaltInv
<1> QED
  BY <1>1, TickInv, SetLonTimerInv, SetLonRepeatTimerInv, LonTimerExpiredInv DEF Next

\* A timer is reported from the tick on which it is due and runs until then,
\* whatever the counter's value when it was started and also when the counter
\* wraps in between; the intervals of a repeating timer do not drift, and one
\* polled more than a period late begins a new interval at the poll. Only the
\* interval after a poll exactly a period late is not reported (lcs_timer.c:103).
THEOREM ReportedExactlyWhenDue ==
  ASSUME InTime
  PROVE  Spec => []ReportsExactlyWhenDue
<1>1. IndInv => ReportsExactlyWhenDue
  BY DeltaIsDue, RangeType DEF IndInv, PlaceInv, ReportsExactlyWhenDue, Expired, Running, Expected
<1>2. IndInv /\ [Next]_vars => IndInv'
  BY NextInv
<1> QED
  BY <1>1, <1>2, InitInv, PTL DEF Spec

\* A repeating timer for which repeats are still wanted stops only when it is set to
\* zero or polled exactly a period late (lcs_timer.c:29-31, 61-62, 103): not when
\* the counter wraps onto zero, nor after any other late poll.
THEOREM RepeatsGoOn ==
  ASSUME InTime
  PROVE  Spec => []RepeatingTimerKeepsRunning
<1>1. IndInv => RepeatingTimerKeepsRunning
  BY DEF IndInv, TypeOK, PlaceInv, HaltInv, Expected, RepeatingTimerKeepsRunning
<1>2. IndInv /\ [Next]_vars => IndInv'
  BY NextInv
<1> QED
  BY <1>1, <1>2, InitInv, PTL DEF Spec

-----------------------------------------------------------------------------
(***************************************************************************)
(* The queues.                                                             *)
(***************************************************************************)

\* The inductive invariant: the types, and the tail as the count places it.
QueueInv == QueueTypeOK /\ TailFollowsEntries

-----------------------------------------------------------------------------

\* A queue that has just been set up is consistent.
LEMMA QueueInitEstablishes == QueueInit => QueueInv
BY CapacityAssumption
   DEF QueueInit, QueueInv, QueueTypeOK, TailFollowsEntries, PlaceAt, QueueFull, Place

\* Every operation on the queue keeps it consistent.
LEMMA QueueNextPreserves == QueueInv /\ [QueueNext]_queueVars => QueueInv'
<1> SUFFICES ASSUME QueueInv, [QueueNext]_queueVars PROVE QueueInv'
  OBVIOUS
<1> USE CapacityAssumption
        DEF QueueInv, QueueTypeOK, TailFollowsEntries, PlaceAt, QueueFull, Place
<1>1. ASSUME NEW e \in Entry, FormEntry(e) PROVE QueueInv'
  BY <1>1 DEF FormEntry
<1>2. CASE QueueWrite
  BY <1>2 DEF QueueWrite, Advance
<1>3. CASE QueueDropHead
  BY <1>3 DEF QueueDropHead, Advance, QueueEmpty
<1>4. CASE QueueFlush
  BY <1>4 DEF QueueFlush
<1>5. CASE UNCHANGED queueVars
  BY <1>5 DEF queueVars
<1> QED
  BY <1>1, <1>2, <1>3, <1>4, <1>5 DEF QueueNext

\* The fields of struct Queue stay within the allocated array.
THEOREM QueueTypeCorrect == QueueSpec => []QueueTypeOK
<1>1. QueueInv => QueueTypeOK
  BY DEF QueueInv
<1> QED
  BY <1>1, QueueInitEstablishes, QueueNextPreserves, PTL DEF QueueSpec

\* The tail is always where head and entry count place it and the queue never
\* reports itself full, whatever the order of writes, drops and flushes.
THEOREM TailFollows == QueueSpec => []TailFollowsEntries
<1>1. QueueInv => TailFollowsEntries
  BY DEF QueueInv
<1> QED
  BY <1>1, QueueInitEstablishes, QueueNextPreserves, PTL DEF QueueSpec

-----------------------------------------------------------------------------

\* A sequence is the function it is made of.
LEMMA SeqIsFunction ==
  ASSUME NEW S, NEW s \in Seq(S)
  PROVE  s = [k \in 1 .. Len(s) |-> s[k]]
OBVIOUS

\* A new queue holds no entry.
LEMMA QueueInitRefines == QueueInit => Fifo!FifoInit
BY CapacityAssumption DEF QueueInit, Fifo!FifoInit, Contents, Place

\* Forming an entry at the tail leaves every committed entry as it was.
LEMMA FormRefines ==
  ASSUME QueueInv, NEW e \in Entry, FormEntry(e)
  PROVE  Fifo!Stage
<1> USE CapacityAssumption
        DEF QueueInv, QueueTypeOK, TailFollowsEntries, PlaceAt, QueueFull, Place
<1>1. \A k \in 1 .. queueEntries :
         PlaceAt(k - 1) \in Place /\ PlaceAt(k - 1) # tailIndex
  OBVIOUS
<1>2. \A k \in 1 .. queueEntries : slot'[PlaceAt(k - 1)'] = slot[PlaceAt(k - 1)]
  BY <1>1 DEF FormEntry
<1>3. Contents' = Contents
  BY <1>2 DEF FormEntry, Contents
<1>4. slot'[tailIndex'] \in Entry
  BY DEF FormEntry
<1> QED
  BY <1>3, <1>4 DEF Fifo!Stage

\* A write appends the entry that was formed at the tail.
LEMMA WriteRefines ==
  ASSUME QueueInv, QueueWrite
  PROVE  Fifo!Put
<1> USE CapacityAssumption DEF QueueInv, QueueTypeOK, TailFollowsEntries, Place
<1>1. /\ queueEntries' = queueEntries + 1
      /\ headIndex' = headIndex
      /\ slot' = slot
      /\ queueEntries \in Nat
      /\ queueEntries < Capacity - 1
  BY DEF QueueWrite
<1>2. \A k \in Nat : PlaceAt(k)' = PlaceAt(k)
  BY <1>1 DEF PlaceAt
<1>3. \A k \in 1 .. queueEntries : PlaceAt(k - 1) \in Place
  BY <1>1 DEF PlaceAt
<1>4. Contents \in Seq(Entry) /\ Len(Contents) = queueEntries
  BY <1>1, <1>3 DEF Contents
<1>5. slot[tailIndex] \in Entry /\ slot'[tailIndex'] \in Entry
  BY DEF QueueWrite, Advance
<1>6. Contents' = Append(Contents, slot[tailIndex])
  <2> DEFINE A == Append(Contents, slot[tailIndex])
  <2>1. A \in Seq(Entry) /\ Len(A) = queueEntries + 1
    BY <1>4, <1>5
  <2>2. Contents' = [k \in 1 .. queueEntries + 1 |-> slot[PlaceAt(k - 1)]]
    BY <1>1, <1>2 DEF Contents
  <2>3. \A k \in 1 .. queueEntries + 1 : A[k] = slot[PlaceAt(k - 1)]
    <3> TAKE k \in 1 .. queueEntries + 1
    <3>1. CASE k \in 1 .. queueEntries
      BY <3>1, <1>1, <1>4, <1>5 DEF Contents
    <3>2. CASE k = queueEntries + 1
      BY <3>2, <1>1, <1>4, <1>5 DEF Contents
    <3>3. k \in 1 .. queueEntries \/ k = queueEntries + 1
      BY <1>1
    <3> QED
      BY <3>1, <3>2, <3>3
  <2>4. A = [k \in 1 .. queueEntries + 1 |-> A[k]]
    BY <2>1
  <2> QED
    BY <2>2, <2>3, <2>4
<1> QED
  BY <1>1, <1>4, <1>5, <1>6 DEF Fifo!Put

\* Dropping the head removes the oldest entry and no other.
LEMMA DropRefines ==
  ASSUME QueueInv, QueueDropHead
  PROVE  Fifo!Drop
<1> USE CapacityAssumption DEF QueueInv, QueueTypeOK, TailFollowsEntries, Place, QueueFull
<1>1. /\ queueEntries' = queueEntries - 1
      /\ queueEntries \in Nat \ {0}
      /\ queueEntries < Capacity
      /\ headIndex' = Advance(headIndex)
      /\ slot' = slot /\ tailIndex' = tailIndex
  BY DEF QueueDropHead, QueueEmpty
<1>2. \A k \in 1 .. queueEntries : PlaceAt(k - 1) \in Place
  BY <1>1 DEF PlaceAt
<1>3. Contents \in Seq(Entry) /\ Len(Contents) = queueEntries
  BY <1>1, <1>2 DEF Contents
<1>4. \A k \in 0 .. Capacity - 2 : PlaceAt(k)' = PlaceAt(k + 1)
  BY <1>1 DEF PlaceAt, Advance
<1>5. Contents' = [k \in 1 .. queueEntries - 1 |-> slot[PlaceAt(k)]]
  BY <1>1, <1>4 DEF Contents
<1>6. Tail(Contents) = [k \in 1 .. queueEntries - 1 |-> slot[PlaceAt(k)]]
  <2>1. Tail(Contents) \in Seq(Entry) /\ Len(Tail(Contents)) = queueEntries - 1
    BY <1>1, <1>3
  <2>2. \A k \in 1 .. queueEntries - 1 : Tail(Contents)[k] = slot[PlaceAt(k)]
    BY <1>1, <1>3 DEF Contents
  <2>3. Tail(Contents) = [k \in 1 .. queueEntries - 1 |-> Tail(Contents)[k]]
    BY <2>1, SeqIsFunction
  <2> QED
    BY <2>2, <2>3
<1>7. Contents # <<>>
  BY <1>1, <1>3
<1> QED
  BY <1>1, <1>5, <1>6, <1>7 DEF Fifo!Drop

\* A flush discards every entry.
LEMMA FlushRefines ==
  ASSUME QueueInv, QueueFlush
  PROVE  Fifo!Discard
BY CapacityAssumption
   DEF QueueInv, QueueTypeOK, Place, QueueFlush, Fifo!Discard, Contents

\* The circular array implements a first-in first-out buffer of Capacity - 1
\* entries: no operation overwrites, loses or reorders a committed entry.
THEOREM QueueImplementsFifo == QueueSpec => ImplementsFifo
<1>1. QueueInv /\ [QueueNext]_queueVars => [Fifo!FifoNext]_(Fifo!fifoVars)
  <2> SUFFICES ASSUME QueueInv, [QueueNext]_queueVars PROVE [Fifo!FifoNext]_(Fifo!fifoVars)
    OBVIOUS
  <2>1. ASSUME NEW e \in Entry, FormEntry(e) PROVE Fifo!FifoNext
    BY <2>1, FormRefines DEF Fifo!FifoNext
  <2>2. CASE QueueWrite
    BY <2>2, WriteRefines DEF Fifo!FifoNext
  <2>3. CASE QueueDropHead
    BY <2>3, DropRefines DEF Fifo!FifoNext
  <2>4. CASE QueueFlush
    BY <2>4, FlushRefines DEF Fifo!FifoNext
  <2>5. CASE UNCHANGED queueVars
    BY <2>5 DEF queueVars, Fifo!fifoVars, Contents, PlaceAt
  <2> QED
    BY <2>1, <2>2, <2>3, <2>4, <2>5 DEF QueueNext
<1> QED
  BY <1>1, QueueInitEstablishes, QueueNextPreserves, QueueInitRefines, PTL
     DEF QueueSpec, ImplementsFifo, Fifo!FifoSpec
=============================================================================
