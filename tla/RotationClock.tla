--------------------------- MODULE RotationClock ---------------------------
(***************************************************************************)
(* When the daily rotation happens (rotationLoop and nextRotationDelay in  *)
(* internal/auth/auth.go), on a wall clock that is changed twice a year.   *)
(*                                                                         *)
(* Time passes in hours.  A day has 24 of them, or 23 when an hour is      *)
(* skipped, or 25 when one is repeated.  Which ones those are depends on   *)
(* the time zone; in some it is the first or the last hour of the day.  A  *)
(* timer counts real hours, whatever the wall clock does.  What a rotation *)
(* does is in TokenManager; it may also fail, the loop goes on all the     *)
(* same.                                                                   *)
(***************************************************************************)
EXTENDS Integers

CONSTANTS
    Hours,    \* the values of auth.rotation_hour to look at
    Skipped,  \* the hours that time zones skip in spring
    Repeated  \* the hours that time zones repeat in autumn

ASSUME HoursAssumption ==
    Hours \subseteq 0..23 /\ Skipped \subseteq 0..23 /\ Repeated \subseteq 0..23

VARIABLES
    rotationHour, \* the field, from the configuration
    skips,        \* the hour skipped in spring, in the local zone
    repeats,      \* the hour repeated in autumn
    summer,       \* daylight saving time holds at the end of today
    length,       \* how many hours today has
    elapsed,      \* how many of them have passed
    delay,        \* real hours until the timer of rotationLoop fires, 0 if past
    age           \* history: real hours since the last rotation or the start

zoneVars == <<rotationHour, skips, repeats>>
clockVars == <<zoneVars, summer, length, elapsed, delay, age>>

\* What the wall clock shows when e hours of a day of l hours have passed.
Wall(l, e) ==
    CASE l = 24 -> e
      [] l = 23 -> IF e < skips THEN e ELSE e + 1
      [] l = 25 -> IF e <= repeats THEN e ELSE e - 1

\* time.Date: the moments of a day at which the clock shows h. An hour that is
\* repeated may be either one; for one that is skipped, the result is right in
\* one of the two zones: an hour before or an hour after. So it may be in the
\* day before (-1) when hour 0 is skipped, and the next midnight (23) for hour 23.
Moments(l, h) ==
    IF l = 23 /\ h = skips
    THEN {skips - 1, skips}
    ELSE {e \in 0..(l - 1) : Wall(l, e) = h}

\* A seeded fault: the rotation of today is left out.
DelayUntilTomorrow(m, e) == m - e + 24

\* A seeded fault: a timer of 24 hours, whatever the time is.
DelayPeriodic(m, e) == 24

\* nextRotationDelay, with m the moment of today's rotation: if that is not
\* after now, next.Add(24 * time.Hour), which are real hours.
DelayUntil(m, e) == IF m > e THEN m - e ELSE m - e + 24

NextDelays == {DelayUntil(m, elapsed) : m \in Moments(length, rotationHour)}

-----------------------------------------------------------------------------
\* StartAutoRotation, at any time of an ordinary day, in some zone.
ClockInit ==
    /\ rotationHour \in Hours
    /\ skips \in Skipped /\ repeats \in Repeated
    /\ summer \in BOOLEAN
    /\ length = 24 /\ elapsed \in 0..23
    /\ delay \in NextDelays
    /\ age = 0

\* An hour passes. At midnight it becomes clear which kind of day follows.
\* A timer that is due fires first; when it is due again at once after every
\* rotation, the hour passes with rotations.
Hour ==
    /\ delay > 0 \/ age = 0
    /\ delay' = IF delay > 0 THEN delay - 1 ELSE 0
    /\ age' = age + 1
    /\ \/ /\ elapsed + 1 < length
          /\ elapsed' = elapsed + 1
          /\ UNCHANGED <<summer, length>>
       \/ /\ elapsed + 1 = length
          /\ elapsed' = 0
          /\ \/ length' = 24 /\ UNCHANGED summer
             \/ length' = (IF summer THEN 25 ELSE 23) /\ summer' = ~summer
    /\ UNCHANGED zoneVars

\* The body of the loop, after the rotation, and the head of its next round.
Rotate ==
    /\ age' = 0
    /\ delay' \in NextDelays
    /\ UNCHANGED <<zoneVars, summer, length, elapsed>>

TimerFires == delay = 0 /\ Rotate

\* POST /auth/rotate, at any time: the loop stops the timer and sets it anew.
ManualRotate == Rotate

ClockNext == Hour \/ TimerFires \/ ManualRotate

ClockSpec == ClockInit /\ [][ClockNext]_clockVars

-----------------------------------------------------------------------------
(* Properties *)

\* The variables keep their types.
ClockTypeOK ==
    /\ rotationHour \in Hours
    /\ skips \in Skipped /\ repeats \in Repeated
    /\ summer \in BOOLEAN
    /\ length \in {23, 24, 25}
    /\ elapsed \in 0..(length - 1)
    /\ delay \in 0..24
    /\ age \in Nat

\* The loop tries a rotation at least every 24 real hours, however long the
\* days are and however manual rotations move the timer.
AttemptEveryDay == age <= 24

\* A clock that shows w is at most an hour off.
NearHour(w) == \E d \in {-1, 0, 1} : w = (rotationHour + d) % 24

\* The changes of the clock do not add up, and manual rotations do not carry
\* them on: the timer is never more than an hour off, over any number of years.
DriftBounded == delay = 0 => NearHour(Wall(length, elapsed))

\* StartAutoRotation "rotates the token daily": a rotation is not due again
\* at once, so that one follows the other as fast as the disk can write.
\* The code does not satisfy this; the README says where it departs.
RotatesDaily == age = 0 => delay > 0

\* "The token rotates daily at HH:00 local time."
\* The code does not satisfy this; the README says where it departs.
AtTheHour == delay = 0 => Wall(length, elapsed) = rotationHour

-----------------------------------------------------------------------------
(* Inductive invariants *)

\* The timer was set for at most 24 hours when the age was zero.
TimerInv == ClockTypeOK /\ age + delay <= 24

\* How long tomorrow may be: the clock goes forward and back in turn.
NextLengths == {24, IF summer THEN 25 ELSE 23}

\* A timer that fires due hours after the last midnight does so near the hour,
\* today or tomorrow, whatever tomorrow is; or at the midnight after, when
\* tomorrow is short and has no hour for it left.
FiresNear(due) ==
    /\ due < length => NearHour(Wall(length, due))
    /\ due >= length => \A l \in NextLengths :
            \/ due - length < l /\ NearHour(Wall(l, due - length))
            \/ due - length = l /\ l = 23 /\ rotationHour = 23

\* The timer fires at once only in the last hour of a long day.
DueInv ==
    /\ length = 23 => summer
    /\ length = 25 => ~summer
    /\ delay = 0 /\ age = 0 => length = 25 /\ elapsed = 24 /\ rotationHour = 0
    /\ FiresNear(elapsed + delay)
=============================================================================
