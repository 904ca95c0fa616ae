------------------------------ MODULE Schedule ------------------------------
(***************************************************************************)
(* The wall-clock window of src/toinflux/schedule.py, as operators.  A     *)
(* clock time is a number of minutes below Day.  A zone says how far its   *)
(* clock is ahead at every instant: a step of it is a change of daylight   *)
(* saving.                                                                 *)
(***************************************************************************)
LOCAL INSTANCE Integers

CONSTANT Day   \* the minutes of a day
ASSUME DayAssumption == Day \in Nat \ {0}

\* The windows a document may hold: one that starts when it ends is refused.
ActivePeriods == {p \in [start : 0..(Day - 1), end : 0..(Day - 1)] : p.start # p.end}

\* What the clock of a zone shows at an instant: an hour that is skipped never
\* shows, one that is repeated shows twice.
LocalTime(instant, zone) == (instant + zone[instant]) % Day

\* The plausible bug of an end that belongs to the window.
InsideToTheEnd(period, instant, zone) ==
  LET local == LocalTime(instant, zone)
  IN IF period.start < period.end THEN period.start <= local /\ local <= period.end
     ELSE period.start <= local \/ local <= period.end
\* Whether an instant is in a window, which wraps midnight where it ends before
\* it starts.
IsInside(period, instant, zone) ==
  LET local == LocalTime(instant, zone)
  IN IF period.start < period.end THEN period.start <= local /\ local < period.end
     ELSE period.start <= local \/ local < period.end
=============================================================================
