------------------------------ MODULE ZoneInfo ------------------------------
(***************************************************************************)
(* Local time, for the checks of a booking and for the search alike.       *)
(* Instants are ticks of UTC, a date is a day number, a time of day a tick *)
(* of its day.  A zone has one offset before an instant and one from it    *)
(* on, which is a clock change when they differ.                           *)
(***************************************************************************)
EXTENDS Integers

CONSTANT DayLength   \* ticks in a day

\* Zones lie less than a day from UTC.
Zone == [before : (1 - DayLength)..(DayLength - 1),
         after  : (1 - DayLength)..(DayLength - 1), change : Int]

Offset(zone, t)    == IF t < zone.change THEN zone.before ELSE zone.after
LocalDate(zone, t) == (t + Offset(zone, t)) \div DayLength
LocalTime(zone, t) == (t + Offset(zone, t)) % DayLength

\* No clock change within a day of the date.
SteadyDate(zone, date) ==
  \/ zone.before = zone.after
  \/ zone.change <= (date - 1) * DayLength
  \/ zone.change > (date + 2) * DayLength
=============================================================================
