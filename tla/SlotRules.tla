----------------------------- MODULE SlotRules -----------------------------
(***************************************************************************)
(* Working hours and free slots: what the availability search offers on a  *)
(* local date, and the part of a booking's checks that it is compared with.*)
(***************************************************************************)
EXTENDS ZoneInfo

CONSTANT SlotStep   \* AVAILABILITY_SLOT_STEP_MINUTES

ASSUME LengthsArePositive == DayLength \in Nat \ {0} /\ SlotStep \in Nat \ {0}

Hours    == {h \in [open : 0..(DayLength - 1), close : 0..(DayLength - 1)] :
               h.open < h.close}
Interval == [start : Int, end : Int]

-----------------------------------------------------------------------------
(* From local time to UTC.                                                 *)

Later(a, b) == IF a > b THEN a ELSE b

\* Bug: the hours are taken for UTC.
CombineAsUtc(zone, date, time) == date * DayLength + time

\* datetime.combine with fold 0, then astimezone(utc): a time that occurs
\* twice is the first one, a time that is skipped is read with the old offset.
Combine(zone, date, time) ==
  LET wall == date * DayLength + time IN
  IF wall < zone.change + Later(zone.before, zone.after)
  THEN wall - zone.before ELSE wall - zone.after

-----------------------------------------------------------------------------
(* Slots.                                                                  *)

Overlaps(start, end, busy) == start < busy.end /\ end > busy.start

\* The working hours of a date as an interval of UTC.
Window(zone, date, hours) == [start |-> Combine(zone, date, hours.open),
                              end   |-> Combine(zone, date, hours.close)]

\* Bug: only the UTC day of the date is queried.
FetchedOnDate(date, busy) ==
  {b \in busy : b.start < (date + 1) * DayLength /\ b.end > date * DayLength}

\* The bookings and blackouts that the search queries: the UTC days from the
\* one before the date to the one after it.
Fetched(date, busy) ==
  {b \in busy : b.start < (date + 2) * DayLength /\ b.end > (date - 1) * DayLength}

IsFree(t, duration, busy) == \A b \in busy : ~ Overlaps(t, t + duration, b)

\* The starts of the slots to offer, whatever the order of their computation.
FreeSlots(zone, date, hours, duration, busy, now) ==
  LET w == Window(zone, date, hours) IN
  {t \in w.start..(w.end - duration) :
     (t - w.start) % SlotStep = 0 /\ t >= now /\ IsFree(t, duration, busy)}

\* The part of _validate_time_range that concerns local time, for hours that
\* are in force on the date.
FitsHours(zone, date, hours, start, end) ==
  /\ LocalDate(zone, start) = date
  /\ LocalDate(zone, end) = date
  /\ LocalTime(zone, start) >= hours.open
  /\ LocalTime(zone, end) <= hours.close
=============================================================================
