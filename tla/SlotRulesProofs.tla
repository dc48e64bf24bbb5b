-------------------------- MODULE SlotRulesProofs --------------------------
(***************************************************************************)
(* Facts about local time and free slots, for any lengths of days and      *)
(* steps, and any zones: the queried days cover the working hours of a     *)
(* date, the slots are those that a walk in steps meets, and a slot of a   *)
(* date without a clock change nearby lies in the working hours.           *)
(***************************************************************************)
EXTENDS SlotRules, TLAPS

-----------------------------------------------------------------------------
(* Division.                                                               *)

\* A number is its quotient times the divisor, and a remainder.
LEMMA QuotientAndRemainder ==
  ASSUME NEW a \in Int, NEW d \in Nat \ {0}
  PROVE  \E q \in Int : \E r \in 0..(d - 1) :
           a = q * d + r /\ q = a \div d /\ r = a % d
<1>1. PICK q \in Int : q = a \div d
  OBVIOUS
<1>2. PICK r \in Int : r = a % d
  OBVIOUS
<1>3. r \in 0..(d - 1)
  BY <1>2
<1>4. a = q * d + r
  BY <1>1, <1>2
<1> QED BY <1>1, <1>2, <1>3, <1>4

\* There is only one such quotient and remainder.
LEMMA Divided ==
  ASSUME NEW d \in Nat \ {0}, NEW q \in Int, NEW r \in 0..(d - 1)
  PROVE  (q * d + r) \div d = q /\ (q * d + r) % d = r
OBVIOUS

\* An instant of day q, at time a of the day.
LEMMA DayAndTime ==
  ASSUME NEW q \in Int, NEW a \in 0..(DayLength - 1)
  PROVE  /\ (q * DayLength + a) \div DayLength = q
         /\ (q * DayLength + a) % DayLength = a
BY LengthsArePositive, Divided

\* After a step comes the next one, and none between them.
LEMMA NextMultiple ==
  ASSUME NEW d \in Nat \ {0}, NEW a \in Int, a % d = 0
  PROVE  /\ (a + d) % d = 0
         /\ \A b \in Int : a < b /\ b < a + d => b % d # 0
<1>1. PICK q \in Int : a = q * d + 0
  BY QuotientAndRemainder
<1>2. (a + d) % d = 0
  <2>1. a + d = (q + 1) * d + 0
    BY <1>1
  <2>2. ((q + 1) * d + 0) % d = 0
    <3>1. q + 1 \in Int /\ 0 \in 0..(d - 1)
      OBVIOUS
    <3> QED BY <3>1, Divided
  <2> QED BY <2>1, <2>2
<1>3. ASSUME NEW b \in Int, a < b, b < a + d PROVE b % d # 0
  <2>1. PICK r \in 1..(d - 1) : r = b - a
    BY <1>3
  <2>2. b = q * d + r
    BY <1>1, <2>1
  <2> QED BY <2>2, Divided
<1> QED BY <1>2, <1>3

\* The same for the step of the slots.
LEMMA NextStep ==
  ASSUME NEW a \in Int, a % SlotStep = 0
  PROVE  /\ (a + SlotStep) % SlotStep = 0
         /\ \A b \in Int : a < b /\ b < a + SlotStep => b % SlotStep # 0
BY LengthsArePositive, NextMultiple

-----------------------------------------------------------------------------
(* The working hours of a date, in UTC.                                    *)

\* The offset of a zone is less than a day, so a local time of a date is an
\* instant of the three UTC days around it.
LEMMA CombineIsNear ==
  ASSUME NEW zone \in Zone, NEW date \in Int, NEW time \in 0..(DayLength - 1)
  PROVE  /\ Combine(zone, date, time) \in Int
         /\ Combine(zone, date, time) > (date - 1) * DayLength
         /\ Combine(zone, date, time) < (date + 2) * DayLength
<1>1. DayLength \in Nat \ {0}
  BY LengthsArePositive
<1>2. PICK d \in Int : d = date * DayLength
  BY <1>1
<1>3. (date - 1) * DayLength = d - DayLength /\ (date + 2) * DayLength = d + DayLength + DayLength
  BY <1>1, <1>2
<1>4. /\ zone.before \in (1 - DayLength)..(DayLength - 1)
      /\ zone.after \in (1 - DayLength)..(DayLength - 1)
  BY DEF Zone
<1>5. \/ Combine(zone, date, time) = (d + time) - zone.before
      \/ Combine(zone, date, time) = (d + time) - zone.after
  BY <1>2 DEF Combine
<1> QED BY <1>1, <1>3, <1>4, <1>5

\* A steady date has one offset, and it is that of every instant of the
\* three UTC days around it.
LEMMA SteadyOffset ==
  ASSUME NEW zone \in Zone, NEW date \in Int, SteadyDate(zone, date)
  PROVE  \E offset \in (1 - DayLength)..(DayLength - 1) :
           /\ \A time \in 0..(DayLength - 1) :
                Combine(zone, date, time) = (date * DayLength + time) - offset
           /\ \A t \in Int :
                (date - 1) * DayLength < t /\ t < (date + 2) * DayLength =>
                  Offset(zone, t) = offset
<1>1. DayLength \in Nat \ {0}
  BY LengthsArePositive
<1>2. PICK d \in Int : d = date * DayLength
  BY <1>1
<1>3. (date - 1) * DayLength = d - DayLength /\ (date + 2) * DayLength = d + DayLength + DayLength
  BY <1>1, <1>2
<1>4. /\ zone.before \in (1 - DayLength)..(DayLength - 1)
      /\ zone.after \in (1 - DayLength)..(DayLength - 1)
      /\ zone.change \in Int
  BY DEF Zone
<1>5. CASE zone.change <= d - DayLength
  <2>1. \A time \in 0..(DayLength - 1) :
          ~ d + time < zone.change + Later(zone.before, zone.after)
    BY <1>1, <1>4, <1>5 DEF Later
  <2>2. \A time \in 0..(DayLength - 1) : Combine(zone, date, time) = (d + time) - zone.after
    BY <1>2, <2>1 DEF Combine
  <2>3. \A t \in Int : d - DayLength < t => Offset(zone, t) = zone.after
    BY <1>1, <1>4, <1>5 DEF Offset
  <2> QED BY <1>2, <1>3, <1>4, <2>2, <2>3
<1>6. CASE zone.change > d + DayLength + DayLength
  <2>1. \A time \in 0..(DayLength - 1) :
          d + time < zone.change + Later(zone.before, zone.after)
    BY <1>1, <1>4, <1>6 DEF Later
  <2>2. \A time \in 0..(DayLength - 1) : Combine(zone, date, time) = (d + time) - zone.before
    BY <1>2, <2>1 DEF Combine
  <2>3. \A t \in Int : t < d + DayLength + DayLength => Offset(zone, t) = zone.before
    BY <1>1, <1>4, <1>6 DEF Offset
  <2> QED BY <1>2, <1>3, <1>4, <2>2, <2>3
<1>7. CASE zone.before = zone.after
  BY <1>2, <1>4, <1>7 DEF Combine, Offset
<1> QED BY <1>3, <1>5, <1>6, <1>7 DEF SteadyDate

-----------------------------------------------------------------------------
(* Free slots.                                                             *)

\* What the search does not query cannot overlap an interval in the working
\* hours of the date.
LEMMA QueriedDaysSuffice ==
  ASSUME NEW zone \in Zone, NEW date \in Int, NEW hours \in Hours,
         NEW duration \in Nat, NEW busy \in SUBSET Interval,
         NEW t \in Int, t >= Window(zone, date, hours).start,
         t + duration <= Window(zone, date, hours).end
  PROVE  IsFree(t, duration, Fetched(date, busy)) <=> IsFree(t, duration, busy)
<1>1. /\ hours.open \in 0..(DayLength - 1) /\ hours.close \in 0..(DayLength - 1)
  BY DEF Hours
<1>2. t > (date - 1) * DayLength /\ t + duration < (date + 2) * DayLength
  BY <1>1, CombineIsNear, LengthsArePositive DEF Window
<1>3. \A b \in busy : b.start \in Int /\ b.end \in Int
  BY DEF Interval
<1>4. (date - 1) * DayLength \in Int /\ (date + 2) * DayLength \in Int
  BY LengthsArePositive
<1> QED BY <1>2, <1>3, <1>4 DEF IsFree, Fetched, Overlaps

\* A slot of a steady date lies on the local date, in the working hours.
LEMMA SlotsOfSteadyDatesFit ==
  ASSUME NEW zone \in Zone, NEW date \in Int, NEW hours \in Hours,
         NEW duration \in Nat, SteadyDate(zone, date),
         NEW t \in Int, t >= Window(zone, date, hours).start,
         t + duration <= Window(zone, date, hours).end
  PROVE  FitsHours(zone, date, hours, t, t + duration)
<1>1. DayLength \in Nat \ {0}
  BY LengthsArePositive
<1>2. PICK offset \in (1 - DayLength)..(DayLength - 1) :
        /\ \A time \in 0..(DayLength - 1) :
             Combine(zone, date, time) = (date * DayLength + time) - offset
        /\ \A u \in Int :
             (date - 1) * DayLength < u /\ u < (date + 2) * DayLength =>
               Offset(zone, u) = offset
  BY SteadyOffset
<1>3. PICK d \in Int : d = date * DayLength
  BY <1>1
<1>4. hours.open \in 0..(DayLength - 1) /\ hours.close \in 0..(DayLength - 1)
  BY DEF Hours
<1>5. t >= (d + hours.open) - offset /\ t + duration <= (d + hours.close) - offset
  BY <1>2, <1>3, <1>4 DEF Window
<1>6. ASSUME NEW u \in Int, (d + hours.open) - offset <= u, u <= (d + hours.close) - offset
      PROVE  /\ LocalDate(zone, u) = date
             /\ LocalTime(zone, u) = (u + offset) - d
             /\ (u + offset) - d \in 0..(DayLength - 1)
  <2>1. PICK a : a = (u + offset) - d
    OBVIOUS
  <2>2. a \in 0..(DayLength - 1) /\ u + offset = date * DayLength + a
    BY <1>1, <1>3, <1>4, <1>6, <2>1
  <2>3. (date - 1) * DayLength = d - DayLength /\ (date + 2) * DayLength = d + DayLength + DayLength
    BY <1>1, <1>3
  <2>4. Offset(zone, u) = offset
    BY <1>1, <1>2, <1>4, <1>6, <2>3
  <2> QED BY <2>1, <2>2, <2>4, DayAndTime DEF LocalDate, LocalTime
<1>7. /\ (d + hours.open) - offset <= t /\ t <= (d + hours.close) - offset
      /\ (d + hours.open) - offset <= t + duration
  BY <1>1, <1>4, <1>5
<1>8. LocalTime(zone, t) >= hours.open /\ LocalTime(zone, t + duration) <= hours.close
  BY <1>3, <1>4, <1>5, <1>6, <1>7
<1> QED BY <1>5, <1>6, <1>7, <1>8 DEF FitsHours
=============================================================================
