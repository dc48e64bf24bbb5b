------------------------- MODULE AvailabilityProofs -------------------------
(***************************************************************************)
(* Theorems of Availability, for any searches among any requests: what the *)
(* cache holds under the current version of a resource is exact, slots     *)
(* offered under it can be booked, and no answer offers a slot that was    *)
(* taken all the while.  The version is what they rest on: it grows with   *)
(* every change, so equal versions mean equal tables.                      *)
(***************************************************************************)
EXTENDS Availability, BookingHistoryProofs

\* What SlotRulesProofs proves of local time and free slots.
P == INSTANCE SlotRulesProofs

-----------------------------------------------------------------------------
(* The inductive invariant.                                                *)

Unselected == {"new", "authorize", "notFound", "invalid", "select"}
Answers    == {"notFound", "invalid", "ok"}

\* What a search holds at each statement: rows once it has selected, hours
\* and busy intervals of the resources it missed, in the end slots of all.
SearchTyped(s) ==
  /\ at[s] \in {"new"} \union Searching \union Answers
  /\ at[s] # "new" => query[s] \in Queries
  /\ DOMAIN rows[s] \subseteq Resources
  /\ \A r \in DOMAIN rows[s] : rows[s][r] \in ResourceRow /\ rows[s][r].active
  /\ at[s] \in Unselected => DOMAIN rows[s] = {}
  /\ DOMAIN hours[s] \subseteq DOMAIN rows[s]
  /\ DOMAIN busy[s] \subseteq DOMAIN rows[s]
  /\ DOMAIN slots[s] \subseteq DOMAIN rows[s]
  /\ \A r \in DOMAIN hours[s] : hours[s][r] \in Hours \union {None}
  /\ at[s] = "bookings" => DOMAIN hours[s] = Missed(s)
  /\ at[s] \in {"blackouts", "calculate"} =>
       DOMAIN hours[s] = Missed(s) /\ DOMAIN busy[s] = Missed(s)
  /\ at[s] \in {"setMany", "ok"} => DOMAIN slots[s] = DOMAIN rows[s]
  /\ \A x \in standing[s] : IF x \in Ids THEN Confirmed(x) ELSE x \in blackouts

\* The slots that are free by the tables, as of the instant of the entry.
Exact(entry, r, date, duration) ==
  entry.starts =
    SlotsOn(resources[r].zone, date, rules[r][date % 7], duration,
            BookingsOf(r) \union BlackoutsOf(r), entry.asOf)

\* What a search at a label has read of the intervals of r.
Read(label, r) == IF label = "blackouts" THEN BookingsOf(r)
                  ELSE BookingsOf(r) \union BlackoutsOf(r)

\* As long as the version of a resource is the one that the search selected,
\* all it has read of the resource is still so.
Fresh(s) ==
  \A r \in DOMAIN rows[s] :
    /\ rows[s][r].version <= resources[r].version
    /\ rows[s][r].version = resources[r].version =>
         /\ rows[s][r] = resources[r]
         /\ r \in DOMAIN hours[s] => hours[s][r] = rules[r][query[s].date % 7]
         /\ r \in DOMAIN busy[s] =>
              busy[s][r] = S!Fetched(query[s].date, Read(at[s], r))
         /\ r \in DOMAIN slots[s] =>
              Exact(slots[s][r], r, query[s].date, query[s].duration)

\* An entry is filed under a version the resource has had, and is exact as
\* long as the resource has it.
CacheInv ==
  \A k \in DOMAIN cache :
    /\ k.resource \in Resources /\ k.version \in Nat
    /\ k.date \in Int /\ k.duration \in Nat \ {0}
    /\ k.version <= resources[k.resource].version
    /\ k.version = resources[k.resource].version =>
         Exact(cache[k], k.resource, k.date, k.duration)

\* What stands: the row of a booking, or a blackout.
Row(x) == IF x \in Ids THEN bookings[x] ELSE x

Avoids(starts, duration, b) ==
  \A t \in starts : ~ Overlaps(t, t + duration, b.start, b.end)

\* The entries under version v avoid x.
EntriesAvoid(x, v) ==
  \A k \in DOMAIN cache :
    k.resource = Row(x).resource /\ k.version = v =>
      Avoids(cache[k].starts, k.duration, Row(x))

\* Version v of the resource of x is the one that s has selected.
Chosen(s, x, v) == /\ Row(x).resource \in DOMAIN rows[s]
                   /\ rows[s][Row(x).resource].version = v

\* Then s knows of x once it has read the table of x, and its slots avoid x.
AnswerAvoids(s, x, v) ==
  Chosen(s, x, v) =>
    /\ /\ Row(x).resource \in DOMAIN busy[s]
       /\ at[s] = "blackouts" => x \in Ids
       => S!Fetched(query[s].date, {[start |-> Row(x).start, end |-> Row(x).end]})
            \subseteq busy[s][Row(x).resource]
    /\ Row(x).resource \in DOMAIN slots[s] =>
         Avoids(slots[s][Row(x).resource].starts, query[s].duration, Row(x))

\* Whatever has stood since a search selected a version of its resource is
\* respected by all that any search calculates from that version.
Respect(s) ==
  \A x \in standing[s], v \in Nat :
    Chosen(s, x, v) =>
      EntriesAvoid(x, v) /\ \A other \in Searches : AnswerAvoids(other, x, v)

SearchTables ==
  /\ DOMAIN at = Searches /\ DOMAIN query = Searches /\ DOMAIN rows = Searches
  /\ DOMAIN hours = Searches /\ DOMAIN busy = Searches /\ DOMAIN slots = Searches
  /\ DOMAIN standing = Searches

SInv ==
  /\ SearchTables
  /\ CacheInv
  /\ \A s \in Searches : SearchTyped(s) /\ Fresh(s) /\ Respect(s)

-----------------------------------------------------------------------------
(* The services under the searches.                                        *)

\* A row of a booking of another resource is none of r.
LEMMA OtherBookingsOnly ==
  ASSUME NEW r \in Resources,
         \A b \in Ids : \/ bookings'[b] = bookings[b]
                        \/ /\ ~ (Confirmed(b) /\ bookings[b].resource = r)
                           /\ ~ (Confirmed(b)' /\ bookings'[b].resource = r)
  PROVE  BookingsOf(r)' = BookingsOf(r)
<1>1. \A b \in Ids : (Confirmed(b)' /\ bookings'[b].resource = r) <=>
                     (Confirmed(b) /\ bookings[b].resource = r)
  BY DEF Confirmed
<1>2. \A b \in Ids : Confirmed(b) /\ bookings[b].resource = r => bookings'[b] = bookings[b]
  OBVIOUS
<1> QED BY <1>1, <1>2 DEF BookingsOf

\* A commit leaves the bookings of other resources alone.
LEMMA CommitKeepsOtherBookings ==
  ASSUME IInv, NEW p \in Requests, Commit(p), NEW r \in Resources, r # target[p]
  PROVE  BookingsOf(r)' = BookingsOf(r)
<1> USE DEF IInv, TypeOK
<1>1. CASE create_booking(p)
  <2>1. pc[p] = "commit"
    BY <1>1 DEF create_booking, Committing
  <2>2. bookings[p] = None /\ p \in Ids
    BY <2>1, AtCommit DEF Ids
  <2>3. /\ bookings'[p].resource = target[p]
        /\ \A b \in Ids : b # p => bookings'[b] = bookings[b]
    BY <1>1, <2>2 DEF create_booking
  <2> QED BY <2>2, <2>3, OtherBookingsOnly DEF Confirmed
<1>2. CASE reschedule_booking(p) \/ cancel_booking(p)
  <2>1. pc[p] = "commit" /\ req[p].op \in BookingOps
    BY <1>2 DEF reschedule_booking, cancel_booking, Committing, BookingOps
  <2>2. /\ req[p].booking \in Ids /\ bookings[req[p].booking] \in BookingRow
        /\ bookings[req[p].booking].resource = target[p]
    BY <2>1, AtCommit
  <2>3. /\ bookings'[req[p].booking].resource = target[p]
        /\ \A b \in Ids : b # req[p].booking => bookings'[b] = bookings[b]
    BY <1>2, <2>2 DEF reschedule_booking, cancel_booking, BookingRow
  <2> QED BY <2>2, <2>3, OtherBookingsOnly
<1>3. CASE \/ create_blackout(p) \/ upsert_availability_rule(p)
           \/ deactivate_resource(p) \/ update_resource(p) \/ update_organization(p)
  <2>1. bookings' = bookings
    BY <1>3 DEF create_blackout, upsert_availability_rule, deactivate_resource,
       update_resource, update_organization
  <2> QED BY <2>1, OtherBookingsOnly
<1> QED BY <1>1, <1>2, <1>3 DEF Commit

\* A commit leaves all of the other resources alone.
LEMMA CommitTouchesOneResource ==
  ASSUME IInv, NEW p \in Requests, Commit(p), NEW r \in Resources, r # target[p]
  PROVE  /\ resources'[r] = resources[r] /\ rules'[r] = rules[r]
         /\ BookingsOf(r)' = BookingsOf(r) /\ BlackoutsOf(r)' = BlackoutsOf(r)
<1> USE DEF IInv, TypeOK
<1>1. pc[p] = "commit"
  BY DEF Commit, Committing, create_booking, reschedule_booking, cancel_booking,
     create_blackout, upsert_availability_rule, deactivate_resource,
     update_resource, update_organization
<1>2. resources'[r] = resources[r] /\ rules'[r] = rules[r]
  BY DEF Commit, bump_availability_version, create_booking, reschedule_booking,
     cancel_booking, create_blackout, upsert_availability_rule, deactivate_resource,
     update_resource, update_organization, RuleTable
<1>3. BlackoutsOf(r)' = BlackoutsOf(r)
  <2>1. CASE create_blackout(p)
    <3> DEFINE new == [resource |-> target[p], start |-> req[p].start, end |-> req[p].end]
    <3>1. blackouts' = blackouts \union {new} /\ new.resource # r
      BY <2>1 DEF create_blackout
    <3> HIDE DEF new
    <3>2. {y \in blackouts' : y.resource = r} = {y \in blackouts : y.resource = r}
      BY <3>1
    <3> QED BY <3>2 DEF BlackoutsOf
  <2>2. CASE ~ create_blackout(p)
    <3>1. blackouts' = blackouts
      BY <2>2 DEF Commit, create_booking, reschedule_booking, cancel_booking,
         upsert_availability_rule, deactivate_resource, update_resource,
         update_organization
    <3> QED BY <3>1 DEF BlackoutsOf
  <2> QED BY <2>1, <2>2
<1> QED BY <1>2, <1>3, CommitKeepsOtherBookings

\* The version tells: it never falls, and where it stays everything that the
\* search reads of the resource stays.
LEMMA VersionTells ==
  ASSUME IInv, FInv, AInv, [Next]_vars, NEW r \in Resources
  PROVE  /\ resources[r].version <= resources'[r].version
         /\ resources'[r].version = resources[r].version =>
              /\ resources'[r] = resources[r] /\ rules'[r] = rules[r]
              /\ BookingsOf(r)' = BookingsOf(r) /\ BlackoutsOf(r)' = BlackoutsOf(r)
<1>1. resources[r].version \in Nat
  BY DEF IInv, TypeOK, ResourceRow
<1>2. ASSUME NEW p \in Requests, Commit(p), r = target[p]
      PROVE  resources'[r].version = resources[r].version + 1
  BY <1>2, CommitChangesOneRow
<1>3. ASSUME NEW p \in Requests, Commit(p), r # target[p]
      PROVE  /\ resources'[r] = resources[r] /\ rules'[r] = rules[r]
             /\ BookingsOf(r)' = BookingsOf(r) /\ BlackoutsOf(r)' = BlackoutsOf(r)
  BY <1>3, CommitTouchesOneResource
<1>4. ASSUME ~ \E p \in Requests : Commit(p)
      PROVE  /\ resources'[r] = resources[r] /\ rules'[r] = rules[r]
             /\ BookingsOf(r)' = BookingsOf(r) /\ BlackoutsOf(r)' = BlackoutsOf(r)
  BY <1>4, OnlyCommitsWrite DEF BookingsOf, BlackoutsOf, Confirmed
<1> QED BY <1>1, <1>2, <1>3, <1>4

\* The version of a resource tells whether it has changed in a step.
VersionsTell ==
  \A r \in Resources :
    /\ resources[r].version <= resources'[r].version
    /\ resources'[r].version = resources[r].version =>
         /\ resources'[r] = resources[r] /\ rules'[r] = rules[r]
         /\ BookingsOf(r)' = BookingsOf(r) /\ BlackoutsOf(r)' = BlackoutsOf(r)

\* In every behaviour of the services equal versions of a resource mean equal
\* rows, rules, bookings and blackouts: what the cache relies on.
THEOREM VersionsTellChanges == Spec => [][VersionsTell]_vars
<1>1. IInv /\ FInv /\ AInv /\ [Next]_vars => VersionsTell
  BY VersionTells DEF VersionsTell
<1>2. Init => FInv /\ AInv
  BY InitIsFit, InitIsRightful
<1> QED BY <1>1, <1>2, LockDiscipline, StepsKeepFInv, StepsKeepAInv, PTL DEF Spec

\* Blackouts are never lifted.
LEMMA BlackoutsStay == ASSUME IInv, [Next]_vars PROVE blackouts \subseteq blackouts'
<1>1. ASSUME NEW p \in Requests, Commit(p) PROVE blackouts \subseteq blackouts'
  BY <1>1 DEF Commit, create_booking, reschedule_booking, cancel_booking,
     create_blackout, upsert_availability_rule, deactivate_resource,
     update_resource, update_organization
<1> QED BY <1>1, OnlyCommitsWrite

\* Under the searches the services behave as they do without.
LEMMA SearchesDisturbNothing == SearchSpec => Spec
<1>1. SearchInit => Init
  BY DEF SearchInit
<1>2. [SearchNext]_<<vars, searchVars>> => [Next]_vars
  <2>1. ASSUME NEW s \in Searches, SearchStep(s) \/ \E q \in Queries : Ask(s, q)
        PROVE  UNCHANGED vars
    BY <2>1 DEF SearchStep, CheckQuery, SelectResources, GetMany, FetchRules,
       FetchBookings, FetchBlackouts, Calculate, SetMany, Ask
  <2>2. ASSUME NEW k, Evict(k) PROVE UNCHANGED vars
    BY <2>2 DEF Evict
  <2> QED BY <2>1, <2>2 DEF SearchNext, ServiceStep
<1> QED BY <1>1, <1>2, PTL DEF SearchSpec, Spec

\* What is known of the services at every step of a search.
LEMMA ServicesStandFast == SearchSpec => [](IInv /\ FInv /\ AInv)
<1>1. Init => FInv /\ AInv
  BY InitIsFit, InitIsRightful
<1> QED BY <1>1, SearchesDisturbNothing, LockDiscipline, StepsKeepFInv, StepsKeepAInv,
        PTL DEF Spec

-----------------------------------------------------------------------------
(* Slots.  The facts of SlotRulesProofs, for the zones of the services.    *)

\* The services, the search and the facts speak of the same things.
LEMMA SameZone ==
  ASSUME NEW zone \in Zones
  PROVE  zone \in P!Zone
BY TimesTyped DEF P!Zone, Zone

\* Hours are the same pairs of times of day.
LEMMA SameHours == P!Hours = Hours
BY DEF P!Hours, Hours, TimeOfDay

\* Windows, fetched intervals and freedom are the same.
LEMMA SameRules ==
  ASSUME NEW zone, NEW date, NEW open, NEW t, NEW duration, NEW taken
  PROVE  /\ P!Window(zone, date, open) = S!Window(zone, date, open)
         /\ P!Fetched(date, taken) = S!Fetched(date, taken)
         /\ P!IsFree(t, duration, taken) <=> S!IsFree(t, duration, taken)
BY DEF P!Window, S!Window, P!Combine, S!Combine, P!Later, S!Later,
       P!Fetched, S!Fetched, P!IsFree, S!IsFree, P!Overlaps, S!Overlaps

\* The working hours of a date begin and end at instants.
LEMMA WindowTyped ==
  ASSUME NEW zone \in Zones, NEW date \in Int, NEW open \in Hours
  PROVE  /\ S!Window(zone, date, open).start \in Int
         /\ S!Window(zone, date, open).end \in Int
<1>1. open.open \in 0..(DayLength - 1) /\ open.close \in 0..(DayLength - 1)
  BY DEF Hours, TimeOfDay
<1>2. /\ P!Combine(zone, date, open.open) \in Int
      /\ P!Combine(zone, date, open.close) \in Int
  BY <1>1, SameZone, StepTyped, DayTyped, P!CombineIsNear
<1> QED BY <1>2, SameRules DEF P!Window

\* A slot lies in the working hours and meets nothing that is taken.
LEMMA SlotMeans ==
  ASSUME NEW zone \in Zones, NEW date \in Int, NEW open \in Hours \union {None},
         NEW duration \in Nat \ {0}, NEW taken, NEW clock
  PROVE  \A t : t \in SlotsOn(zone, date, open, duration, taken, clock) <=>
           /\ open # None
           /\ t \in Int
           /\ t >= S!Window(zone, date, open).start
           /\ t + duration <= S!Window(zone, date, open).end
           /\ (t - S!Window(zone, date, open).start) % SlotStep = 0
           /\ t >= clock
           /\ S!IsFree(t, duration, taken)
<1>1. CASE open = None
  BY <1>1 DEF SlotsOn
<1>2. CASE open # None
  <2>1. open \in Hours
    BY <1>2
  <2>2. PICK w : w = S!Window(zone, date, open)
    OBVIOUS
  <2>3. w.start \in Int /\ w.end \in Int
    BY <2>1, <2>2, WindowTyped
  <2>4. SlotsOn(zone, date, open, duration, taken, clock) =
          {t \in w.start..(w.end - duration) :
             (t - w.start) % SlotStep = 0 /\ t >= clock /\ S!IsFree(t, duration, taken)}
    BY <1>2, <2>2 DEF SlotsOn, S!FreeSlots
  <2>5. \A t : t \in w.start..(w.end - duration) <=>
               t \in Int /\ t >= w.start /\ t + duration <= w.end
    BY <2>3
  <2> QED BY <1>2, <2>2, <2>4, <2>5
<1> QED BY <1>1, <1>2

\* In the working hours nothing is missed by the query of three days.
LEMMA NothingIsMissed ==
  ASSUME NEW zone \in Zones, NEW date \in Int, NEW open \in Hours,
         NEW duration \in Nat \ {0}, NEW taken \in SUBSET S!Interval, NEW t \in Int,
         t >= S!Window(zone, date, open).start,
         t + duration <= S!Window(zone, date, open).end
  PROVE  S!IsFree(t, duration, S!Fetched(date, taken)) <=> S!IsFree(t, duration, taken)
<1>1. /\ t >= P!Window(zone, date, open).start
      /\ t + duration <= P!Window(zone, date, open).end
  BY SameRules
<1>2. zone \in P!Zone /\ open \in P!Hours /\ taken \in SUBSET P!Interval
      /\ duration \in Nat
  BY SameZone, SameHours DEF P!Interval, S!Interval
<1>3. P!IsFree(t, duration, P!Fetched(date, taken)) <=> P!IsFree(t, duration, taken)
  BY <1>1, <1>2, StepTyped, DayTyped, P!QueriedDaysSuffice
<1> QED BY <1>3, SameRules

\* So slots over what was queried are slots over all.
LEMMA FetchedSlots ==
  ASSUME NEW zone \in Zones, NEW date \in Int, NEW open \in Hours \union {None},
         NEW duration \in Nat \ {0}, NEW taken \in SUBSET S!Interval, NEW clock
  PROVE  SlotsOn(zone, date, open, duration, S!Fetched(date, taken), clock) =
           SlotsOn(zone, date, open, duration, taken, clock)
<1>1. ASSUME NEW t
      PROVE  t \in SlotsOn(zone, date, open, duration, S!Fetched(date, taken), clock) <=>
             t \in SlotsOn(zone, date, open, duration, taken, clock)
  BY SlotMeans, NothingIsMissed
<1> QED
  <2> DEFINE A == SlotsOn(zone, date, open, duration, S!Fetched(date, taken), clock)
             B == SlotsOn(zone, date, open, duration, taken, clock)
  <2>1. \A t : t \in A <=> t \in B
    BY <1>1
  <2>2. A \in SUBSET Int /\ B \in SUBSET Int
    BY SlotMeans
  <2> HIDE DEF A, B
  <2>3. A = B
    BY <2>1, <2>2
  <2> QED BY <2>3 DEF A, B

\* A slot fits the working hours on the local date if no clock change is near.
LEMMA SlotsFit ==
  ASSUME NEW zone \in Zones, NEW date \in Int, NEW open \in Hours,
         NEW duration \in Nat \ {0}, NEW t \in Int, SteadyDate(zone, date),
         t >= S!Window(zone, date, open).start,
         t + duration <= S!Window(zone, date, open).end
  PROVE  /\ LocalDate(zone, t) = date /\ LocalDate(zone, t + duration) = date
         /\ LocalTime(zone, t) >= open.open
         /\ LocalTime(zone, t + duration) <= open.close
<1>1. /\ t >= P!Window(zone, date, open).start
      /\ t + duration <= P!Window(zone, date, open).end
  BY SameRules
<1>2. zone \in P!Zone /\ open \in P!Hours /\ P!SteadyDate(zone, date)
      /\ duration \in Nat
  BY SameZone, SameHours DEF P!SteadyDate, SteadyDate
<1>3. P!FitsHours(zone, date, open, t, t + duration)
  BY <1>1, <1>2, StepTyped, DayTyped, P!SlotsOfSteadyDatesFit
<1>4. \A u \in Int : /\ P!LocalDate(zone, u) = LocalDate(zone, u)
                     /\ P!LocalTime(zone, u) = LocalTime(zone, u)
  BY DEF P!LocalDate, P!LocalTime, P!Offset, LocalDate, LocalTime, Offset
<1> QED BY <1>3, <1>4 DEF P!FitsHours

\* The intervals of a resource.
LEMMA IntervalsTyped ==
  ASSUME TypeOK, NEW r
  PROVE  BookingsOf(r) \in SUBSET S!Interval /\ BlackoutsOf(r) \in SUBSET S!Interval
<1>1. \A b \in Ids : Confirmed(b) => bookings[b].start \in Int /\ bookings[b].end \in Int
  BY TimesTyped DEF TypeOK, Confirmed, BookingRow
<1>2. \A x \in blackouts : x.start \in Int /\ x.end \in Int
  BY TimesTyped DEF TypeOK, Blackout
<1> QED BY <1>1, <1>2 DEF BookingsOf, BlackoutsOf, S!Interval

-----------------------------------------------------------------------------
(* Steps of the services.                                                  *)

Stands(x) == IF x \in Ids THEN Confirmed(x) ELSE x \in blackouts

\* What a query asks.
LEMMA QueryFields ==
  ASSUME NEW q \in Queries
  PROVE  q.date \in Int /\ q.duration \in Nat \ {0}
BY QueriesTyped DEF Query

\* The row and the rules of a resource.
LEMMA RulesTyped ==
  ASSUME TypeOK, NEW r \in Resources, NEW date \in Int
  PROVE  resources[r].zone \in Zones /\ rules[r][date % 7] \in Hours \union {None}
<1>1. date % 7 \in Weekdays
  BY DEF Weekdays
<1>2. rules[r] \in [Weekdays -> Hours \union {None}] /\ resources[r] \in ResourceRow
  BY DEF TypeOK, RuleTable
<1> QED BY <1>1, <1>2 DEF ResourceRow

\* What stands is among the intervals of its resource.
LEMMA StandingIntervals ==
  ASSUME NEW x, Stands(x)
  PROVE  [start |-> Row(x).start, end |-> Row(x).end] \in
           IF x \in Ids THEN BookingsOf(Row(x).resource) ELSE BlackoutsOf(Row(x).resource)
BY DEF Stands, Row, BookingsOf, BlackoutsOf

\* It has its type.
LEMMA StandingTyped ==
  ASSUME TypeOK, NEW x, Stands(x)
  PROVE  /\ Row(x).resource \in Resources
         /\ [start |-> Row(x).start, end |-> Row(x).end] \in S!Interval
<1>1. Row(x) \in BookingRow \union Blackout
  BY DEF TypeOK, Stands, Row, Confirmed
<1> QED BY <1>1, TimesTyped DEF BookingRow, Blackout, S!Interval

\* Exact slots avoid all that stands.
LEMMA ExactAvoids ==
  ASSUME TypeOK, NEW x, Stands(x), NEW entry, NEW date \in Int, NEW duration \in Nat \ {0},
         Exact(entry, Row(x).resource, date, duration)
  PROVE  Avoids(entry.starts, duration, Row(x))
<1>1. PICK r : r = Row(x).resource
  OBVIOUS
<1>2. r \in Resources
  BY <1>1, StandingTyped
<1>3. resources[r].zone \in Zones /\ rules[r][date % 7] \in Hours \union {None}
  BY <1>2, RulesTyped
<1>4. [start |-> Row(x).start, end |-> Row(x).end] \in BookingsOf(r) \union BlackoutsOf(r)
  BY <1>1, StandingIntervals
<1>5. ASSUME NEW t \in entry.starts PROVE ~ Overlaps(t, t + duration, Row(x).start, Row(x).end)
  <2>1. S!IsFree(t, duration, BookingsOf(r) \union BlackoutsOf(r))
    <3>1. PICK zone \in Zones, open \in Hours \union {None} :
            zone = resources[r].zone /\ open = rules[r][date % 7]
      BY <1>3
    <3>2. PICK taken : taken = BookingsOf(r) \union BlackoutsOf(r)
      OBVIOUS
    <3>3. t \in SlotsOn(zone, date, open, duration, taken, entry.asOf)
      BY <1>1, <3>1, <3>2 DEF Exact
    <3>4. S!IsFree(t, duration, taken)
      BY <3>3, SlotMeans
    <3> QED BY <3>2, <3>4
  <2> QED BY <1>4, <2>1 DEF S!IsFree, S!Overlaps, Overlaps
<1> QED BY <1>5 DEF Avoids

\* A step of the services keeps what the searches have.
LEMMA ServicesKeepSearches ==
  ASSUME IInv, FInv, AInv, SInv, ServiceStep
  PROVE  SInv'
<1> USE DEF SInv
<1>1. /\ [Next]_vars
      /\ UNCHANGED <<cache, at, query, maximum, rows, hours, busy, slots>>
      /\ standing' = [s \in Searches |->
           {x \in standing[s] : x \in Ids => bookings'[x] = bookings[x]}]
  BY DEF ServiceStep, searchLocals
<1>2. \A r \in Resources : resources[r].version \in Nat
  BY DEF IInv, TypeOK, ResourceRow
<1>3. SearchTables'
  BY <1>1 DEF SearchTables
<1>4. CacheInv'
  <2> SUFFICES ASSUME NEW k \in DOMAIN cache
               PROVE  /\ k.version <= resources'[k.resource].version
                      /\ k.version = resources'[k.resource].version =>
                           Exact(cache[k], k.resource, k.date, k.duration)'
    BY <1>1 DEF CacheInv
  <2>1. PICK r \in Resources : r = k.resource
    BY DEF CacheInv
  <2>2. /\ resources[r].version <= resources'[r].version
        /\ resources'[r].version = resources[r].version =>
              /\ resources'[r] = resources[r] /\ rules'[r] = rules[r]
              /\ BookingsOf(r)' = BookingsOf(r) /\ BlackoutsOf(r)' = BlackoutsOf(r)
    BY <1>1, VersionTells
  <2>3. resources[r].version \in Nat /\ resources'[r].version \in Nat
    <3>1. IInv'
      BY <1>1, StepsKeepIInv
    <3> QED BY <1>2, <3>1 DEF IInv, TypeOK, ResourceRow
  <2>4. /\ k.version \in Nat /\ k.version <= resources[r].version
        /\ k.version = resources[r].version =>
             Exact(cache[k], r, k.date, k.duration)
    BY <2>1 DEF CacheInv
  <2>5. k.version = resources'[r].version => Exact(cache[k], r, k.date, k.duration)'
    <3>1. SUFFICES ASSUME k.version = resources'[r].version
                   PROVE  Exact(cache[k], r, k.date, k.duration)'
      OBVIOUS
    <3>2. k.version = resources[r].version /\ resources'[r].version = resources[r].version
      BY <2>2, <2>3, <2>4, <3>1
    <3>3. Exact(cache[k], r, k.date, k.duration)
      BY <2>4, <3>2
    <3> QED BY <1>1, <2>2, <3>2, <3>3 DEF Exact
  <2> QED BY <2>1, <2>2, <2>3, <2>4, <2>5
<1>5. ASSUME NEW s \in Searches PROVE SearchTyped(s)'
  <2>1. \A x \in standing'[s] : IF x \in Ids THEN Confirmed(x)' ELSE x \in blackouts'
    BY <1>1, BlackoutsStay DEF SearchTyped, Confirmed
  <2> QED BY <1>1, <2>1 DEF SearchTyped, Missed
<1>6. ASSUME NEW s \in Searches PROVE Fresh(s)'
  <2> SUFFICES ASSUME NEW r \in DOMAIN rows[s]
               PROVE  /\ rows[s][r].version <= resources'[r].version
                      /\ rows[s][r].version = resources'[r].version =>
                           /\ rows[s][r] = resources'[r]
                           /\ r \in DOMAIN hours[s] =>
                                hours[s][r] = rules'[r][query[s].date % 7]
                           /\ r \in DOMAIN busy[s] =>
                                busy[s][r] = S!Fetched(query[s].date, Read(at[s], r)')
                           /\ r \in DOMAIN slots[s] =>
                                Exact(slots[s][r], r, query[s].date, query[s].duration)'
    BY <1>1 DEF Fresh
  <2>1. r \in Resources /\ rows[s][r].version \in Nat
    BY DEF SearchTyped, ResourceRow
  <2>2. /\ resources[r].version <= resources'[r].version
        /\ resources'[r].version = resources[r].version =>
              /\ resources'[r] = resources[r] /\ rules'[r] = rules[r]
              /\ BookingsOf(r)' = BookingsOf(r) /\ BlackoutsOf(r)' = BlackoutsOf(r)
    BY <1>1, <2>1, VersionTells
  <2>3. resources[r].version \in Nat /\ resources'[r].version \in Nat
    <3>1. IInv'
      BY <1>1, StepsKeepIInv
    <3> QED BY <1>2, <2>1, <3>1 DEF IInv, TypeOK, ResourceRow
  <2>4. /\ rows[s][r].version <= resources[r].version
        /\ rows[s][r].version = resources[r].version =>
             /\ rows[s][r] = resources[r]
             /\ r \in DOMAIN hours[s] => hours[s][r] = rules[r][query[s].date % 7]
             /\ r \in DOMAIN busy[s] =>
                  busy[s][r] = S!Fetched(query[s].date, Read(at[s], r))
             /\ r \in DOMAIN slots[s] =>
                  Exact(slots[s][r], r, query[s].date, query[s].duration)
    BY DEF Fresh
  <2>5. rows[s][r].version <= resources'[r].version
    BY <2>1, <2>2, <2>3, <2>4
  <2>6. CASE rows[s][r].version = resources'[r].version
    <3>1. /\ rows[s][r].version = resources[r].version
          /\ resources'[r].version = resources[r].version
      BY <2>1, <2>2, <2>3, <2>4, <2>6
    <3>2. /\ resources'[r] = resources[r] /\ rules'[r] = rules[r]
          /\ BookingsOf(r)' = BookingsOf(r) /\ BlackoutsOf(r)' = BlackoutsOf(r)
      BY <2>2, <3>1
    <3>3. Read(at[s], r)' = Read(at[s], r)
      BY <1>1, <3>2 DEF Read
    <3>4. Exact(slots[s][r], r, query[s].date, query[s].duration) =>
            Exact(slots[s][r], r, query[s].date, query[s].duration)'
      BY <1>1, <3>2 DEF Exact
    <3> QED BY <2>4, <2>5, <3>1, <3>2, <3>3, <3>4
  <2> QED BY <2>5, <2>6
<1>7. ASSUME NEW s \in Searches PROVE Respect(s)'
  <2> SUFFICES ASSUME NEW x \in standing'[s], NEW v \in Nat, Chosen(s, x, v)'
               PROVE  EntriesAvoid(x, v)' /\ \A other \in Searches : AnswerAvoids(other, x, v)'
    BY DEF Respect
  <2>1. x \in standing[s] /\ Row(x)' = Row(x)
    BY <1>1 DEF Row
  <2>2. Chosen(s, x, v)
    BY <1>1, <2>1 DEF Chosen
  <2>3. EntriesAvoid(x, v) /\ \A other \in Searches : AnswerAvoids(other, x, v)
    BY <2>1, <2>2 DEF Respect
  <2>4. EntriesAvoid(x, v)'
    BY <1>1, <2>1, <2>3 DEF EntriesAvoid, Avoids
  <2>5. ASSUME NEW other \in Searches PROVE AnswerAvoids(other, x, v)'
    <3>1. AnswerAvoids(other, x, v)
      BY <2>3
    <3> QED BY <1>1, <2>1, <3>1 DEF AnswerAvoids, Avoids, Chosen
  <2> QED BY <2>4, <2>5
<1> QED BY <1>3, <1>4, <1>5, <1>6, <1>7

-----------------------------------------------------------------------------
(* Steps of a search.                                                      *)

\* Search q moves: the services, and the other searches, stay.
Moves(q) ==
  /\ UNCHANGED vars
  /\ SearchTables'
  /\ \A s \in Searches \ {q} :
       /\ at'[s] = at[s] /\ query'[s] = query[s] /\ rows'[s] = rows[s]
       /\ hours'[s] = hours[s] /\ busy'[s] = busy[s] /\ slots'[s] = slots[s]
       /\ standing'[s] = standing[s]

\* While the services stay, what they say stays.
LEMMA ServicesStay ==
  ASSUME UNCHANGED vars
  PROVE  /\ UNCHANGED <<now, resources, rules, bookings, blackouts>>
         /\ \A r : BookingsOf(r)' = BookingsOf(r) /\ BlackoutsOf(r)' = BlackoutsOf(r)
         /\ \A x : Row(x)' = Row(x) /\ (Stands(x)' <=> Stands(x))
BY DEF vars, tables, BookingsOf, BlackoutsOf, Confirmed, Row, Stands

\* The other searches keep their part.
LEMMA OthersRest ==
  ASSUME SInv, NEW q \in Searches, Moves(q), NEW s \in Searches \ {q}
  PROVE  SearchTyped(s)' /\ Fresh(s)'
<1>1. /\ at'[s] = at[s] /\ query'[s] = query[s] /\ rows'[s] = rows[s]
      /\ hours'[s] = hours[s] /\ busy'[s] = busy[s] /\ slots'[s] = slots[s]
      /\ standing'[s] = standing[s]
  BY DEF Moves
<1>2. /\ UNCHANGED <<now, resources, rules, bookings, blackouts>>
      /\ \A r : BookingsOf(r)' = BookingsOf(r) /\ BlackoutsOf(r)' = BlackoutsOf(r)
  BY ServicesStay DEF Moves
<1>3. SearchTyped(s)'
  BY <1>1, <1>2 DEF SInv, SearchTyped, Missed, Confirmed
<1>4. Fresh(s)'
  <2> SUFFICES ASSUME NEW r \in DOMAIN rows[s]
               PROVE  /\ rows[s][r].version <= resources[r].version
                      /\ rows[s][r].version = resources[r].version =>
                           /\ rows[s][r] = resources[r]
                           /\ r \in DOMAIN hours[s] =>
                                hours[s][r] = rules[r][query[s].date % 7]
                           /\ r \in DOMAIN busy[s] =>
                                busy[s][r] = S!Fetched(query[s].date, Read(at[s], r)')
                           /\ r \in DOMAIN slots[s] =>
                                Exact(slots[s][r], r, query[s].date, query[s].duration)'
    BY <1>1, <1>2 DEF Fresh
  <2>1. Read(at[s], r)' = Read(at[s], r)
    BY <1>1, <1>2 DEF Read
  <2>2. Exact(slots[s][r], r, query[s].date, query[s].duration)' <=>
          Exact(slots[s][r], r, query[s].date, query[s].duration)
    BY <1>1, <1>2 DEF Exact
  <2> QED BY <2>1, <2>2 DEF SInv, Fresh
<1> QED BY <1>3, <1>4

\* A search that does not select keeps the invariant if it keeps its own part,
\* that of the cache, and what entries and its answer avoid.
LEMMA MovesKeepSInv ==
  ASSUME SInv, NEW q \in Searches, Moves(q), rows' = rows, standing' = standing,
         CacheInv', SearchTyped(q)', Fresh(q)',
         \A x, v : Stands(x) /\ EntriesAvoid(x, v) /\ AnswerAvoids(q, x, v) =>
                     EntriesAvoid(x, v)' /\ AnswerAvoids(q, x, v)'
  PROVE  SInv'
<1>1. /\ UNCHANGED <<now, resources, rules, bookings, blackouts>>
      /\ \A x : Row(x)' = Row(x)
  BY ServicesStay DEF Moves
<1>2. ASSUME NEW s \in Searches PROVE SearchTyped(s)' /\ Fresh(s)'
  BY OthersRest
<1>3. ASSUME NEW s \in Searches PROVE Respect(s)'
  <2> SUFFICES ASSUME NEW x \in standing[s], NEW v \in Nat, Chosen(s, x, v)'
               PROVE  EntriesAvoid(x, v)' /\ \A other \in Searches : AnswerAvoids(other, x, v)'
    BY DEF Respect
  <2>1. Chosen(s, x, v)
    BY <1>1 DEF Chosen
  <2>2. EntriesAvoid(x, v) /\ \A other \in Searches : AnswerAvoids(other, x, v)
    BY <2>1 DEF SInv, Respect
  <2>3. Stands(x)
    BY DEF SInv, SearchTyped, Stands
  <2>4. ASSUME NEW other \in Searches \ {q} PROVE AnswerAvoids(other, x, v)'
    <3>1. AnswerAvoids(other, x, v)
      BY <2>2
    <3>2. /\ at'[other] = at[other] /\ query'[other] = query[other]
          /\ busy'[other] = busy[other] /\ slots'[other] = slots[other]
      BY DEF Moves
    <3> QED BY <1>1, <3>1, <3>2 DEF AnswerAvoids, Avoids, Chosen
  <2> QED BY <2>2, <2>3, <2>4
<1> QED BY <1>2, <1>3 DEF SInv, Moves

\* The cache that stays keeps its part, and the entries what they avoid.
LEMMA CacheStays ==
  ASSUME SInv, UNCHANGED vars, cache' = cache
  PROVE  CacheInv' /\ \A x, v : EntriesAvoid(x, v) => EntriesAvoid(x, v)'
<1>1. /\ UNCHANGED <<now, resources, rules, bookings, blackouts>>
      /\ \A r : BookingsOf(r)' = BookingsOf(r) /\ BlackoutsOf(r)' = BlackoutsOf(r)
      /\ \A x : Row(x)' = Row(x)
  BY ServicesStay
<1>2. CacheInv'
  BY <1>1 DEF SInv, CacheInv, Exact
<1>3. ASSUME NEW x, NEW v, EntriesAvoid(x, v) PROVE EntriesAvoid(x, v)'
  BY <1>1, <1>3 DEF EntriesAvoid, Avoids
<1> QED BY <1>2, <1>3

\* Before it selects a search has nothing.
LEMMA BeginningKeepsSInv ==
  ASSUME SInv, NEW q \in Searches, CheckQuery(q) \/ \E m \in Queries : Ask(q, m)
  PROVE  SInv'
<1> USE DEF SInv
<1>1. /\ UNCHANGED <<vars, cache, rows, hours, busy, slots, standing>>
      /\ at[q] \in {"new", "authorize"}
  BY DEF CheckQuery, Ask, searchLocals
<1>2. Moves(q)
  BY <1>1 DEF CheckQuery, Ask, Proceed, searchLocals, SearchTables, Moves
<1>3. at'[q] \in {"authorize", "notFound", "invalid", "select"} /\ query'[q] \in Queries
  BY DEF CheckQuery, Ask, Proceed, searchLocals, SearchTables, SearchTyped
<1>4. DOMAIN rows[q] = {}
  BY <1>1 DEF SearchTyped, Unselected
<1>5. SearchTyped(q)'
  <2>1. \A x : Stands(x)' <=> Stands(x)
    BY <1>1, ServicesStay
  <2>2. \A x \in standing'[q] : IF x \in Ids THEN Confirmed(x)' ELSE x \in blackouts'
    BY <1>1, <2>1 DEF SearchTyped, Stands
  <2>3. rows'[q] = rows[q] /\ hours'[q] = hours[q] /\ busy'[q] = busy[q] /\ slots'[q] = slots[q]
    BY <1>1
  <2>4. DOMAIN hours[q] = {} /\ DOMAIN busy[q] = {} /\ DOMAIN slots[q] = {}
    BY <1>4 DEF SearchTyped
  <2> HIDE DEF SInv
  <2> QED BY <1>3, <1>4, <2>2, <2>3, <2>4 DEF SearchTyped, Searching, Answers
<1>6. Fresh(q)'
  BY <1>1, <1>4 DEF Fresh
<1>7. \A x, v : AnswerAvoids(q, x, v)'
  BY <1>1, <1>4 DEF AnswerAvoids, Chosen
<1> HIDE DEF SInv
<1> QED BY <1>1, <1>2, <1>5, <1>6, <1>7, CacheStays, MovesKeepSInv

\* What stands for a search goes on standing while the services stay.
LEMMA StandingStays ==
  ASSUME SInv, NEW q \in Searches, UNCHANGED vars, standing'[q] = standing[q]
  PROVE  \A x \in standing'[q] : IF x \in Ids THEN Confirmed(x)' ELSE x \in blackouts'
BY ServicesStay DEF SInv, SearchTyped, Stands

\* The answers from the cache are what they were filed as.
LEMMA GetManyKeepsSInv ==
  ASSUME SInv, NEW q \in Searches, GetMany(q)
  PROVE  SInv'
<1> DEFINE hits == {r \in DOMAIN rows[q] : KeyOf(q, r) \in DOMAIN cache}
<1>1. /\ UNCHANGED <<vars, cache, query, maximum, rows, hours, busy, standing>>
      /\ at[q] = "getMany" /\ SearchTables
      /\ at' = [at EXCEPT ![q] = IF hits = DOMAIN rows[q] THEN "ok" ELSE "rules"]
      /\ slots' = [slots EXCEPT ![q] = [r \in hits |-> cache[KeyOf(q, r)]]]
  BY DEF GetMany, Proceed, SInv
<1>2. /\ at'[q] = IF hits = DOMAIN rows[q] THEN "ok" ELSE "rules"
      /\ DOMAIN slots'[q] = hits
      /\ \A r \in hits : slots'[q][r] = cache[KeyOf(q, r)]
  BY <1>1 DEF SearchTables
<1>3. Moves(q)
  BY <1>1 DEF SearchTables, Moves
<1>4. SearchTyped(q) /\ Fresh(q) /\ CacheInv
  BY DEF SInv
<1>5. /\ UNCHANGED <<now, resources, rules, bookings, blackouts>>
      /\ \A r : BookingsOf(r)' = BookingsOf(r) /\ BlackoutsOf(r)' = BlackoutsOf(r)
      /\ \A x : Row(x)' = Row(x)
  BY <1>1, ServicesStay
<1>6. hits \subseteq DOMAIN rows[q] /\ \A r \in hits : KeyOf(q, r) \in DOMAIN cache
  OBVIOUS
<1>7. \A r : /\ KeyOf(q, r).resource = r /\ KeyOf(q, r).version = rows[q][r].version
             /\ KeyOf(q, r).date = query[q].date
             /\ KeyOf(q, r).duration = query[q].duration
  BY DEF KeyOf, CacheKey
<1> HIDE DEF hits
<1>8. SearchTyped(q)'
  <2>1. \A x \in standing'[q] : IF x \in Ids THEN Confirmed(x)' ELSE x \in blackouts'
    BY <1>1, StandingStays
  <2> QED BY <1>1, <1>2, <1>4, <1>6, <2>1 DEF SearchTyped, Answers, Searching, Unselected
<1>9. Fresh(q)'
  <2> SUFFICES ASSUME NEW r \in DOMAIN rows[q],
                      rows[q][r].version = resources[r].version
               PROVE  /\ r \in DOMAIN busy[q] =>
                           busy[q][r] = S!Fetched(query[q].date, Read(at[q], r)')
                      /\ r \in DOMAIN slots'[q] =>
                           Exact(slots[q][r], r, query[q].date, query[q].duration)'
    BY <1>1, <1>4, <1>5 DEF Fresh
  <2>1. Read(at[q], r)' = Read(at[q], r)
    BY <1>1, <1>2, <1>5 DEF Read
  <2>2. ASSUME r \in hits
        PROVE  Exact(cache[KeyOf(q, r)], r, query[q].date, query[q].duration)
    BY <1>4, <1>6, <1>7, <2>2 DEF CacheInv
  <2>3. ASSUME r \in hits
        PROVE  Exact(slots[q][r], r, query[q].date, query[q].duration)'
    BY <1>1, <1>2, <1>5, <2>2, <2>3 DEF Exact
  <2> QED BY <1>2, <1>4, <2>1, <2>3 DEF Fresh
<1>10. ASSUME NEW x, NEW v, EntriesAvoid(x, v), AnswerAvoids(q, x, v)
       PROVE  AnswerAvoids(q, x, v)'
  <2>1. PICK r : r = Row(x).resource
    OBVIOUS
  <2> SUFFICES ASSUME r \in DOMAIN rows[q], rows[q][r].version = v
               PROVE  /\ r \in DOMAIN busy[q] =>
                           S!Fetched(query[q].date,
                                     {[start |-> Row(x).start, end |-> Row(x).end]})
                             \subseteq busy[q][r]
                      /\ r \in DOMAIN slots'[q] =>
                           Avoids(slots'[q][r].starts, query[q].duration, Row(x))
    BY <1>1, <1>2, <1>5, <2>1 DEF AnswerAvoids, Chosen, Avoids
  <2>2. ASSUME r \in hits
        PROVE  Avoids(cache[KeyOf(q, r)].starts, query[q].duration, Row(x))
    BY <1>6, <1>7, <1>10, <2>1, <2>2 DEF EntriesAvoid
  <2>3. r \in DOMAIN busy[q] =>
          S!Fetched(query[q].date, {[start |-> Row(x).start, end |-> Row(x).end]})
            \subseteq busy[q][r]
    BY <1>1, <1>10, <2>1 DEF AnswerAvoids, Chosen
  <2> QED BY <1>2, <2>2, <2>3
<1> QED BY <1>1, <1>3, <1>8, <1>9, <1>10, CacheStays, MovesKeepSInv

\* Rules are read as they stand.
LEMMA FetchRulesKeepsSInv ==
  ASSUME IInv, SInv, NEW q \in Searches, FetchRules(q)
  PROVE  SInv'
<1>1. /\ UNCHANGED <<vars, cache, query, maximum, rows, busy, slots, standing>>
      /\ at[q] = "rules" /\ SearchTables
      /\ at' = [at EXCEPT ![q] = "bookings"]
      /\ hours' = [hours EXCEPT ![q] = [r \in Missed(q) |-> rules[r][query[q].date % 7]]]
  BY DEF FetchRules, Proceed, SInv
<1>2. /\ at'[q] = "bookings"
      /\ DOMAIN hours'[q] = Missed(q)
      /\ \A r \in Missed(q) : hours'[q][r] = rules[r][query[q].date % 7]
  BY <1>1 DEF SearchTables
<1>3. Moves(q)
  BY <1>1 DEF SearchTables, Moves
<1>4. SearchTyped(q) /\ Fresh(q)
  BY DEF SInv
<1>5. /\ UNCHANGED <<now, resources, rules, bookings, blackouts>>
      /\ \A r : BookingsOf(r)' = BookingsOf(r) /\ BlackoutsOf(r)' = BlackoutsOf(r)
      /\ \A x : Row(x)' = Row(x)
  BY <1>1, ServicesStay
<1>6. Missed(q) \subseteq DOMAIN rows[q] /\ Missed(q)' = Missed(q)
  BY <1>1 DEF Missed
<1>7. SearchTyped(q)'
  <2>1. \A x \in standing'[q] : IF x \in Ids THEN Confirmed(x)' ELSE x \in blackouts'
    BY <1>1, StandingStays
  <2>2. query[q].date \in Int
    BY <1>1, <1>4, QueryFields DEF SearchTyped
  <2>3. \A r \in DOMAIN hours'[q] : hours'[q][r] \in Hours \union {None}
    BY <1>2, <1>4, <1>6, <2>2, RulesTyped DEF SearchTyped, IInv
  <2> QED BY <1>1, <1>2, <1>4, <1>6, <2>1, <2>3 DEF SearchTyped, Answers, Searching, Unselected
<1>8. Fresh(q)'
  <2> SUFFICES ASSUME NEW r \in DOMAIN rows[q],
                      rows[q][r].version = resources[r].version
               PROVE  /\ r \in DOMAIN busy[q] =>
                           busy[q][r] = S!Fetched(query[q].date, Read(at[q], r)')
                      /\ r \in DOMAIN slots[q] =>
                           Exact(slots[q][r], r, query[q].date, query[q].duration)'
    BY <1>1, <1>2, <1>4, <1>5 DEF Fresh
  <2>1. Read(at[q], r)' = Read(at[q], r)
    BY <1>1, <1>2, <1>5 DEF Read
  <2>2. Exact(slots[q][r], r, query[q].date, query[q].duration)' <=>
          Exact(slots[q][r], r, query[q].date, query[q].duration)
    BY <1>1, <1>5 DEF Exact
  <2> QED BY <1>4, <2>1, <2>2 DEF Fresh
<1>9. ASSUME NEW x, NEW v, AnswerAvoids(q, x, v)
      PROVE  AnswerAvoids(q, x, v)'
  BY <1>1, <1>2, <1>5, <1>9 DEF AnswerAvoids, Chosen, Avoids
<1> QED BY <1>1, <1>3, <1>7, <1>8, <1>9, CacheStays, MovesKeepSInv

\* Bookings are read as they stand, those that have stood among them.
LEMMA FetchBookingsKeepsSInv ==
  ASSUME SInv, NEW q \in Searches, FetchBookings(q)
  PROVE  SInv'
<1>1. /\ UNCHANGED <<vars, cache, query, maximum, rows, hours, slots, standing>>
      /\ at[q] = "bookings" /\ SearchTables
      /\ at' = [at EXCEPT ![q] = "blackouts"]
      /\ busy' = [busy EXCEPT ![q] =
           [r \in Missed(q) |-> S!Fetched(query[q].date, BookingsOf(r))]]
  BY DEF FetchBookings, Proceed, SInv
<1>2. /\ at'[q] = "blackouts"
      /\ DOMAIN busy'[q] = Missed(q)
      /\ \A r \in Missed(q) : busy'[q][r] = S!Fetched(query[q].date, BookingsOf(r))
  BY <1>1 DEF SearchTables
<1>3. Moves(q)
  BY <1>1 DEF SearchTables, Moves
<1>4. SearchTyped(q) /\ Fresh(q)
  BY DEF SInv
<1>5. /\ UNCHANGED <<now, resources, rules, bookings, blackouts>>
      /\ \A r : BookingsOf(r)' = BookingsOf(r) /\ BlackoutsOf(r)' = BlackoutsOf(r)
      /\ \A x : Row(x)' = Row(x)
  BY <1>1, ServicesStay
<1>6. Missed(q) \subseteq DOMAIN rows[q] /\ Missed(q)' = Missed(q)
  BY <1>1 DEF Missed
<1>7. SearchTyped(q)'
  <2>1. \A x \in standing'[q] : IF x \in Ids THEN Confirmed(x)' ELSE x \in blackouts'
    BY <1>1, StandingStays
  <2> QED BY <1>1, <1>2, <1>4, <1>6, <2>1 DEF SearchTyped, Answers, Searching, Unselected
<1>8. Fresh(q)'
  <2> SUFFICES ASSUME NEW r \in DOMAIN rows[q],
                      rows[q][r].version = resources[r].version
               PROVE  /\ r \in DOMAIN busy'[q] =>
                           busy'[q][r] = S!Fetched(query[q].date, Read(at[q], r)')
                      /\ r \in DOMAIN slots[q] =>
                           Exact(slots[q][r], r, query[q].date, query[q].duration)'
    BY <1>1, <1>4, <1>5 DEF Fresh
  <2>1. Read(at[q], r)' = BookingsOf(r)
    BY <1>2, <1>5 DEF Read
  <2>2. Exact(slots[q][r], r, query[q].date, query[q].duration)' <=>
          Exact(slots[q][r], r, query[q].date, query[q].duration)
    BY <1>1, <1>5 DEF Exact
  <2> QED BY <1>2, <1>4, <2>1, <2>2 DEF Fresh
<1>9. ASSUME NEW x, NEW v, Stands(x), AnswerAvoids(q, x, v)
      PROVE  AnswerAvoids(q, x, v)'
  <2>1. PICK r : r = Row(x).resource
    OBVIOUS
  <2> SUFFICES ASSUME r \in DOMAIN rows[q], rows[q][r].version = v
               PROVE  /\ r \in DOMAIN busy'[q] /\ x \in Ids =>
                           S!Fetched(query[q].date,
                                     {[start |-> Row(x).start, end |-> Row(x).end]})
                             \subseteq busy'[q][r]
                      /\ r \in DOMAIN slots[q] =>
                           Avoids(slots[q][r].starts, query[q].duration, Row(x))
    BY <1>1, <1>2, <1>5, <2>1 DEF AnswerAvoids, Chosen, Avoids
  <2>2. r \in DOMAIN slots[q] => Avoids(slots[q][r].starts, query[q].duration, Row(x))
    BY <1>9, <2>1 DEF AnswerAvoids, Chosen
  <2>3. ASSUME x \in Ids, r \in Missed(q)
        PROVE  S!Fetched(query[q].date, {[start |-> Row(x).start, end |-> Row(x).end]})
                 \subseteq busy'[q][r]
    BY <1>2, <1>9, <2>1, <2>3, StandingIntervals DEF S!Fetched
  <2> QED BY <1>2, <2>2, <2>3
<1> QED BY <1>1, <1>3, <1>7, <1>8, <1>9, CacheStays, MovesKeepSInv

\* Two queries of three days fetch what one of both tables would.
LEMMA FetchedUnion ==
  ASSUME NEW date, NEW A, NEW B
  PROVE  S!Fetched(date, A) \union S!Fetched(date, B) = S!Fetched(date, A \union B)
BY DEF S!Fetched

\* Blackouts are added as they stand, those that have stood among them.
LEMMA FetchBlackoutsKeepsSInv ==
  ASSUME SInv, NEW q \in Searches, FetchBlackouts(q)
  PROVE  SInv'
<1>1. /\ UNCHANGED <<vars, cache, query, maximum, rows, hours, slots, standing>>
      /\ at[q] = "blackouts" /\ SearchTables
      /\ at' = [at EXCEPT ![q] = "calculate"]
      /\ busy' = [busy EXCEPT ![q] =
           [r \in Missed(q) |-> busy[q][r] \union S!Fetched(query[q].date, BlackoutsOf(r))]]
  BY DEF FetchBlackouts, Proceed, SInv
<1>2. /\ at'[q] = "calculate"
      /\ DOMAIN busy'[q] = Missed(q)
      /\ \A r \in Missed(q) :
           busy'[q][r] = busy[q][r] \union S!Fetched(query[q].date, BlackoutsOf(r))
  BY <1>1 DEF SearchTables
<1>3. Moves(q)
  BY <1>1 DEF SearchTables, Moves
<1>4. SearchTyped(q) /\ Fresh(q)
  BY DEF SInv
<1>5. /\ UNCHANGED <<now, resources, rules, bookings, blackouts>>
      /\ \A r : BookingsOf(r)' = BookingsOf(r) /\ BlackoutsOf(r)' = BlackoutsOf(r)
      /\ \A x : Row(x)' = Row(x)
  BY <1>1, ServicesStay
<1>6. /\ Missed(q) \subseteq DOMAIN rows[q] /\ Missed(q)' = Missed(q)
      /\ DOMAIN busy[q] = Missed(q)
  BY <1>1, <1>4 DEF Missed, SearchTyped
<1>7. SearchTyped(q)'
  <2>1. \A x \in standing'[q] : IF x \in Ids THEN Confirmed(x)' ELSE x \in blackouts'
    BY <1>1, StandingStays
  <2> QED BY <1>1, <1>2, <1>4, <1>6, <2>1 DEF SearchTyped, Answers, Searching, Unselected
<1>8. Fresh(q)'
  <2> SUFFICES ASSUME NEW r \in DOMAIN rows[q],
                      rows[q][r].version = resources[r].version
               PROVE  /\ r \in DOMAIN busy'[q] =>
                           busy'[q][r] = S!Fetched(query[q].date, Read(at[q], r)')
                      /\ r \in DOMAIN slots[q] =>
                           Exact(slots[q][r], r, query[q].date, query[q].duration)'
    BY <1>1, <1>4, <1>5 DEF Fresh
  <2>1. Read(at[q], r) = BookingsOf(r)
    BY <1>1 DEF Read
  <2>2. Read(at[q], r)' = BookingsOf(r) \union BlackoutsOf(r)
    BY <1>2, <1>5 DEF Read
  <2>3. r \in Missed(q) => busy'[q][r] = S!Fetched(query[q].date, BookingsOf(r))
                                           \union S!Fetched(query[q].date, BlackoutsOf(r))
    BY <1>2, <1>4, <1>6, <2>1 DEF Fresh
  <2>4. Exact(slots[q][r], r, query[q].date, query[q].duration)' <=>
          Exact(slots[q][r], r, query[q].date, query[q].duration)
    BY <1>1, <1>5 DEF Exact
  <2>5. S!Fetched(query[q].date, BookingsOf(r)) \union S!Fetched(query[q].date, BlackoutsOf(r))
          = S!Fetched(query[q].date, BookingsOf(r) \union BlackoutsOf(r))
    BY FetchedUnion
  <2>6. r \in DOMAIN slots[q] => Exact(slots[q][r], r, query[q].date, query[q].duration)
    BY <1>4 DEF Fresh
  <2> QED BY <1>2, <2>2, <2>3, <2>4, <2>5, <2>6
<1>9. ASSUME NEW x, NEW v, Stands(x), AnswerAvoids(q, x, v)
      PROVE  AnswerAvoids(q, x, v)'
  <2>1. PICK r : r = Row(x).resource
    OBVIOUS
  <2> SUFFICES ASSUME r \in DOMAIN rows[q], rows[q][r].version = v
               PROVE  /\ r \in DOMAIN busy'[q] =>
                           S!Fetched(query[q].date,
                                     {[start |-> Row(x).start, end |-> Row(x).end]})
                             \subseteq busy'[q][r]
                      /\ r \in DOMAIN slots[q] =>
                           Avoids(slots[q][r].starts, query[q].duration, Row(x))
    BY <1>1, <1>2, <1>5, <2>1 DEF AnswerAvoids, Chosen, Avoids
  <2>2. r \in DOMAIN slots[q] => Avoids(slots[q][r].starts, query[q].duration, Row(x))
    BY <1>9, <2>1 DEF AnswerAvoids, Chosen
  <2>3. ASSUME r \in Missed(q), x \in Ids
        PROVE  S!Fetched(query[q].date, {[start |-> Row(x).start, end |-> Row(x).end]})
                 \subseteq busy[q][r]
    BY <1>6, <1>9, <2>1, <2>3 DEF AnswerAvoids, Chosen
  <2>4. ASSUME r \in Missed(q), x \notin Ids
        PROVE  S!Fetched(query[q].date, {[start |-> Row(x).start, end |-> Row(x).end]})
                 \subseteq S!Fetched(query[q].date, BlackoutsOf(r))
    BY <1>9, <2>1, <2>4, StandingIntervals DEF S!Fetched
  <2> QED BY <1>2, <2>2, <2>3, <2>4
<1> QED BY <1>1, <1>3, <1>7, <1>8, <1>9, CacheStays, MovesKeepSInv

\* The slots of exact hours and intervals are exact; those of intervals that
\* know of x avoid it.
LEMMA CalculateKeepsSInv ==
  ASSUME IInv, SInv, NEW q \in Searches, Calculate(q)
  PROVE  SInv'
<1> DEFINE Found(r) == [asOf |-> now,
                        starts |-> SlotsOn(rows[q][r].zone, query[q].date, hours[q][r],
                                           query[q].duration, busy[q][r], now)]
<1>1. /\ UNCHANGED <<vars, cache, query, maximum, rows, hours, busy, standing>>
      /\ at[q] = "calculate" /\ SearchTables
      /\ at' = [at EXCEPT ![q] = "setMany"]
      /\ slots' = [slots EXCEPT ![q] =
           [r \in DOMAIN rows[q] |-> IF r \in DOMAIN slots[q] THEN slots[q][r] ELSE Found(r)]]
  BY DEF Calculate, Proceed, SInv
<1>2. /\ at'[q] = "setMany"
      /\ DOMAIN slots'[q] = DOMAIN rows[q]
      /\ \A r \in DOMAIN rows[q] :
           slots'[q][r] = IF r \in DOMAIN slots[q] THEN slots[q][r] ELSE Found(r)
  BY <1>1 DEF SearchTables
<1>3. Moves(q)
  BY <1>1 DEF SearchTables, Moves
<1>4. SearchTyped(q) /\ Fresh(q)
  BY DEF SInv
<1>5. /\ UNCHANGED <<now, resources, rules, bookings, blackouts>>
      /\ \A r : BookingsOf(r)' = BookingsOf(r) /\ BlackoutsOf(r)' = BlackoutsOf(r)
      /\ \A x : Row(x)' = Row(x)
  BY <1>1, ServicesStay
<1>6. /\ DOMAIN busy[q] = Missed(q) /\ DOMAIN hours[q] = Missed(q)
      /\ \A r \in DOMAIN rows[q] : r \notin DOMAIN slots[q] => r \in Missed(q)
  BY <1>1, <1>4 DEF Missed, SearchTyped
<1>7. query[q].date \in Int /\ query[q].duration \in Nat \ {0}
  BY <1>1, <1>4, QueryFields DEF SearchTyped
<1>8. \A r \in Missed(q) : /\ r \in Resources
                           /\ rows[q][r].zone \in Zones
                           /\ hours[q][r] \in Hours \union {None}
  BY <1>4, <1>6 DEF SearchTyped, ResourceRow, Missed
<1>9. SearchTyped(q)'
  <2>1. \A x \in standing'[q] : IF x \in Ids THEN Confirmed(x)' ELSE x \in blackouts'
    BY <1>1, StandingStays
  <2> HIDE DEF Found
  <2> QED BY <1>1, <1>2, <1>4, <2>1 DEF SearchTyped, Answers, Searching, Unselected
<1>10. Fresh(q)'
  <2> SUFFICES ASSUME NEW r \in DOMAIN rows[q],
                      rows[q][r].version = resources[r].version
               PROVE  /\ r \in DOMAIN busy[q] =>
                           busy[q][r] = S!Fetched(query[q].date, Read(at[q], r)')
                      /\ Exact(slots[q][r], r, query[q].date, query[q].duration)'
    <3> HIDE DEF Found
    <3> QED BY <1>1, <1>4, <1>5 DEF Fresh
  <2>1. Read(at[q], r) = BookingsOf(r) \union BlackoutsOf(r) /\ Read(at[q], r)' = Read(at[q], r)
    <3> HIDE DEF Found
    <3> QED BY <1>1, <1>2, <1>5 DEF Read
  <2>2. CASE r \in DOMAIN slots[q]
    <3> HIDE DEF Found
    <3>1. slots'[q][r] = slots[q][r]
      BY <1>2, <2>2
    <3>2. Exact(slots[q][r], r, query[q].date, query[q].duration)
      BY <1>4, <2>2 DEF Fresh
    <3>3. Exact(slots[q][r], r, query[q].date, query[q].duration)'
      BY <1>1, <1>5, <3>1, <3>2 DEF Exact
    <3> QED BY <1>4, <2>1, <3>3 DEF Fresh
  <2>3. CASE r \notin DOMAIN slots[q]
    <3>1. /\ r \in Missed(q) /\ slots'[q][r] = Found(r)
          /\ rows[q][r] = resources[r]
          /\ hours[q][r] = rules[r][query[q].date % 7]
          /\ busy[q][r] = S!Fetched(query[q].date, BookingsOf(r) \union BlackoutsOf(r))
      <4> HIDE DEF Found
      <4> QED BY <1>2, <1>4, <1>6, <2>1, <2>3 DEF Fresh
    <3>2. BookingsOf(r) \union BlackoutsOf(r) \in SUBSET S!Interval
      BY IntervalsTyped DEF IInv
    <3>3. PICK zone \in Zones, open \in Hours \union {None}, taken \in SUBSET S!Interval :
            /\ zone = rows[q][r].zone /\ open = hours[q][r]
            /\ taken = BookingsOf(r) \union BlackoutsOf(r)
      BY <1>8, <3>1, <3>2
    <3>4. PICK date \in Int, duration \in Nat \ {0} :
            date = query[q].date /\ duration = query[q].duration
      BY <1>7
    <3>5. SlotsOn(zone, date, open, duration, S!Fetched(date, taken), now) =
            SlotsOn(zone, date, open, duration, taken, now)
      BY FetchedSlots
    <3>6. /\ slots'[q][r].asOf = now
          /\ slots'[q][r].starts = SlotsOn(zone, date, open, duration, taken, now)
      BY <3>1, <3>3, <3>4, <3>5
    <3>7. zone = resources[r].zone /\ open = rules[r][date % 7]
      BY <3>1, <3>3, <3>4
    <3> HIDE DEF Found
    <3>8. Exact(slots[q][r], r, query[q].date, query[q].duration)'
      BY <1>1, <1>5, <3>3, <3>4, <3>6, <3>7 DEF Exact
    <3> QED BY <1>4, <2>1, <3>8 DEF Fresh
  <2> QED BY <2>2, <2>3
<1>11. ASSUME NEW x, NEW v, Stands(x), AnswerAvoids(q, x, v)
       PROVE  AnswerAvoids(q, x, v)'
  <2>1. PICK r, b : b = Row(x) /\ r = b.resource
    OBVIOUS
  <2> DEFINE i == [start |-> b.start, end |-> b.end]
  <2> SUFFICES ASSUME r \in DOMAIN rows[q], rows[q][r].version = v
               PROVE  /\ r \in DOMAIN busy[q] => S!Fetched(query[q].date, {i}) \subseteq busy[q][r]
                      /\ Avoids(slots'[q][r].starts, query[q].duration, b)
    <3> HIDE DEF Found
    <3> QED BY <1>1, <1>2, <1>5, <2>1 DEF AnswerAvoids, Chosen, Avoids
  <2>2. r \in DOMAIN busy[q] => S!Fetched(query[q].date, {i}) \subseteq busy[q][r]
    <3> HIDE DEF Found
    <3> QED BY <1>1, <1>11, <2>1 DEF AnswerAvoids, Chosen
  <2>3. CASE r \in DOMAIN slots[q]
    <3> HIDE DEF Found
    <3>1. slots'[q][r] = slots[q][r]
      BY <1>2, <2>3
    <3>2. Avoids(slots[q][r].starts, query[q].duration, b)
      BY <1>11, <2>1, <2>3 DEF AnswerAvoids, Chosen
    <3> QED BY <2>2, <3>1, <3>2
  <2>4. CASE r \notin DOMAIN slots[q]
    <3>1. r \in Missed(q) /\ slots'[q][r] = Found(r)
      <4> HIDE DEF Found
      <4> QED BY <1>2, <1>6, <2>4
    <3>2. PICK zone \in Zones, open \in Hours \union {None} :
            zone = rows[q][r].zone /\ open = hours[q][r]
      BY <1>8, <3>1
    <3>taken. PICK taken : taken = busy[q][r]
      OBVIOUS
    <3>3. PICK date \in Int, duration \in Nat \ {0} :
            date = query[q].date /\ duration = query[q].duration
      BY <1>7
    <3>4. slots'[q][r].starts = SlotsOn(zone, date, open, duration, taken, now)
      BY <3>taken, <3>1, <3>2, <3>3
    <3>5. S!Fetched(date, {i}) \subseteq taken /\ {i} \in SUBSET S!Interval
      BY <1>6, <1>11, <2>1, <2>2, <3>taken, <3>1, <3>3, StandingTyped DEF IInv
    <3>6. ASSUME NEW t \in SlotsOn(zone, date, open, duration, taken, now)
          PROVE  ~ Overlaps(t, t + duration, b.start, b.end)
      <4>1. /\ open # None /\ t \in Int
            /\ t >= S!Window(zone, date, open).start
            /\ t + duration <= S!Window(zone, date, open).end
            /\ S!IsFree(t, duration, taken)
        BY <3>6, SlotMeans
      <4>2. S!IsFree(t, duration, S!Fetched(date, {i}))
        BY <3>5, <4>1 DEF S!IsFree
      <4>3. S!IsFree(t, duration, {i})
        BY <3>5, <4>1, <4>2, NothingIsMissed
      <4> QED BY <4>3 DEF S!IsFree, S!Overlaps, Overlaps
    <3> QED BY <2>2, <3>3, <3>4, <3>6 DEF Avoids
  <2> QED BY <2>3, <2>4
<1> HIDE DEF Found
<1> QED BY <1>1, <1>3, <1>9, <1>10, <1>11, CacheStays, MovesKeepSInv

\* What is stored is what was calculated, under the version selected.
LEMMA SetManyKeepsSInv ==
  ASSUME IInv, SInv, NEW q \in Searches, SetMany(q)
  PROVE  SInv'
<1> DEFINE new == {KeyOf(q, r) : r \in Calculated(q)}
<1>1. /\ UNCHANGED <<vars, query, maximum, rows, hours, busy, slots, standing>>
      /\ at[q] = "setMany" /\ SearchTables
      /\ at' = [at EXCEPT ![q] = "ok"]
      /\ cache' = [k \in DOMAIN cache \union new |->
                     IF k \in new THEN slots[q][k.resource] ELSE cache[k]]
  BY DEF SetMany, Proceed, SInv, searchLocals
<1>2. /\ at'[q] = "ok"
      /\ DOMAIN cache' = DOMAIN cache \union new
      /\ \A k \in new : cache'[k] = slots[q][k.resource]
      /\ \A k \in DOMAIN cache : k \notin new => cache'[k] = cache[k]
  BY <1>1 DEF SearchTables
<1>3. Moves(q)
  BY <1>1 DEF SearchTables, Moves
<1>4. SearchTyped(q) /\ Fresh(q) /\ CacheInv
  BY DEF SInv
<1>5. /\ UNCHANGED <<now, resources, rules, bookings, blackouts>>
      /\ \A r : BookingsOf(r)' = BookingsOf(r) /\ BlackoutsOf(r)' = BlackoutsOf(r)
      /\ \A x : Row(x)' = Row(x)
  BY <1>1, ServicesStay
<1>6. query[q].date \in Int /\ query[q].duration \in Nat \ {0}
  BY <1>1, <1>4, QueryFields DEF SearchTyped
<1>7. \A k \in new : /\ k.resource \in DOMAIN rows[q] /\ k.resource \in DOMAIN slots[q]
                     /\ k.version = rows[q][k.resource].version
                     /\ k.date = query[q].date /\ k.duration = query[q].duration
  BY <1>1, <1>4 DEF KeyOf, CacheKey, Calculated, SearchTyped
<1> HIDE DEF new
<1>8. SearchTyped(q)'
  <2>1. \A x \in standing'[q] : IF x \in Ids THEN Confirmed(x)' ELSE x \in blackouts'
    BY <1>1, StandingStays
  <2> QED BY <1>1, <1>2, <1>4, <2>1 DEF SearchTyped, Answers, Searching, Unselected
<1>9. Fresh(q)'
  <2> SUFFICES ASSUME NEW r \in DOMAIN rows[q],
                      rows[q][r].version = resources[r].version
               PROVE  /\ r \in DOMAIN busy[q] =>
                           busy[q][r] = S!Fetched(query[q].date, Read(at[q], r)')
                      /\ r \in DOMAIN slots[q] =>
                           Exact(slots[q][r], r, query[q].date, query[q].duration)'
    BY <1>1, <1>4, <1>5 DEF Fresh
  <2>1. Read(at[q], r)' = Read(at[q], r)
    BY <1>1, <1>2, <1>5 DEF Read
  <2>2. Exact(slots[q][r], r, query[q].date, query[q].duration)' <=>
          Exact(slots[q][r], r, query[q].date, query[q].duration)
    BY <1>1, <1>5 DEF Exact
  <2> QED BY <1>4, <2>1, <2>2 DEF Fresh
<1>10. CacheInv'
  <2> SUFFICES ASSUME NEW k \in DOMAIN cache'
               PROVE  /\ k.resource \in Resources /\ k.version \in Nat
                      /\ k.date \in Int /\ k.duration \in Nat \ {0}
                      /\ k.version <= resources[k.resource].version
                      /\ k.version = resources[k.resource].version =>
                           Exact(cache[k], k.resource, k.date, k.duration)'
    BY <1>5 DEF CacheInv
  <2>1. CASE k \in new
    <3>1. PICK r \in DOMAIN rows[q] : r = k.resource /\ r \in DOMAIN slots[q]
      BY <1>7, <2>1
    <3>2. /\ r \in Resources /\ rows[q][r].version \in Nat
          /\ rows[q][r].version <= resources[r].version
          /\ rows[q][r].version = resources[r].version =>
               Exact(slots[q][r], r, query[q].date, query[q].duration)
      BY <1>4, <3>1 DEF SearchTyped, Fresh, ResourceRow
    <3>3. cache'[k] = slots[q][r] /\ k.version = rows[q][r].version
          /\ k.date = query[q].date /\ k.duration = query[q].duration
      BY <1>2, <1>7, <2>1, <3>1
    <3>4. ASSUME k.version = resources[r].version
          PROVE  Exact(cache[k], r, k.date, k.duration)'
      BY <1>5, <3>2, <3>3, <3>4 DEF Exact
    <3> QED BY <1>6, <3>1, <3>2, <3>3, <3>4
  <2>2. CASE k \notin new
    <3>1. k \in DOMAIN cache /\ cache'[k] = cache[k]
      BY <1>2, <2>2
    <3>2. Exact(cache[k], k.resource, k.date, k.duration)' <=>
            Exact(cache[k], k.resource, k.date, k.duration)
      BY <1>5, <3>1 DEF Exact
    <3> QED BY <1>4, <3>1, <3>2 DEF CacheInv
  <2> QED BY <2>1, <2>2
<1>11. ASSUME NEW x, NEW v, EntriesAvoid(x, v), AnswerAvoids(q, x, v)
       PROVE  EntriesAvoid(x, v)' /\ AnswerAvoids(q, x, v)'
  <2>1. AnswerAvoids(q, x, v)'
    BY <1>1, <1>2, <1>5, <1>11 DEF AnswerAvoids, Chosen, Avoids
  <2>2. ASSUME NEW k \in DOMAIN cache', k.resource = Row(x).resource, k.version = v
        PROVE  Avoids(cache'[k].starts, k.duration, Row(x))
    <3>1. CASE k \in new
      BY <1>2, <1>7, <1>11, <2>2, <3>1 DEF AnswerAvoids, Chosen
    <3>2. CASE k \notin new
      BY <1>2, <1>11, <2>2, <3>2 DEF EntriesAvoid
    <3> QED BY <3>1, <3>2
  <2>3. EntriesAvoid(x, v)'
    BY <1>5, <2>2 DEF EntriesAvoid, Avoids
  <2> QED BY <2>1, <2>3
<1> QED BY <1>1, <1>3, <1>8, <1>9, <1>10, <1>11, MovesKeepSInv

\* What stands when a search selects is avoided by all that is exact then.
LEMMA SelectKeepsSInv ==
  ASSUME IInv, SInv, NEW q \in Searches, SelectResources(q)
  PROVE  SInv'
<1>1. /\ UNCHANGED <<vars, cache, query, maximum, hours, busy, slots>>
      /\ at[q] = "select" /\ SearchTables
      /\ at' = [at EXCEPT ![q] = "getMany"]
      /\ rows' = [rows EXCEPT ![q] = [r \in Selected(query[q]) |-> resources[r]]]
      /\ standing' = [standing EXCEPT ![q] = Standing]
  BY DEF SelectResources, Proceed, SInv
<1>2. /\ at'[q] = "getMany"
      /\ DOMAIN rows'[q] = Selected(query[q])
      /\ \A r \in Selected(query[q]) : rows'[q][r] = resources[r]
      /\ standing'[q] = Standing
      /\ Selected(query[q]) \subseteq Resources
  BY <1>1 DEF SearchTables, Selected
<1>3. Moves(q)
  BY <1>1 DEF SearchTables, Moves
<1>4. SearchTyped(q) /\ CacheInv
  BY DEF SInv
<1>5. /\ UNCHANGED <<now, resources, rules, bookings, blackouts>>
      /\ \A r : BookingsOf(r)' = BookingsOf(r) /\ BlackoutsOf(r)' = BlackoutsOf(r)
      /\ \A x : Row(x)' = Row(x) /\ (Stands(x)' <=> Stands(x))
  BY <1>1, ServicesStay
<1>6. DOMAIN hours[q] = {} /\ DOMAIN busy[q] = {} /\ DOMAIN slots[q] = {}
  BY <1>1, <1>4 DEF SearchTyped, Unselected
<1>7. \A x \in Standing : Stands(x)
  BY KeysAreNoRows DEF Standing, Stands, IInv, TypeOK
<1>8. \A r \in Resources : resources[r] \in ResourceRow /\ resources[r].version \in Nat
  BY DEF IInv, TypeOK, ResourceRow
<1>9. SearchTyped(q)'
  <2>1. \A x \in standing'[q] : IF x \in Ids THEN Confirmed(x)' ELSE x \in blackouts'
    BY <1>2, <1>5, <1>7 DEF Stands
  <2>2. ASSUME NEW r \in DOMAIN rows'[q]
        PROVE  r \in Resources /\ rows'[q][r] \in ResourceRow /\ rows'[q][r].active
    BY <1>2, <1>8, <2>2 DEF Selected
  <2> QED BY <1>1, <1>2, <1>4, <1>6, <2>1, <2>2 DEF SearchTyped, Answers, Searching, Unselected
<1>10. Fresh(q)'
  BY <1>1, <1>2, <1>5, <1>6, <1>8 DEF Fresh
<1>11. CacheInv' /\ \A x, v : EntriesAvoid(x, v) => EntriesAvoid(x, v)'
  BY <1>1, CacheStays
<1>12. \A x, v : AnswerAvoids(q, x, v)'
  BY <1>1, <1>6 DEF AnswerAvoids
<1>13. ASSUME NEW s \in Searches \ {q}, NEW x, NEW v, AnswerAvoids(s, x, v)
       PROVE  AnswerAvoids(s, x, v)'
  <2>1. /\ at'[s] = at[s] /\ query'[s] = query[s] /\ rows'[s] = rows[s]
        /\ busy'[s] = busy[s] /\ slots'[s] = slots[s]
    BY <1>3 DEF Moves
  <2> QED BY <1>5, <1>13, <2>1 DEF AnswerAvoids, Chosen, Avoids
<1>14. ASSUME NEW s \in Searches PROVE Respect(s)'
  <2> SUFFICES ASSUME NEW x \in standing'[s], NEW v \in Nat, Chosen(s, x, v)'
               PROVE  /\ EntriesAvoid(x, v)
                      /\ \A other \in Searches \ {q} : AnswerAvoids(other, x, v)
    BY <1>11, <1>12, <1>13 DEF Respect
  <2>1. CASE s # q
    <3>1. x \in standing[s] /\ Chosen(s, x, v)
      BY <1>3, <1>5, <2>1 DEF Moves, Chosen
    <3> QED BY <3>1 DEF SInv, Respect
  <2>2. CASE s = q
    <3>1. PICK r \in Resources : /\ r = Row(x).resource /\ Stands(x)
                                 /\ resources[r].version = v
      BY <1>2, <1>5, <1>7, <2>2 DEF Chosen
    <3>2. ASSUME NEW k \in DOMAIN cache, k.resource = Row(x).resource, k.version = v
          PROVE  Avoids(cache[k].starts, k.duration, Row(x))
      <4>1. /\ k.date \in Int /\ k.duration \in Nat \ {0}
            /\ Exact(cache[k], Row(x).resource, k.date, k.duration)
        BY <1>4, <3>1, <3>2 DEF CacheInv
      <4> QED BY <3>1, <4>1, ExactAvoids DEF IInv
    <3>3. ASSUME NEW other \in Searches \ {q}, Chosen(other, x, v)
          PROVE  /\ /\ r \in DOMAIN busy[other]
                    /\ at[other] = "blackouts" => x \in Ids
                    => S!Fetched(query[other].date,
                                 {[start |-> Row(x).start, end |-> Row(x).end]})
                         \subseteq busy[other][r]
                 /\ r \in DOMAIN slots[other] =>
                      Avoids(slots[other][r].starts, query[other].duration, Row(x))
      <4>1. r \in DOMAIN rows[other] /\ rows[other][r].version = resources[r].version
        BY <3>1, <3>3 DEF Chosen
      <4>2. /\ r \in DOMAIN busy[other] =>
                 busy[other][r] = S!Fetched(query[other].date, Read(at[other], r))
            /\ r \in DOMAIN slots[other] =>
                 Exact(slots[other][r], r, query[other].date, query[other].duration)
        BY <4>1 DEF SInv, Fresh
      <4>3. query[other].date \in Int /\ query[other].duration \in Nat \ {0}
        <5>1. at[other] # "new"
          BY <4>1 DEF SInv, SearchTyped, Unselected
        <5> QED BY <5>1, QueryFields DEF SInv, SearchTyped
      <4>4. ASSUME r \in DOMAIN slots[other]
            PROVE  Avoids(slots[other][r].starts, query[other].duration, Row(x))
        BY <3>1, <4>2, <4>3, <4>4, ExactAvoids DEF IInv
      <4>5. ASSUME at[other] = "blackouts" => x \in Ids
            PROVE  [start |-> Row(x).start, end |-> Row(x).end] \in Read(at[other], r)
        BY <3>1, <4>5, StandingIntervals DEF Read
      <4>6. ASSUME r \in DOMAIN busy[other], at[other] = "blackouts" => x \in Ids
            PROVE  S!Fetched(query[other].date,
                             {[start |-> Row(x).start, end |-> Row(x).end]})
                     \subseteq busy[other][r]
        BY <4>2, <4>5, <4>6 DEF S!Fetched
      <4> QED BY <4>4, <4>6
    <3> QED BY <3>1, <3>2, <3>3 DEF EntriesAvoid, AnswerAvoids
  <2> QED BY <2>1, <2>2
<1>15. \A s \in Searches : SearchTyped(s)' /\ Fresh(s)'
  BY <1>3, <1>9, <1>10, OthersRest
<1> QED BY <1>3, <1>11, <1>14, <1>15 DEF SInv, Moves

\* An entry that is gone says nothing.
LEMMA LossKeepsSInv ==
  ASSUME SInv, UNCHANGED <<vars, at, searchLocals, standing>>,
         DOMAIN cache' \subseteq DOMAIN cache,
         \A j \in DOMAIN cache' : cache'[j] = cache[j]
  PROVE  SInv'
<1>1. UNCHANGED <<vars, at, query, maximum, rows, hours, busy, slots, standing>>
  BY DEF searchLocals
<1>2. /\ DOMAIN cache' \subseteq DOMAIN cache
      /\ \A j \in DOMAIN cache' : cache'[j] = cache[j]
  OBVIOUS
<1>3. /\ UNCHANGED <<now, resources, rules, bookings, blackouts>>
      /\ \A r : BookingsOf(r)' = BookingsOf(r) /\ BlackoutsOf(r)' = BlackoutsOf(r)
      /\ \A x : Row(x)' = Row(x)
  BY <1>1, ServicesStay
<1>4. CacheInv'
  <2> SUFFICES ASSUME NEW j \in DOMAIN cache'
               PROVE  /\ j.resource \in Resources /\ j.version \in Nat
                      /\ j.date \in Int /\ j.duration \in Nat \ {0}
                      /\ j.version <= resources[j.resource].version
                      /\ j.version = resources[j.resource].version =>
                           Exact(cache[j], j.resource, j.date, j.duration)'
    BY <1>3 DEF CacheInv
  <2>1. j \in DOMAIN cache /\ cache'[j] = cache[j]
    BY <1>2
  <2>2. Exact(cache[j], j.resource, j.date, j.duration)' <=>
          Exact(cache[j], j.resource, j.date, j.duration)
    BY <1>3, <2>1 DEF Exact
  <2> QED BY <2>1, <2>2 DEF SInv, CacheInv
<1>5. SearchTables'
  BY <1>1 DEF SInv, SearchTables
<1>6. ASSUME NEW s \in Searches PROVE SearchTyped(s)' /\ Fresh(s)'
  <2>1. Moves(s)
    BY <1>1, <1>5 DEF Moves
  <2>2. SearchTyped(s)'
    <3>1. \A x \in standing'[s] : IF x \in Ids THEN Confirmed(x)' ELSE x \in blackouts'
      BY <1>1, StandingStays
    <3> QED BY <1>1, <3>1 DEF SInv, SearchTyped, Missed
  <2>3. ASSUME NEW r \in DOMAIN rows[s]
        PROVE  /\ Read(at[s], r)' = Read(at[s], r)
               /\ Exact(slots[s][r], r, query[s].date, query[s].duration)' <=>
                    Exact(slots[s][r], r, query[s].date, query[s].duration)
    BY <1>1, <1>3 DEF Read, Exact
  <2>4. Fresh(s)'
    BY <1>1, <1>3, <2>3 DEF SInv, Fresh
  <2> QED BY <2>2, <2>4
<1>7. ASSUME NEW s \in Searches PROVE Respect(s)'
  <2> SUFFICES ASSUME NEW x \in standing[s], NEW v \in Nat, Chosen(s, x, v)'
               PROVE  EntriesAvoid(x, v)' /\ \A other \in Searches : AnswerAvoids(other, x, v)'
    BY <1>1 DEF Respect
  <2>1. Chosen(s, x, v)
    BY <1>1, <1>3 DEF Chosen
  <2>2. EntriesAvoid(x, v) /\ \A other \in Searches : AnswerAvoids(other, x, v)
    BY <2>1 DEF SInv, Respect
  <2>3. EntriesAvoid(x, v)'
    BY <1>2, <1>3, <2>2 DEF EntriesAvoid, Avoids
  <2>4. ASSUME NEW other \in Searches PROVE AnswerAvoids(other, x, v)'
    <3>1. AnswerAvoids(other, x, v)
      BY <2>2
    <3> QED BY <1>1, <1>3, <3>1 DEF AnswerAvoids, Avoids, Chosen
  <2> QED BY <2>3, <2>4
<1> QED BY <1>4, <1>5, <1>6, <1>7 DEF SInv

\* Nothing has been read, stored or answered at first.
LEMMA SearchesBegin == SearchInit => SInv
<1> SUFFICES ASSUME SearchInit PROVE SInv
  OBVIOUS
<1>1. /\ DOMAIN cache = {} /\ SearchTables
      /\ \A s \in Searches :
           /\ at[s] = "new" /\ standing[s] = {}
           /\ DOMAIN rows[s] = {} /\ DOMAIN hours[s] = {}
           /\ DOMAIN busy[s] = {} /\ DOMAIN slots[s] = {}
  BY DEF SearchInit, Nothing, SearchTables
<1>2. CacheInv
  BY <1>1 DEF CacheInv
<1>3. ASSUME NEW s \in Searches PROVE SearchTyped(s) /\ Fresh(s) /\ Respect(s)
  BY <1>1 DEF SearchTyped, Fresh, Respect
<1> QED BY <1>1, <1>2, <1>3 DEF SInv

\* Every step keeps the invariant.
LEMMA StepsKeepSInv ==
  IInv /\ FInv /\ AInv /\ SInv /\ [SearchNext]_<<vars, searchVars>> => SInv'
<1> SUFFICES ASSUME IInv, FInv, AInv, SInv, [SearchNext]_<<vars, searchVars>> PROVE SInv'
  OBVIOUS
<1>1. CASE ServiceStep
  BY <1>1, ServicesKeepSearches
<1>2. ASSUME NEW s \in Searches, (\E q \in Queries : Ask(s, q)) \/ SearchStep(s) PROVE SInv'
  BY <1>2, BeginningKeepsSInv, SelectKeepsSInv, GetManyKeepsSInv, FetchRulesKeepsSInv,
     FetchBookingsKeepsSInv, FetchBlackoutsKeepsSInv, CalculateKeepsSInv, SetManyKeepsSInv
     DEF SearchStep
<1>3. ASSUME NEW k \in DOMAIN cache, Evict(k) PROVE SInv'
  BY <1>3, LossKeepsSInv DEF Evict
<1>4. CASE UNCHANGED <<vars, searchVars>>
  BY <1>4, LossKeepsSInv DEF searchVars
<1> QED BY <1>1, <1>2, <1>3, <1>4 DEF SearchNext

-----------------------------------------------------------------------------
(* The theorems.                                                           *)

\* Searches among the requests take nothing from the promise of the services:
\* they still behave as a calendar on which each request acts in one step.
THEOREM PromiseHoldsDuringSearches == SearchSpec => ImplementsCalendar
BY SearchesDisturbNothing, ServiceKeepsPromise

\* What holds of the services and the searches at every step.
THEOREM SearchDiscipline == SearchSpec => [](IInv /\ SInv)
<1>1. SearchSpec => SearchInit /\ [][SearchNext]_<<vars, searchVars>>
  BY DEF SearchSpec
<1> QED BY <1>1, SearchesBegin, StepsKeepSInv, ServicesStandFast, PTL

\* For any number of searches, requests and resources: what the cache holds
\* under the current version of a resource is what the tables say now.
THEOREM CurrentEntriesStayExact == SearchSpec => []CurrentEntriesAreExact
<1>1. SInv => CurrentEntriesAreExact
  BY DEF SInv, CacheInv, Exact, CurrentEntriesAreExact, Current
<1> QED BY <1>1, SearchDiscipline, PTL

\* No answer offers a slot that has been taken ever since its search began,
\* not even from an entry that another search stored.
THEOREM AnswersRespectTheCalendar == SearchSpec => []StandingBookingsAreRespected
<1>1. ASSUME IInv, SInv PROVE StandingBookingsAreRespected
  <2> SUFFICES ASSUME NEW s \in Searches, at[s] = "ok",
                      NEW r \in DOMAIN rows[s], NEW x \in standing[s],
                      Row(x).resource = r, NEW t \in slots[s][r].starts
               PROVE  ~ Overlaps(t, t + query[s].duration, Row(x).start, Row(x).end)
    BY DEF StandingBookingsAreRespected, Row
  <2>1. SearchTyped(s) /\ Respect(s)
    BY <1>1 DEF SInv
  <2>2. r \in DOMAIN slots[s]
    BY <2>1 DEF SearchTyped
  <2>3. PICK v \in Nat : v = rows[s][r].version
    BY <2>1 DEF SearchTyped, ResourceRow
  <2>4. AnswerAvoids(s, x, v)
    BY <2>1, <2>3 DEF Respect, Chosen
  <2> QED BY <2>2, <2>3, <2>4 DEF AnswerAvoids, Chosen, Avoids
<1> QED BY <1>1, SearchDiscipline, PTL

\* An offered slot that has not started is free and of an active resource as
\* long as nothing has changed the resource, in zones with clock changes too;
\* on a date with none near it, all checks of create_booking accept it.
THEOREM OffersCanBeBooked == SearchSpec => []OfferedSlotsCanBeBooked
<1>1. ASSUME IInv, SInv PROVE OfferedSlotsCanBeBooked
  <2> SUFFICES ASSUME NEW s \in Searches, at[s] = "ok", NEW r \in DOMAIN rows[s],
                      rows[s][r].version = resources[r].version,
                      query[s].duration <= limit[OrgOf[r]],
                      NEW t \in slots[s][r].starts, t > now
               PROVE  /\ resources[r].active
                      /\ NoConflicts(r, t, t + query[s].duration, {})
                      /\ SteadyDate(resources[r].zone, query[s].date) =>
                           ValidTimeRange(r, resources[r].zone, t, t + query[s].duration)
    BY DEF OfferedSlotsCanBeBooked
  <2>1. SearchTyped(s) /\ Fresh(s) /\ TypeOK
    BY <1>1 DEF SInv, IInv
  <2>2. r \in Resources /\ r \in DOMAIN slots[s] /\ query[s] \in Queries
    BY <2>1 DEF SearchTyped
  <2>3. PICK date \in Int, d \in Nat \ {0} : date = query[s].date /\ d = query[s].duration
    BY <2>2, QueryFields
  <2>4. PICK zone \in Zones, open \in Hours \union {None} :
          zone = resources[r].zone /\ open = rules[r][date % 7]
    BY <2>1, <2>2, RulesTyped
  <2>taken. PICK taken : taken = BookingsOf(r) \union BlackoutsOf(r)
    OBVIOUS
  <2>5. t \in SlotsOn(zone, date, open, d, taken, slots[s][r].asOf)
    BY <2>1, <2>2, <2>3, <2>taken, <2>4 DEF Fresh, Exact
  <2>6. /\ open # None /\ t \in Int
        /\ t >= S!Window(zone, date, open).start
        /\ t + d <= S!Window(zone, date, open).end
        /\ S!IsFree(t, d, taken)
    BY <2>5, SlotMeans
  <2>7. open \in Hours
    BY <2>6
  <2>8. ASSUME SteadyDate(zone, date) PROVE ValidTimeRange(r, zone, t, t + d)
    <3>1. /\ LocalDate(zone, t) = date /\ LocalDate(zone, t + d) = date
          /\ LocalTime(zone, t) >= open.open /\ LocalTime(zone, t + d) <= open.close
      BY <2>6, <2>7, <2>8, SlotsFit
    <3>2. InWorkingHours(r, zone, t, t + d)
      BY <2>taken, <2>4, <2>6, <3>1 DEF InWorkingHours, Weekday
    <3>3. t + d > t /\ (t + d) - t = d
      BY <2>6
    <3> QED BY <2>3, <3>2, <3>3 DEF ValidTimeRange
  <2>9. resources[r].active
    BY <2>1, <2>2 DEF SearchTyped, Fresh
  <2>10. NoConflicts(r, t, t + d, {})
    <3>1. ASSUME NEW b \in Ids, Confirmed(b), bookings[b].resource = r
          PROVE  ~ Overlaps(t, t + d, bookings[b].start, bookings[b].end)
      <4>1. [start |-> bookings[b].start, end |-> bookings[b].end] \in taken
        BY <2>taken, <2>4, <3>1 DEF BookingsOf
      <4> QED BY <2>6, <4>1 DEF S!IsFree, S!Overlaps, Overlaps
    <3>2. ASSUME NEW x \in blackouts, x.resource = r
          PROVE  ~ Overlaps(t, t + d, x.start, x.end)
      <4>1. [start |-> x.start, end |-> x.end] \in taken
        BY <2>taken, <2>4, <3>2 DEF BlackoutsOf
      <4> QED BY <2>6, <4>1 DEF S!IsFree, S!Overlaps, Overlaps
    <3> QED BY <3>1, <3>2 DEF NoConflicts
  <2> QED BY <2>3, <2>4, <2>8, <2>9, <2>10
<1> QED BY <1>1, SearchDiscipline, PTL
=============================================================================
