---------------------------- MODULE Availability ----------------------------
(***************************************************************************)
(* The availability search over the booking and resource services of      *)
(* BookingService.  A search runs outside a transaction: it reads the      *)
(* resources with their versions, asks the cache, reads rules, bookings    *)
(* and blackouts of the resources it missed in one statement each, and     *)
(* stores what it has calculated under the version it has read.            *)
(***************************************************************************)
EXTENDS BookingService

CONSTANTS
  Searches,     \* the search requests of a behaviour, each handled once
  Queries,      \* what clients may ask
  SlotStep

Query == [actor : Users, org : Orgs, date : Int, duration : Nat \ {0},
          capacity : Nat \union {None}, resource : Resources \union {None}]

ASSUME QueriesTyped == Queries \subseteq Query
ASSUME StepTyped == SlotStep \in Nat \ {0}
\* Keys of bookings are no rows of blackouts.
ASSUME KeysAreNoRows == Ids \intersect Blackout = {}

S == INSTANCE SlotRules

VARIABLES
  cache,     \* Redis: slots, filed by CacheKey
  at,        \* the statement a search executes next, or its response
  query,
  maximum,   \* the organization's duration limit, as the view read it
  rows,      \* the resources that the search selected, by key
  hours,     \* their working hours on the date
  busy,      \* their bookings and blackouts
  slots,     \* the slots found in the cache or calculated
  standing   \* history: bookings and blackouts that have stood unchanged
             \* since the search selected its resources

searchLocals == <<query, maximum, rows, hours, busy, slots>>
searchVars   == <<cache, at, searchLocals, standing>>

Searching == {"authorize", "select", "getMany", "rules", "bookings", "blackouts",
              "calculate", "setMany"}

Nothing == [x \in {} |-> None]

SearchInit ==
  /\ Init
  /\ cache = Nothing
  /\ at = [s \in Searches |-> "new"]
  /\ query = [s \in Searches |-> None]
  /\ maximum = [s \in Searches |-> 0]
  /\ rows = [s \in Searches |-> Nothing]
  /\ hours = [s \in Searches |-> Nothing]
  /\ busy = [s \in Searches |-> Nothing]
  /\ slots = [s \in Searches |-> Nothing]
  /\ standing = [s \in Searches |-> {}]

-----------------------------------------------------------------------------
(* The cache.                                                              *)

CacheKey(r, row, q) ==
  [resource |-> r, version |-> row.version, date |-> q.date, duration |-> q.duration]

\* Bug: the key is made when the slots are stored, from the version of then.
LateKey(s, r) == CacheKey(r, resources[r], query[s])

KeyOf(s, r) == CacheKey(r, rows[s][r], query[s])

Missed(s) == DOMAIN rows[s] \ DOMAIN slots[s]

-----------------------------------------------------------------------------
(* Statements of find_available_slots.                                     *)

Proceed(s, label) == at' = [at EXCEPT ![s] = label]

\* AvailabilitySearchView: the organization is read before the membership.
Ask(s, q) ==
  /\ at[s] = "new"
  /\ query' = [query EXCEPT ![s] = q]
  /\ maximum' = [maximum EXCEPT ![s] = limit[q.org]]
  /\ Proceed(s, "authorize")
  /\ UNCHANGED <<vars, cache, rows, hours, busy, slots, standing>>

CheckQuery(s) ==
  /\ at[s] = "authorize"
  /\ Proceed(s, IF role[query[s].org][query[s].actor] = "none" THEN "notFound"
                ELSE IF query[s].duration > maximum[s] THEN "invalid" ELSE "select")
  /\ UNCHANGED <<vars, cache, searchLocals, standing>>

Selected(q) ==
  {r \in Resources :
     /\ OrgOf[r] = q.org
     /\ resources[r].active
     /\ q.capacity # None => resources[r].capacity >= q.capacity
     /\ q.resource # None => r = q.resource}

\* Confirmed bookings and blackouts of r, as intervals.
BookingsOf(r) == {[start |-> bookings[b].start, end |-> bookings[b].end] :
                    b \in {x \in Ids : Confirmed(x) /\ bookings[x].resource = r}}
BlackoutsOf(r) == {[start |-> x.start, end |-> x.end] :
                     x \in {y \in blackouts : y.resource = r}}

Standing == {b \in Ids : Confirmed(b)} \union blackouts

SelectResources(s) ==
  /\ at[s] = "select"
  /\ rows' = [rows EXCEPT ![s] = [r \in Selected(query[s]) |-> resources[r]]]
  /\ standing' = [standing EXCEPT ![s] = Standing]
  /\ Proceed(s, "getMany")
  /\ UNCHANGED <<vars, cache, query, maximum, hours, busy, slots>>

GetMany(s) ==
  /\ at[s] = "getMany"
  /\ LET hits == {r \in DOMAIN rows[s] : KeyOf(s, r) \in DOMAIN cache} IN
     /\ slots' = [slots EXCEPT ![s] = [r \in hits |-> cache[KeyOf(s, r)]]]
     /\ Proceed(s, IF hits = DOMAIN rows[s] THEN "ok" ELSE "rules")
  /\ UNCHANGED <<vars, cache, query, maximum, rows, hours, busy, standing>>

FetchRules(s) ==
  /\ at[s] = "rules"
  /\ hours' = [hours EXCEPT ![s] = [r \in Missed(s) |-> rules[r][query[s].date % 7]]]
  /\ Proceed(s, "bookings")
  /\ UNCHANGED <<vars, cache, query, maximum, rows, busy, slots, standing>>

FetchBookings(s) ==
  /\ at[s] = "bookings"
  /\ busy' = [busy EXCEPT ![s] =
       [r \in Missed(s) |-> S!Fetched(query[s].date, BookingsOf(r))]]
  /\ Proceed(s, "blackouts")
  /\ UNCHANGED <<vars, cache, query, maximum, rows, hours, slots, standing>>

\* Bug: blackouts do not count.
SkipBlackouts(s) ==
  /\ at[s] = "blackouts"
  /\ Proceed(s, "calculate")
  /\ UNCHANGED <<vars, cache, searchLocals, standing>>

FetchBlackouts(s) ==
  /\ at[s] = "blackouts"
  /\ busy' = [busy EXCEPT ![s] =
       [r \in Missed(s) |-> busy[s][r] \union S!Fetched(query[s].date, BlackoutsOf(r))]]
  /\ Proceed(s, "calculate")
  /\ UNCHANGED <<vars, cache, query, maximum, rows, hours, slots, standing>>

\* Without a rule for the weekday there are none.
SlotsOn(zone, date, open, duration, taken, clock) ==
  IF open = None THEN {} ELSE S!FreeSlots(zone, date, open, duration, taken, clock)

Calculate(s) ==
  /\ at[s] = "calculate"
  /\ slots' = [slots EXCEPT ![s] = [r \in DOMAIN rows[s] |->
       IF r \in DOMAIN slots[s] THEN slots[s][r]
       ELSE [asOf |-> now,
             starts |-> SlotsOn(rows[s][r].zone, query[s].date, hours[s][r],
                                query[s].duration, busy[s][r], now)]]]
  /\ Proceed(s, "setMany")
  /\ UNCHANGED <<vars, cache, query, maximum, rows, hours, busy, standing>>

\* The resources that the search has calculated.
Calculated(s) == DOMAIN hours[s]

SetMany(s) ==
  /\ at[s] = "setMany"
  /\ LET new == {KeyOf(s, r) : r \in Calculated(s)} IN
     cache' = [k \in DOMAIN cache \union new |->
                 IF k \in new THEN slots[s][k.resource] ELSE cache[k]]
  /\ Proceed(s, "ok")
  /\ UNCHANGED <<vars, searchLocals, standing>>

\* An entry expires, is evicted, or is lost with the cache.
Evict(k) ==
  /\ cache' = [x \in DOMAIN cache \ {k} |-> cache[x]]
  /\ UNCHANGED <<vars, at, searchLocals, standing>>

\* A step of the services; standing follows what it changes.
ServiceStep ==
  /\ Next
  /\ standing' = [s \in Searches |->
       {x \in standing[s] : x \in Ids => bookings'[x] = bookings[x]}]
  /\ UNCHANGED <<cache, at, searchLocals>>

SearchStep(s) ==
  \/ CheckQuery(s) \/ SelectResources(s) \/ GetMany(s) \/ FetchRules(s)
  \/ FetchBookings(s) \/ FetchBlackouts(s) \/ Calculate(s) \/ SetMany(s)

SearchNext ==
  \/ ServiceStep
  \/ \E s \in Searches :
       \/ \E q \in Queries : Ask(s, q)
       \/ SearchStep(s)
  \/ \E k \in DOMAIN cache : Evict(k)

SearchSpec == SearchInit /\ [][SearchNext]_<<vars, searchVars>>

-----------------------------------------------------------------------------
(* Properties.                                                             *)

\* The entries of the version a resource has now.
Current(k) == k.version = resources[k.resource].version

\* Whatever the cache holds under the current version of a resource is what
\* the tables say now: no search files old or mixed data under the version
\* of a later change, although it reads the version and the data in four
\* statements that other requests run between.
CurrentEntriesAreExact ==
  \A k \in DOMAIN cache : Current(k) =>
    cache[k].starts =
      SlotsOn(resources[k.resource].zone, k.date, rules[k.resource][k.date % 7],
              k.duration, BookingsOf(k.resource) \union BlackoutsOf(k.resource),
              cache[k].asOf)

\* An offered slot that has not started is still to be had as long as nothing
\* has changed the resource: it is active, and _validate_no_conflicts lets the
\* slot pass.  _validate_time_range does on a date with no clock change within
\* a day of it; near one the search and the booking read the hours differently.
OfferedSlotsCanBeBooked ==
  \A s \in Searches : at[s] = "ok" =>
    \A r \in DOMAIN rows[s] :
      /\ rows[s][r].version = resources[r].version
      /\ query[s].duration <= limit[OrgOf[r]]
      => \A t \in slots[s][r].starts : t > now =>
           /\ resources[r].active
           /\ NoConflicts(r, t, t + query[s].duration, {})
           /\ SteadyDate(resources[r].zone, query[s].date) =>
                ValidTimeRange(r, resources[r].zone, t, t + query[s].duration)

\* An answer never offers a slot that a booking or blackout takes which was
\* there when the search began and has been since, even if the answer comes
\* from an entry that another search stored.
StandingBookingsAreRespected ==
  \A s \in Searches : at[s] = "ok" =>
    \A r \in DOMAIN rows[s], x \in standing[s] :
      LET b == IF x \in Ids THEN bookings[x] ELSE x IN
      b.resource = r => \A t \in slots[s][r].starts :
        ~ Overlaps(t, t + query[s].duration, b.start, b.end)
=============================================================================
