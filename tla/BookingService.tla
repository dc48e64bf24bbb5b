--------------------------- MODULE BookingService ---------------------------
(***************************************************************************)
(* The booking and resource services as concurrent HTTP requests over one  *)
(* PostgreSQL database.  A request is a process: a view resolves what the   *)
(* payload names, then one transaction authorises the actor, takes row     *)
(* locks with SELECT FOR UPDATE, validates and commits.  A step is a       *)
(* statement of the transaction: at READ COMMITTED it sees what has been   *)
(* committed before it, and the rows a transaction writes become visible   *)
(* when it commits, together with its audit event.                         *)
(***************************************************************************)
EXTENDS ZoneInfo, FiniteSets

CONSTANTS
  Users, Orgs, Resources,
  Requests,     \* the HTTP requests of a behaviour, each handled once
  SeedIds,      \* keys of the bookings stored before these requests
  Times,        \* instants that requests use
  Zones,        \* time zones that ZoneInfo knows
  MaxTime,      \* bound of the clock
  OrgOf,        \* the organization that owns a resource
  Payloads,     \* what clients may send
  RoleEdits,    \* membership changes other administrators may make meanwhile
  InitialRole, InitialLimit, InitialResources, InitialRules, InitialBookings,
  None          \* no row, no holder, no value

\* A booking's key is the request that inserted it, or a seed.
Ids      == Requests \union SeedIds
Weekdays == 0..6
Roles    == {"admin", "manager", "member", "none"}

MANAGEMENT_ROLES == {"admin", "manager"}

\* Rows that satisfy the CHECK constraints of their tables.
BookingRow ==
  {b \in [resource : Resources, owner : Users, start : Times, end : Times,
          status : {"confirmed", "cancelled"}] : b.start < b.end}
ResourceRow == [active : BOOLEAN, zone : Zones, capacity : Nat \ {0}, version : Nat]
TimeOfDay   == 0..(DayLength - 1)
Hours       == {h \in [open : TimeOfDay, close : TimeOfDay] : h.open < h.close}
Blackout    == {x \in [resource : Resources, start : Times, end : Times] :
                  x.start < x.end}
Limits      == 1..DayLength
Events      == {"booking.created", "booking.rescheduled", "booking.cancelled",
                "booking.override_cancelled", "blackout.created",
                "availability_rule.updated", "resource.archived", "resource.updated",
                "organization.updated"}
AuditEvent  == [by : Requests, event : Events, resource : Resources \union {None},
                booking : Ids \union {None}]

\* A PATCH names some fields; None stands for a field it leaves out.
Changes == [active : BOOLEAN \union {None}, zone : Zone \union {None},
            capacity : Nat \union {None}]

Payload ==
  [op : {"create"}, actor : Users, resource : Resources, start : Times, end : Times]
  \union
  [op : {"reschedule"}, actor : Users, booking : Ids, start : Times, end : Times]
  \union
  [op : {"cancel"}, actor : Users, booking : Ids, override : BOOLEAN, reason : BOOLEAN]
  \union
  [op : {"blackout"}, actor : Users, org : Orgs, resource : Resources,
   start : Times, end : Times]
  \union
  [op : {"rule"}, actor : Users, org : Orgs, resource : Resources,
   weekday : Nat, hours : [open : TimeOfDay, close : TimeOfDay]]
  \union
  [op : {"archive"}, actor : Users, org : Orgs, resource : Resources]
  \union
  [op : {"update"}, actor : Users, org : Orgs, resource : Resources, changes : Changes]
  \union
  [op : {"settings"}, actor : Users, org : Orgs, limit : Nat]

RoleTable == [Orgs -> [Users -> Roles]]
RuleTable == [Resources -> [Weekdays -> Hours \union {None}]]

Overlaps(start, end, busyStart, busyEnd) == start < busyEnd /\ end > busyStart

ASSUME DayTyped        == DayLength \in Nat \ {0} /\ MaxTime \in Nat
ASSUME TimesTyped      == Times \subseteq Int /\ Zones \subseteq Zone
ASSUME OrgOfTyped      == OrgOf \in [Resources -> Orgs]
ASSUME SeedKeysAreOld  == SeedIds \intersect Requests = {}
ASSUME NoneIsNothing   == None \notin Requests \union Resources \union BookingRow
ASSUME PayloadsTyped   == Payloads \subseteq Payload
ASSUME RoleEditsTyped  == RoleEdits \subseteq [org : Orgs, user : Users, role : Roles]
ASSUME TablesTyped ==
  /\ InitialRole \in RoleTable
  /\ InitialLimit \in [Orgs -> Limits]
  /\ InitialResources \in [Resources -> ResourceRow]
  /\ InitialRules \in RuleTable
  /\ InitialBookings \in [SeedIds -> BookingRow]
\* The stored calendar is one that earlier requests could have left.
ASSUME SeedsAreLegal ==
  \A a, b \in SeedIds :
    LET x == InitialBookings[a]
        y == InitialBookings[b] IN
    /\ a # b
    /\ x.resource = y.resource
    /\ x.status = "confirmed"
    /\ y.status = "confirmed"
    => ~ Overlaps(x.start, x.end, y.start, y.end)

-----------------------------------------------------------------------------
VARIABLES
  now,           \* wall clock
  role,          \* Membership: role[o][u], "none" without a row
  limit,         \* Organization.max_booking_duration_minutes, in ticks
  resources,     \* Resource rows
  rules,         \* AvailabilityRule: rules[r][weekday], one interval a day
  bookings,      \* Booking rows
  blackouts,     \* BlackoutPeriod rows
  audit,         \* AuditEvent rows
  resourceLock, bookingLock, orgLock,   \* holder of each FOR UPDATE row lock
  pc,            \* the statement a request executes next, or its response
  req,           \* the validated payload
  target,        \* the resource the payload's objects point to
  granted,       \* the role that the transaction read
  copy           \* the Resource row as read under its lock

tables == <<limit, resources, rules, bookings, blackouts, audit>>
locks  == <<resourceLock, bookingLock, orgLock>>
locals == <<req, target, granted, copy>>
vars   == <<now, role, tables, locks, pc, locals>>

InFlight  == {"authorize", "lockResource", "lockBooking", "timeRange",
              "conflicts", "lockOrg", "commit"}
Responses == {"ok", "badRequest", "notFound", "forbidden", "invalid",
              "conflict", "error", "crashed"}

Init ==
  /\ now = 0
  /\ role = InitialRole
  /\ limit = InitialLimit
  /\ resources = InitialResources
  /\ rules = InitialRules
  /\ bookings = [b \in Ids |-> IF b \in SeedIds THEN InitialBookings[b] ELSE None]
  /\ blackouts = {}
  /\ audit = {}
  /\ resourceLock = [r \in Resources |-> None]
  /\ bookingLock = [b \in Ids |-> None]
  /\ orgLock = [o \in Orgs |-> None]
  /\ pc = [p \in Requests |-> "new"]
  /\ req = [p \in Requests |-> None]
  /\ target = [p \in Requests |-> None]
  /\ granted = [p \in Requests |-> "none"]
  /\ copy = [p \in Requests |-> None]

-----------------------------------------------------------------------------
(* Calendar arithmetic.                                                    *)

Weekday(zone, t) == LocalDate(zone, t) % 7

InWorkingHours(r, zone, start, end) ==
  LET hours == rules[r][Weekday(zone, start)] IN
  /\ LocalDate(zone, start) = LocalDate(zone, end)
  /\ hours # None
  /\ LocalTime(zone, start) >= hours.open
  /\ LocalTime(zone, end) <= hours.close

ValidTimeRange(r, zone, start, end) ==
  /\ end > start
  /\ end - start <= limit[OrgOf[r]]
  /\ start > now
  /\ InWorkingHours(r, zone, start, end)

Confirmed(b) == bookings[b] # None /\ bookings[b].status = "confirmed"

\* Bug: blackouts are forgotten.
NoBookingConflicts(r, start, end, excluded) ==
  \A b \in Ids \ excluded :
    Confirmed(b) /\ bookings[b].resource = r =>
      ~ Overlaps(start, end, bookings[b].start, bookings[b].end)

\* No confirmed booking but those in excluded, and no blackout, overlaps.
NoConflicts(r, start, end, excluded) ==
  /\ \A b \in Ids \ excluded :
       Confirmed(b) /\ bookings[b].resource = r =>
         ~ Overlaps(start, end, bookings[b].start, bookings[b].end)
  /\ \A x \in blackouts :
       x.resource = r => ~ Overlaps(start, end, x.start, x.end)

-----------------------------------------------------------------------------
(* What every handler does first: the view, then the permission check.     *)

BookingOps == {"reschedule", "cancel"}
SlotOps    == {"create", "reschedule"}

Goto(p, label) == pc' = [pc EXCEPT ![p] = label]

\* Bug: the transaction is left open and keeps its rows.
LeftLocked(lock, p) == lock

Unlocked(lock, p) == [x \in DOMAIN lock |-> IF lock[x] = p THEN None ELSE lock[x]]

\* The transaction ends: PostgreSQL releases its row locks.
End(p, response) ==
  /\ Goto(p, response)
  /\ resourceLock' = Unlocked(resourceLock, p)
  /\ bookingLock' = Unlocked(bookingLock, p)
  /\ orgLock' = Unlocked(orgLock, p)

\* An exception rolls the transaction back.
Reject(p, response) == End(p, response) /\ UNCHANGED <<now, role, tables, locals>>

TargetOf(m) ==
  CASE m.op \in BookingOps -> bookings[m.booking].resource
    [] m.op = "settings"   -> None
    [] OTHER               -> m.resource

\* get_booking_for_member and get_resource_for_member: an object of another
\* organization does not exist for the actor.
Visible(m) ==
  CASE m.op \in BookingOps ->
         /\ bookings[m.booking] # None
         /\ role[OrgOf[bookings[m.booking].resource]][m.actor] # "none"
    [] m.op \in {"rule", "archive", "update"} ->
         /\ role[m.org][m.actor] # "none"
         /\ OrgOf[m.resource] = m.org
    [] OTHER -> TRUE

WellFormed(m) ==
  CASE m.op \in SlotOps \union {"blackout"} -> m.start < m.end
    [] m.op = "cancel"   -> m.override => m.reason
    [] m.op = "rule"     -> m.hours.open < m.hours.close
    [] m.op = "settings" -> m.limit \in Limits
    [] OTHER             -> TRUE

Receive(p, m) ==
  /\ pc[p] = "new"
  /\ req' = [req EXCEPT ![p] = m]
  /\ IF Visible(m)
       THEN /\ target' = [target EXCEPT ![p] = TargetOf(m)]
            /\ Goto(p, IF WellFormed(m) THEN "authorize" ELSE "badRequest")
       ELSE Goto(p, "notFound") /\ UNCHANGED target
  /\ UNCHANGED <<now, role, tables, locks, granted, copy>>

OrgFor(p) == IF req[p].op \in SlotOps \union BookingOps
               THEN OrgOf[target[p]] ELSE req[p].org

Owns(p) == bookings[req[p].booking].owner = req[p].actor

\* Bug: an owner may override, as if the reason were all that differs.
EntitledToOverride(p, r) ==
  CASE req[p].op = "create"   -> r # "none"
    [] req[p].op \in BookingOps -> Owns(p) \/ r \in MANAGEMENT_ROLES
    [] req[p].op = "settings" -> r = "admin"
    [] OTHER                  -> r \in MANAGEMENT_ROLES

Entitled(p, r) ==
  CASE req[p].op = "create"     -> r # "none"
    [] req[p].op = "reschedule" -> Owns(p) \/ r \in MANAGEMENT_ROLES
    [] req[p].op = "cancel"     -> \/ r \in MANAGEMENT_ROLES
                                   \/ Owns(p) /\ ~ req[p].override
    [] req[p].op = "settings"   -> r = "admin"
    [] OTHER                    -> r \in MANAGEMENT_ROLES

Authorize(p) ==
  /\ pc[p] = "authorize"
  /\ LET r == role[OrgFor(p)][req[p].actor] IN
     /\ granted' = [granted EXCEPT ![p] = r]
     /\ Goto(p, CASE r = "none"                       -> "notFound"
                  [] r # "none" /\ ~ Entitled(p, r)   -> "forbidden"
                  [] r # "none" /\ Entitled(p, r)     ->
                       IF req[p].op = "settings" THEN "lockOrg" ELSE "lockResource")
  /\ UNCHANGED <<now, role, tables, locks, req, target, copy>>

-----------------------------------------------------------------------------
(* Row locks and checks.                                                   *)

ResourceOps == {"rule", "archive", "update", "blackout"}

\* Bug: a plain SELECT.
NoRowLock(lock, row) == TRUE

\* SELECT FOR UPDATE waits while another transaction holds the row.
RowFree(lock, row) == lock[row] = None

\* Bug: the serializer's validation is taken for enough.
UncheckedTimes(op) ==
  CASE op = "create"       -> "conflicts"
    [] op \in BookingOps   -> "lockBooking"
    [] OTHER               -> "commit"

AfterResourceLock(op) ==
  CASE op = "create"        -> "timeRange"
    [] op \in BookingOps    -> "lockBooking"
    [] OTHER                -> "commit"

Patched(row, c) ==
  [row EXCEPT !.active   = IF c.active = None THEN @ ELSE c.active,
              !.zone     = IF c.zone = None THEN @ ELSE c.zone,
              !.capacity = IF c.capacity = None THEN @ ELSE c.capacity]

\* Bug: neither a serializer nor the table looks at the capacity.
OnUpdateUnchecked(row, c) ==
  IF c.zone \notin Zones \union {None} THEN "invalid"
  ELSE IF Patched(row, c) = row THEN "ok" ELSE "lock"

OnUpdate(row, c) ==
  IF c.zone \notin Zones \union {None} THEN "invalid"
  ELSE IF c.capacity = 0 THEN "error"
  ELSE IF Patched(row, c) = row THEN "ok" ELSE "lock"

\* What the handler answers at once when it has read the locked row, or
\* "lock" to go on.  The serializers let a capacity of 0 and a weekday above 6
\* through to the CHECK constraints, which answer with a server error.
OnLockedRow(p, row) ==
  CASE req[p].op = "create" /\ ~ row.active                 -> "invalid"
    [] req[p].op = "archive" /\ ~ row.active                -> "ok"
    [] req[p].op = "update"                                 -> OnUpdate(row, req[p].changes)
    [] req[p].op = "rule" /\ req[p].weekday \notin Weekdays -> "error"
    [] OTHER                                                -> "lock"

\* SELECT FOR UPDATE of the resource; the resource services also filter by
\* organization, so a foreign resource is not found and not locked.
LockResource(p) ==
  LET r == target[p] IN
  /\ pc[p] = "lockResource"
  /\ IF req[p].op \in ResourceOps /\ OrgOf[r] # req[p].org
       THEN Reject(p, "notFound")
       ELSE /\ RowFree(resourceLock, r)
            /\ IF OnLockedRow(p, resources[r]) = "lock"
                 THEN /\ resourceLock' = [resourceLock EXCEPT ![r] = p]
                      /\ copy' = [copy EXCEPT ![p] = resources[r]]
                      /\ Goto(p, AfterResourceLock(req[p].op))
                      /\ UNCHANGED <<now, role, tables, bookingLock, orgLock,
                                     req, target, granted>>
                 ELSE Reject(p, OnLockedRow(p, resources[r]))

\* Bug: the status is not read again under the lock.
LockBookingOnly(p) ==
  /\ pc[p] = "lockBooking"
  /\ bookingLock[req[p].booking] = None
  /\ bookingLock' = [bookingLock EXCEPT ![req[p].booking] = p]
  /\ Goto(p, IF req[p].op = "cancel" THEN "commit" ELSE "timeRange")
  /\ UNCHANGED <<now, role, tables, resourceLock, orgLock, locals>>

LockBooking(p) ==
  LET b == req[p].booking IN
  /\ pc[p] = "lockBooking"
  /\ RowFree(bookingLock, b)
  /\ IF Confirmed(b)
       THEN /\ bookingLock' = [bookingLock EXCEPT ![b] = p]
            /\ Goto(p, IF req[p].op = "cancel" THEN "commit" ELSE "timeRange")
            /\ UNCHANGED <<now, role, tables, resourceLock, orgLock, locals>>
       ELSE Reject(p, "conflict")

CheckTimeRange(p) ==
  /\ pc[p] = "timeRange"
  /\ IF ValidTimeRange(target[p], copy[p].zone, req[p].start, req[p].end)
       THEN Goto(p, "conflicts") /\ UNCHANGED <<now, role, tables, locks, locals>>
       ELSE Reject(p, "invalid")

Excluded(p) == IF req[p].op = "reschedule" THEN {req[p].booking} ELSE {}

CheckConflicts(p) ==
  /\ pc[p] = "conflicts"
  /\ IF NoConflicts(target[p], req[p].start, req[p].end, Excluded(p))
       THEN Goto(p, "commit") /\ UNCHANGED <<now, role, tables, locks, locals>>
       ELSE Reject(p, "conflict")

\* SELECT FOR UPDATE of the organization; nothing to save if nothing changes.
LockOrg(p) ==
  LET o == req[p].org IN
  /\ pc[p] = "lockOrg"
  /\ RowFree(orgLock, o)
  /\ IF limit[o] # req[p].limit
       THEN /\ orgLock' = [orgLock EXCEPT ![o] = p]
            /\ Goto(p, "commit")
            /\ UNCHANGED <<now, role, tables, resourceLock, bookingLock, locals>>
       ELSE Reject(p, "ok")

-----------------------------------------------------------------------------
(* Commits.  The audit event refers to the organization, and the deferred  *)
(* foreign key takes a KEY SHARE lock on that row at COMMIT: it waits for  *)
(* a transaction that holds the row FOR UPDATE.                            *)

Committing(p, op) == pc[p] = "commit" /\ req[p].op = op

Publish(p, event, booking) ==
  /\ orgLock[OrgFor(p)] \in {None, p}
  /\ audit' = audit \union
       {[by |-> p, event |-> event, resource |-> target[p], booking |-> booking]}
  /\ End(p, "ok")
  /\ UNCHANGED <<now, role, locals>>

\* Bug: a change of bookings, rules or blackouts leaves the version alone.
NoBump(r) == UNCHANGED resources

bump_availability_version(r) ==
  resources' = [resources EXCEPT ![r].version = @ + 1]

create_booking(p) ==
  /\ Committing(p, "create")
  /\ Publish(p, "booking.created", p)
  /\ bookings' = [bookings EXCEPT ![p] =
       [resource |-> target[p], owner |-> req[p].actor, status |-> "confirmed",
        start |-> req[p].start, end |-> req[p].end]]
  /\ bump_availability_version(target[p])
  /\ UNCHANGED <<limit, rules, blackouts>>

reschedule_booking(p) ==
  /\ Committing(p, "reschedule")
  /\ Publish(p, "booking.rescheduled", req[p].booking)
  /\ bookings' = [bookings EXCEPT ![req[p].booking].start = req[p].start,
                                  ![req[p].booking].end = req[p].end]
  /\ bump_availability_version(target[p])
  /\ UNCHANGED <<limit, rules, blackouts>>

cancel_booking(p) ==
  /\ Committing(p, "cancel")
  /\ Publish(p, IF req[p].override THEN "booking.override_cancelled"
                                   ELSE "booking.cancelled", req[p].booking)
  /\ bookings' = [bookings EXCEPT ![req[p].booking].status = "cancelled"]
  /\ bump_availability_version(target[p])
  /\ UNCHANGED <<limit, rules, blackouts>>

create_blackout(p) ==
  /\ Committing(p, "blackout")
  /\ Publish(p, "blackout.created", None)
  /\ blackouts' = blackouts \union
       {[resource |-> target[p], start |-> req[p].start, end |-> req[p].end]}
  /\ bump_availability_version(target[p])
  /\ UNCHANGED <<limit, rules, bookings>>

upsert_availability_rule(p) ==
  /\ Committing(p, "rule")
  /\ Publish(p, "availability_rule.updated", None)
  /\ rules' = [rules EXCEPT ![target[p]][req[p].weekday] = req[p].hours]
  /\ bump_availability_version(target[p])
  /\ UNCHANGED <<limit, bookings, blackouts>>

\* The version is written from the locked copy, not incremented in place.
deactivate_resource(p) ==
  /\ Committing(p, "archive")
  /\ Publish(p, "resource.archived", None)
  /\ resources' = [resources EXCEPT ![target[p]].active = FALSE,
                                    ![target[p]].version = copy[p].version + 1]
  /\ UNCHANGED <<limit, rules, bookings, blackouts>>

update_resource(p) ==
  /\ Committing(p, "update")
  /\ Publish(p, "resource.updated", None)
  /\ resources' = [resources EXCEPT ![target[p]] =
       [Patched(@, req[p].changes) EXCEPT !.version = copy[p].version + 1]]
  /\ UNCHANGED <<limit, rules, bookings, blackouts>>

update_organization(p) ==
  /\ Committing(p, "settings")
  /\ Publish(p, "organization.updated", None)
  /\ limit' = [limit EXCEPT ![req[p].org] = req[p].limit]
  /\ UNCHANGED <<resources, rules, bookings, blackouts>>

Commit(p) ==
  \/ create_booking(p) \/ reschedule_booking(p) \/ cancel_booking(p)
  \/ create_blackout(p) \/ upsert_availability_rule(p)
  \/ deactivate_resource(p) \/ update_resource(p) \/ update_organization(p)

-----------------------------------------------------------------------------
(* The environment, and the specification.                                 *)

\* Bug: no transaction.atomic, so a booking inserted before the crash stays.
CrashHalfway(p) ==
  \/ pc[p] \in InFlight /\ Reject(p, "crashed")
  \/ /\ Committing(p, "create")
     /\ bookings' = [bookings EXCEPT ![p] =
          [resource |-> target[p], owner |-> req[p].actor, status |-> "confirmed",
           start |-> req[p].start, end |-> req[p].end]]
     /\ End(p, "crashed")
     /\ UNCHANGED <<now, role, limit, resources, rules, blackouts, audit, locals>>

\* The worker or its connection is lost: the transaction rolls back.
Crash(p) == pc[p] \in InFlight /\ Reject(p, "crashed")

\* A membership handler of another request commits.
EditRole ==
  \E e \in RoleEdits :
    /\ role' = [role EXCEPT ![e.org][e.user] = e.role]
    /\ UNCHANGED <<now, tables, locks, pc, locals>>

Tick ==
  /\ now < MaxTime
  /\ now' = now + 1
  /\ UNCHANGED <<role, tables, locks, pc, locals>>

\* All requests are answered: stuttering here is not a deadlock.
Finished ==
  /\ \A p \in Requests : pc[p] \in Responses
  /\ UNCHANGED vars

Step(p) ==
  \/ Authorize(p) \/ LockResource(p) \/ LockBooking(p) \/ LockOrg(p)
  \/ CheckTimeRange(p) \/ CheckConflicts(p) \/ Commit(p)

Next ==
  \/ \E p \in Requests :
       \/ \E m \in Payloads : Receive(p, m)
       \/ Step(p)
       \/ Crash(p)
  \/ EditRole
  \/ Tick
  \/ Finished

Spec == Init /\ [][Next]_vars

\* A worker executes every request it has started; PostgreSQL grants a free
\* row lock to one of those that wait for it.  Clients, crashes, other
\* administrators and the clock owe nothing.
FairSpec == Spec /\ \A p \in Requests : WF_vars(Step(p))

-----------------------------------------------------------------------------
(* Properties.                                                             *)

\* Type invariant.  The rows satisfy the CHECK constraints of their tables:
\* what the serializers and services let through, PostgreSQL accepts.
TypeOK ==
  /\ now \in Nat
  /\ role \in RoleTable
  /\ limit \in [Orgs -> Limits]
  /\ resources \in [Resources -> ResourceRow]
  /\ rules \in RuleTable
  /\ bookings \in [Ids -> BookingRow \union {None}]
  /\ blackouts \subseteq Blackout
  /\ audit \subseteq AuditEvent
  /\ resourceLock \in [Resources -> Requests \union {None}]
  /\ bookingLock \in [Ids -> Requests \union {None}]
  /\ orgLock \in [Orgs -> Requests \union {None}]
  /\ pc \in [Requests -> {"new"} \union InFlight \union Responses]
  /\ req \in [Requests -> Payloads \union {None}]
  /\ target \in [Requests -> Resources \union {None}]
  /\ granted \in [Requests -> Roles]
  /\ copy \in [Requests -> ResourceRow \union {None}]

\* Two confirmed bookings of one resource never overlap, however the
\* requests that create, move and cancel them interleave: the overlap check
\* and the write of create_booking and reschedule_booking are one unit.
NoDoubleBooking ==
  \A a, b \in Ids :
    /\ a # b
    /\ Confirmed(a)
    /\ Confirmed(b)
    /\ bookings[a].resource = bookings[b].resource
    => ~ Overlaps(bookings[a].start, bookings[a].end,
                  bookings[b].start, bookings[b].end)

EventsOf(b, events) == {e \in audit : e.booking = b /\ e.event \in events}

\* The audit log tells the life of every booking exactly: one creation for
\* each booking that requests inserted, one cancellation for each that they
\* cancelled and no second one, no matter how many cancels race (record_event
\* shares the transaction of the change it records).
AuditMatchesBookings ==
  \A b \in Ids :
    /\ Cardinality(EventsOf(b, {"booking.created"})) =
         IF b \in Requests /\ bookings[b] # None THEN 1 ELSE 0
    /\ Cardinality(EventsOf(b, {"booking.cancelled", "booking.override_cancelled"})) =
         IF /\ bookings[b] # None
            /\ ~ Confirmed(b)
            /\ b \in SeedIds => InitialBookings[b].status = "confirmed"
         THEN 1 ELSE 0

\* availability_version grows by one with every committed change of a
\* resource, its rules, blackouts or bookings.  The cached availability is
\* filed under this number: a lost or forgotten increment leaves stale slots.
VersionCountsChanges ==
  \A r \in Resources :
    resources[r].version =
      InitialResources[r].version + Cardinality({e \in audit : e.resource = r})

\* Archiving is idempotent even when requests race: a resource is recorded
\* as archived once, and again only after an update has reactivated it.
ArchivedOnce ==
  \A r \in Resources :
    Cardinality({e \in audit : e.event = "resource.archived" /\ e.resource = r}) <=
      1 + Cardinality({e \in audit : /\ e.event = "resource.updated"
                                     /\ e.resource = r
                                     /\ req[e.by].changes.active = TRUE})

\* Tenant isolation: whatever was changed, the role the transaction read was
\* a role in the organization that owns the changed object, and one that
\* allows the change; members only touch bookings of their own.
ActsWithinRights ==
  \A e \in audit :
    /\ e.resource # None => OrgOf[e.resource] = OrgFor(e.by)
    /\ granted[e.by] # "none"
    /\ e.event = "organization.updated" => granted[e.by] = "admin"
    /\ granted[e.by] = "member" =>
         /\ e.event \in {"booking.created", "booking.rescheduled", "booking.cancelled"}
         /\ bookings[e.booking].owner = req[e.by].actor

\* Booking b is created or moved.
Placed(b) == bookings'[b] # bookings[b] /\ bookings'[b].status = "confirmed"

\* The interval a request gives to a booking suits the resource at the very
\* moment the transaction commits, not only when it was checked: it lies in
\* the working hours and time zone then in force, touches no blackout, and a
\* new booking is of an active resource.
IntervalsFitAtCommit ==
  [][\A b \in Ids : Placed(b) =>
       LET x == bookings'[b]
           r == x.resource IN
       /\ InWorkingHours(r, resources[r].zone, x.start, x.end)
       /\ \A c \in blackouts :
            c.resource = r => ~ Overlaps(x.start, x.end, c.start, c.end)
       /\ bookings[b] = None => resources[r].active]_vars

\* History is kept: bookings are never deleted, never change their resource
\* or owner, and a cancelled booking is never moved, revived or cancelled again.
HistoryIsKept ==
  [][\A b \in Ids : bookings[b] # None =>
       /\ bookings'[b] # None
       /\ bookings'[b].resource = bookings[b].resource
       /\ bookings'[b].owner = bookings[b].owner
       /\ ~ Confirmed(b) => bookings'[b] = bookings[b]]_vars

\* Waiting for a row that another transaction has locked.
Waiting(p) ==
  \/ /\ pc[p] = "lockResource"
     /\ resourceLock[target[p]] # None
  \/ pc[p] = "lockBooking" /\ bookingLock[req[p].booking] # None
  \/ pc[p] = "lockOrg" /\ orgLock[req[p].org] # None
  \/ pc[p] = "commit" /\ orgLock[OrgFor(p)] \notin {None, p}

\* No deadlock: the transactions in flight never all wait for each other's
\* rows (resource before booking before the organization that the audit
\* event refers to).
SomeoneProceeds ==
  (\E p \in Requests : pc[p] \in InFlight) =>
    \E p \in Requests : pc[p] \in InFlight /\ ~ Waiting(p)

\* Every request that is handled gets its response.
EveryRequestEnds ==
  \A p \in Requests : pc[p] \in InFlight ~> pc[p] \in Responses

\* A blackout is only added where no confirmed booking stands, as the
\* re-check after the lock would ensure (docs/architecture.md:12-15).
BlackoutsRecheckBookings ==
  [][\A x \in blackouts' \ blackouts, b \in Ids :
       Confirmed(b) /\ bookings[b].resource = x.resource =>
         ~ Overlaps(x.start, x.end, bookings[b].start, bookings[b].end)]_vars

\* The calendar that the tables hold.
held     == {[id |-> b, resource |-> bookings[b].resource,
              start |-> bookings[b].start, end |-> bookings[b].end] :
             b \in {x \in Ids : Confirmed(x)}}
released == {b \in Ids : bookings[b] # None /\ ~ Confirmed(b)}

Promise == INSTANCE Calendar WITH closed <- blackouts

\* The services keep the promise of Calendar: however requests interleave,
\* bookings come, move and go as if each request took effect in one step on
\* a calendar that it sees whole (the checks hold still when it commits).
ImplementsCalendar == Promise!Spec
=============================================================================
