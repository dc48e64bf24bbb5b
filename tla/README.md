# Verification of the resource booking platform

The platform is a Django application with one PostgreSQL database, a Redis cache and a
Celery task. This directory holds TLA+ specifications of what it does: the services that
change the calendar of a resource, the search with its cache, organizations and their
members, and the reminders, all run concurrently. It contains the
specifications, the TLC configurations that check them on small instances, and TLAPS
proofs that hold for instances of any size. Paths below are those of the repository.

## 1. Inventory

| part | state | operations | must be right |
|---|---|---|---|
| booking service `apps/bookings/services.py` | Booking rows | create, reschedule, cancel, override-cancel; lists | no double booking; cancelled stays cancelled; working hours, blackouts; rights |
| resource service `apps/resources/services.py` | Resource, AvailabilityRule, BlackoutPeriod rows | create, update, archive, upsert rule, add blackout | `availability_version` counts every change; archive is idempotent; tenant isolation |
| availability search (same file) | Redis entries under `availability_version` | `find_available_slots`, `_calculate_resource_slots` | offered slots are free and, on dates without a clock change, bookable; no stale entry under the current version |
| organizations `apps/organizations/services.py` | Organization, Membership rows | create, update, add / change / remove member | only admins change roles; nobody removes the own admin role; an admin remains |
| audit `apps/audit/services.py` | AuditEvent rows | `record_event` | one event per committed change, none without one |
| reminders `apps/bookings/tasks.py` | ReminderDelivery rows | Celery task, at-least-once delivery | at most one reminder a booking |
| accounts, health, middleware, logging, settings, migrations, demo data | none of their own | | |

Interaction. A view (`views.py`) resolves the objects named in the URL and the payload
(`get_booking_for_member`, `get_resource_for_member`), a serializer validates the payload,
and a service runs as one `transaction.atomic` block at READ COMMITTED. The services meet in
the database only: in row locks (`select_for_update`) on the resource, then the booking, or
on the organization, and in the rows they commit. Bookings, rules and blackouts of a resource
are all guarded by the lock of its `Resource` row. Each change increments
`availability_version` (the search files its cached answers under that number) and inserts
an audit event in the same transaction.

What is hard: the row read by the view is old by the time the lock is granted; rights are
read before waiting; several statements of one transaction see different committed states;
a worker may die at any statement; commits wait for key-share locks that no line of the
code mentions. The hazards with their lines are listed in `PROJECT.json`.

## 2. Modules

| module | what it is |
|---|---|
| `Calendar` | the promise: reservations of intervals, with no requests or locks. `Book`, `Move`, `Cancel`, `Close` take effect in one step |
| `BookingService` | the booking and resource services and `update_organization`, statement by statement, with their properties |
| `Organizations` | creation of organizations and resources, memberships and roles: unique indexes, row locks, rows read before the transaction |
| `ZoneInfo` | zones with a clock change, local date and time, steady dates: shared by the checks of a booking and the search |
| `SlotRules` | working hours as instants, overlap, and the free slots of a date as a set: operators only |
| `SlotSearch` | the loop that computes the slots of one resource, on any input, against the set of `SlotRules` |
| `Availability` | extends `BookingService` with searches that run statement by statement over the versioned cache; takes `SlotRules` for the computation |
| `Reminders` | extends `BookingService` with Beat, the queue, workers and the reminder task |
| `MCCalendar`, `MCBooking`, `MCOrganizations`, `MCSlots`, `MCAvailability`, `MCReminders` | small instances for TLC |
| `CalendarProofs` | the promise excludes double booking |
| `BookingProofs` | inductive invariant; type correctness; no double booking; deadlock freedom; BookingService implements Calendar |
| `BookingHistoryProofs` | history is kept; intervals suit the resource at the commit; nobody exceeds the role read; versions and audit events count what was committed |
| `OrganizationProofs` | one row for each member; nothing is created twice; the journal tells the members; tenants stay apart; an administrator remains |
| `SlotRulesProofs` | facts of local time: division, clock changes, the days queried, slots on dates without a change |
| `SlotProofs` | the loop computes the free slots; those of steady dates are accepted |
| `AvailabilityProofs` | versions tell changes; current cache entries are exact; answers respect the calendar; offers are free and, on steady dates, accepted; the services keep their promise during searches |
| `ReminderProofs` | no reminder twice; faults bound the losses; the services keep their promise during reminders |

### BookingService and the code

A request is a process `p` with a label `pc[p]`: the statement it executes next, or the
response it got (`ok`, `badRequest` 400, `notFound` 404, `forbidden` 403, `invalid` 422,
`conflict` 409, `error` 500, or `crashed` for a lost worker).

| action | code |
|---|---|
| `Receive` | the view: look up the object, membership of the actor, serializer validation |
| `Authorize` | `membership_for` / `require_role` / `_can_manage_booking` at the head of each service |
| `LockResource` | `Resource.objects.select_for_update().get(...)` and the early returns that follow it |
| `LockBooking` | `Booking.objects.select_for_update()` and the status check |
| `CheckTimeRange` | `_validate_time_range` |
| `CheckConflicts` | `_validate_no_conflicts` |
| `LockOrg` | `update_organization`: lock and comparison |
| `create_booking`, `reschedule_booking`, `cancel_booking`, `create_blackout`, `upsert_availability_rule`, `deactivate_resource`, `update_resource`, `update_organization` | the writes of the service, its version bump and its audit event, as they become visible at COMMIT |
| `Crash` | the worker or its connection is lost; PostgreSQL rolls back |
| `EditRole` | membership handlers of requests outside the model |
| `Tick` | the wall clock |

`rules`, `resources`, `bookings`, `blackouts`, `limit`, `role` and `audit` are the tables;
`resourceLock`, `bookingLock`, `orgLock` the holders of `FOR UPDATE` locks; `copy` the
`Resource` row read under the lock, from which `update_resource` and `deactivate_resource`
write the new version. The writes of a transaction are applied in its commit step, because
no other transaction sees them earlier at READ COMMITTED, and a transaction does not read
its own writes again before it ends.

Decisions worth knowing:

- The audit event has a foreign key to the organization. Django declares it deferred, so
  PostgreSQL takes the key-share lock at COMMIT, and that conflicts with the `FOR UPDATE` of
  `update_organization`: the last guard of `Publish`.
- The serializers let a capacity of 0 and a weekday above 6 pass; the CHECK constraint then
  refuses the row and the request ends with a server error (`error`), rolled back.
- The three reads of `_validate_time_range` (limit, clock, rule) are one step. Rules cannot
  change between them, since writers hold the resource row; the limit and the clock may move
  right after the step, which covers the same outcomes.
- A booking's key is the request that inserted it, so a behaviour may cancel or move a booking
  that another of its requests has just created.
- A zone (`ZoneInfo`) has one offset before an instant and one from it on, so its clock may change; a day has `DayLength` ticks.
- A transaction's commit is one step: that `transaction.atomic` commits all or nothing and rolls back on a lost connection is
  PostgreSQL's promise, taken as given (`Crash`). What is shown is what depends on it: with a rollback that keeps the
  INSERT (`CrashHalfway`) the journal no longer tells the bookings.
- Left out: participants, purpose, reasons (except that an override needs one), resource name
  and type, audit metadata. No check reads them. The name of a resource matters to its creation
  only (`Organizations`); renaming is left out.

### Organizations and the code

| action | code |
|---|---|
| `Receive` | the view: `get_object_or_404` of the organization and, for a role change or removal, of the membership by its own key; `OrganizationSerializer` looks for the slug |
| `Authorize` | `require_role` and the checks on the row the view has read: other organization (404), own row (403), unknown zone |
| `Lookup`, `Insert`, `Reget` | `get_or_create` of `add_member`: look, INSERT, look again after `IntegrityError`. The other two creations only insert |
| `Write` | `save(update_fields=...)` and `delete()`: take the row lock; the row may be gone |
| `create_organization`, `create_resource`, `add_member`, `update_member_role`, `remove_member` | the commit: rows, and the audit event with the role as the code has read it |
| `Crash` | as above |

`pending` holds an index entry that a transaction has inserted and not committed: an INSERT of the
same key waits for it (`Undecided`), also for a row that is being deleted. Deleting a
membership that is already gone is no error and records a second removal; `previous_role` may be
stale. Both are what the code does and no document says otherwise. `update_member_role` writes the
row the view has read with another role; `update_fields` limits what is stored to the role, and
organization and user of a row never change. Not here: `update_organization` (its row lock
matters to bookings, so it is in `BookingService`), and the wait of an audit event's foreign key for it.

### Slots, the search and the code

`SlotSearch` is `_calculate_resource_slots`: `Begin` up to the loop, `Loop` one iteration. `Combine` is `datetime.combine` with fold 0 and
`astimezone(utc)`, for skipped and repeated times too. `Fetched` is the query of three UTC days.

| action of `Availability` | code |
|---|---|
| `Ask`, `CheckQuery` | `AvailabilitySearchView.get`; membership and duration, in this order |
| `SelectResources` | the filtered resources, with their version and zone |
| `GetMany` | `cache.get_many`; the answer if every resource is a hit |
| `FetchRules`, `FetchBookings`, `FetchBlackouts` | the query of the resources missed and its prefetches: one statement each, at READ COMMITTED outside a transaction |
| `Calculate`, `SetMany` | the slots with the clock of now; `cache.set_many` |
| `Evict` | expiry after `AVAILABILITY_CACHE_TTL_SECONDS`, eviction, a flushed Redis |
| `ServiceStep` | any step of `BookingService` |

One reading of the clock serves all resources of a `Calculate`. Cached answers keep slots that have
started since: the properties speak of slots that have not. Zones may change
their clock here too, so an offered slot need not pass the time checks of `create_booking` (finding 3): `OfferedSlotsCanBeBooked`
promises that on steady dates only.
`standing` is a history variable: what was on the calendar when the search selected its resources and has
not changed since.

### Reminders and the code

| action | code |
|---|---|
| `SendTask` | Beat: one message for each tick, which stands for the five minutes of its schedule |
| `Take`, `Ack` | delivery with `acks_late`: the message stays until the run returns or raises, and may be delivered a second time meanwhile (visibility timeout) |
| `Query` | `now`, the filter, and the iterator over its snapshot |
| `Insert` | the INSERT of one ReminderDelivery: waits for another transaction with the same booking, skips on `IntegrityError` |
| `StoreRow` | its COMMIT, where the deferred foreign key waits for a request that holds the booking `FOR UPDATE` |
| `Log` | the log line, which is the reminder |
| `Fail` | `OperationalError`: Celery sends the task again, at most `MaxRetries` times |
| `Lose` | the worker is lost, `reject_on_worker_lost` returns the message |

A database error or a loss at COMMIT leaves the row or does not (`Aftermath`). The broker keeps its
messages. When the retries are used up the next tick starts anew. A booking made or moved after the query
waits for the next message, and one that moves after its reminder gets no second one: the row is
one for each booking and kind.

## 3. Properties and runs

| run | module, cfg | shows |
|---|---|---|
| `calendar` | MCCalendar | the promise itself never double-books (`NoDoubleBooking` of Calendar) |
| `races` | MCRaces.cfg | three requests among create, reschedule, cancel, override-cancel and blackout, also on each other's new bookings: `NoDoubleBooking`, `AuditMatchesBookings`, `HistoryIsKept`, `ImplementsCalendar` |
| `configuration` | MCConfiguration.cfg | three requests that book while others change rules, zone (to one whose clock is put back), blackouts, active flag, capacity, duration limit, with the clock ticking; members, a manager who loses her role, and an administrator of another organization try what they may not: `IntervalsFitAtCommit`, `VersionCountsChanges`, `ArchivedOnce`, `ActsWithinRights` |
| `progress` | MCProgress.cfg | three requests, one payload of every kind, among them settings that hold the organization's row and a capacity of 0 and a weekday above 6 that the CHECK constraints refuse: `TypeOK`, `SomeoneProceeds`, and under `FairSpec` `EveryRequestEnds` |
| `organizations` | MCOrganizations.cfg | three requests among additions, removals, role changes and creations: `TypeOK` with the uniqueness of members, `JournalTellsMembership`, `CreatedOnce`, `AdministratorRemains`, `TenantsKeptApart`, and under `FairSpec` `EveryRequestEnds` |
| `slots` | MCSlots.cfg | all working hours, durations 1 to 3, seven sets of bookings, zones at both extremes and clock changes: `ReturnsTheFreeSlots`, `AcceptedOnSteadyDates`, `SearchEnds` |
| `availability` | MCAvailability.cfg | two searches over two resources, one in a zone whose clock changes on the date asked for, and two requests that change them or, as an administrator, the limit: `CurrentEntriesAreExact`, `StandingBookingsAreRespected`, `OfferedSlotsCanBeBooked` |
| `reminders` | MCReminders.cfg | two workers, a fault, a request that cancels or moves a due booking: `AtMostOneReminder`, `EachFaultLosesAtMostOne`, and under `FairReminderSpec` `DueBookingsAreReminded` |
| `blackout_recheck`, `role_changes`, `clock_change`, `lost_reminder` | MCBlackoutRecheck.cfg, MCRoleChanges.cfg, MCClockChange.cfg, MCLostReminder.cfg | violations, see section 5 |

In words: `NoDoubleBooking`, confirmed bookings of a resource never overlap.
`AuditMatchesBookings`, one creation and at most one cancellation event for each booking, and exactly
when the row says so. `HistoryIsKept`, rows never vanish, never change owner or resource, and
cancelled ones are frozen. `VersionCountsChanges`, the version is the initial one plus the number
of audited changes of the resource, so no increment is lost. `ArchivedOnce`, racing archive
requests leave one event, one more only after a reactivation. `IntervalsFitAtCommit`, what
was checked under the lock (hours, zone, blackouts, active for a new booking) is true when the
booking becomes visible. `ActsWithinRights`, each recorded change was made with a sufficient role
in the organization that owns the object. `SomeoneProceeds`, no deadlock. `EveryRequestEnds`,
each request in flight is answered. `ImplementsCalendar`, see Calendar.

`JournalTellsMembership`, a membership exists exactly if it was inserted and no removal of it is recorded,
with the role recorded last. `CreatedOnce`, one of the creations with one slug or name succeeds.
`AdministratorRemains`, who takes the last administrator away has lost the own role meanwhile.
`TenantsKeptApart`, a request changes memberships of the organization in its URL only.
`CurrentEntriesAreExact`, an entry under the current version of a resource is what the tables say now;
this is what bumping the version in the transaction of the change must achieve, and what reading the version
first achieves against mixed reads. `StandingBookingsAreRespected`, no answer offers a slot over a booking
or blackout that stood throughout the search. `OfferedSlotsCanBeBooked`, as long as a resource has
the version the search selected and the limit allows the length, it is active and an offered slot that has not started passes `_validate_no_conflicts`; on a date with no
clock change within a day of it the slot passes `_validate_time_range` as well. `ReturnsTheFreeSlots`, the
loop and its query of three UTC days give the set of free slots. `AcceptedOnSteadyDates`, on a date whose zone has one offset
from the day before to the day after, the booking checks accept them. `AtMostOneReminder`, no reminder is logged twice. `EachFaultLosesAtMostOne`, the reminders
stored and never logged are no more than the faults. `DueBookingsAreReminded`, a booking due before the next message
is stored as reminded or stops being due.

TLC's deadlock check stays on but a request in flight can always crash, so the absence of
deadlocks is stated by `SomeoneProceeds`, which ignores crashes, and by `EveryRequestEnds`.

### Bounds

- Three requests (two in `availability` and `blackout_recheck`, one in `reminders`): one that holds the row, one that waits and one
  that changes what the waiting one has read. Hazards listed need two, a chain of waits needs three. The two or one
  of the others run beside two searches or two workers.
- One resource in the races, as different resources share no lock but the organization's; two organizations and two
  resources in `configuration`.
- Times 1..3 on a first local day and 5..7 on a second of four ticks each, bookings of one or two
  ticks: touching, overlapping and containing intervals, the limit, midnight and a zone that moves
  midnight all occur. The second zone of `configuration` is a tick ahead of UTC until its clock is put back on the second day. `MaxTime` is 1 in `configuration` (a start that passes while waiting), in `availability` and in `reminders`, and 0 elsewhere.
- `Payloads` names what clients may send in a run, with symmetry over `Requests`, which occur in no
  constant but through the symmetric sets of payloads that name every key. Runs with a liveness property use no symmetry.
- `availability`: one date; zones UTC, one put forward at the end of that date's working hours, and one whose clock change is not near,
  to which the room may move; a slot of one or two ticks, two resources of which one has the capacity asked for; the request that
  moves a booking (which takes an interval as a new booking does), closes, archives, rezones or changes hours or the limit comes
  between any two statements of either search, and the second search may find what the first has stored.
- `reminders`: two bookings due, two workers so that one message is worked on twice, `MaxFaults` 1 and `MaxRetries` 1: a second
  fault would use up the retries, and the next tick then starts anew. `MaxTime` 1 gives two messages of Beat.
- `slots`: days of six ticks with a step of two. `SlotSearch` has one resource and no concurrency, so its inputs are enumerated.
- No counter needs a cap: a request is handled once.

### Fairness

`FairSpec` assumes weak fairness of `Step(p)` for each request: a worker goes on with the
statement it has reached, and PostgreSQL grants a free row to those who wait. As every
request takes each lock at most once, a free row stays free for the last one that waits, so weak
fairness is enough. Nothing is assumed of clients (`Receive`), crashes, role edits or the clock.
`FairSpec` of `Organizations` is the same assumption; a transaction there holds one thing, so waits do not form a cycle.
`FairReminderSpec` adds Beat (it fires once a tick), the workers (an idle one takes a message, a busy one goes on), and the
requests, as the COMMIT of a delivery waits for them. Faults are bounded, as no retry policy survives unbounded ones; one
fault leaves the retry. `FairSpec` of `SlotSearch` says that the loop runs.

## 4. Proofs

All theorems are about arbitrary constants that satisfy the named assumptions. Every invariant, every action property and
the refinement that a passing run checks is proved; of the properties that should hold, liveness alone is model-checked only.

Assumptions, each with what justifies it:

- Types of the constants: payloads are what the serializers let pass, tables what the schema admits.
- `BookingService`: a working day opens and closes at a time of day (`TimeField`); zones are less than a day from UTC and change their clock at one instant at most; the stored
  bookings do not overlap (`SeedsAreLegal`); keys of stored rows are not requests.
- `Organizations`: the stored rows obey the unique indexes, and the organization of a stored membership is stored (its foreign key).
- `SlotRules`, `SlotSearch`, `Availability`: a day and the step last some time. The step is 30 minutes by default; `AVAILABILITY_SLOT_STEP_MINUTES` is not
  validated, and with a step of 0 the loop would not end, so `SearchEnds` and the theorems about slots hold for positive steps only. `Calendar`: times are integers.
- `None` is no key, no row and no index entry, and keys of bookings are no rows of blackouts. These separate the model's own values.

The services:

- `LockDiscipline`, `Spec => []IInv`. `NoDoubleBooking` is not inductive: it is kept by a commit only
  if the interval is still free. `IInv` therefore says, for each request and statement, which rows it
  has locked (`HasResource`, `HasBooking`, `HasOrg`), what the view and the early returns have
  established about its payload (`Handled`, `ResourceRead`), that a locked booking is still
  confirmed, and that at `commit` the interval of a create or reschedule still conflicts with
  nothing (`RequestInv`). The heart is `CommitKeepsRequestInvs`: a commit changes only
  the calendar of the resource its request has locked, which no other request has locked, so what the others
  checked stays true. One lemma per action, `FrameKeepsRequestInv` for the requests that do not act.
- `TypeCorrect` and `BookingsNeverOverlap` follow: `Spec => []TypeOK`, where `TypeOK` includes the CHECK
  constraints of the tables, and `Spec => []NoDoubleBooking`.
- `NoDeadlock`, `Spec => []SomeoneProceeds`. `HoldersInv` is the converse of the lock part of `IInv`: whoever
  holds a row is at a statement that needs it. Following the holders along the order resource, booking,
  organization reaches a request that does not wait.
- `ServiceKeepsPromise`, `Spec => ImplementsCalendar`. `held` and `released` are computed from the rows
  (`HeldAfterwards` says how one changed row changes them); creates, moves, cancels and blackouts
  are `Book`, `Move`, `Cancel` and `Close`; the rest stutters.
- `PromiseExcludesDoubleBooking`, the abstract calendar's own invariant.

- `HistoryStands`, `Spec => HistoryIsKept`. A commit writes one booking, which its request holds
  and which is confirmed (`IInv`), so what is cancelled is out of reach.
- `IntervalsSuitTheirResource`, `Spec => IntervalsFitAtCommit`. `FInv`: while a request holds its resource,
  the copy it has read is the row, and at `conflicts` and `commit` the interval lies in the working hours of the
  rules as they are. Other commits leave a locked resource and its rules alone (`CommitsKeepLockedRows`).
- `NobodyExceedsTheirRole`, `Spec => []ActsWithinRights`. `AInv`: a request past `authorize` is entitled by the
  role it has read, and stays so, as the owner of a booking never changes; recorded events belong to requests that are
  answered, whose local variables are frozen.
- `VersionsCountChanges`, `JournalTellsBookings`, `ArchivedOnceEach`. A request records one event and ends, so the event is new
  and each count grows by one (`OneMoreEvent`). `CountInv` adds what the three need: stored bookings that were cancelled stay so,
  and, for archives, that an active resource has been reactivated since each recorded one (`ArchivalInv`).

Organizations, users and memberships:

- Nothing but a commit writes there, and no handler locks what it has read. `IInv` of `OrganizationProofs` says what stays true all the
  same: a row keeps its organization and user and its key is never inserted again (`SameRow`), so the checks on the row the view has read
  remain good (`Permitted`); an index entry that a transaction has inserted is stored by no other (`EntriesInv`); a row lock keeps the row
  (`Held`). For the journal, `Told` says of each key what its events add up to and that the last of them has the role of the row.
- `OneRowPerMember` (`Spec => []TypeOK`, which includes the unique index), `NothingIsCreatedTwice`, `JournalTellsMembers` follow at
  once. `TenantsStayApart` and `AnAdministratorRemains` are action properties: `CommitOfMembers` reduces them to the three commits, where
  `Permitted` names the organization and the row. Somebody who takes the last administrator away is therefore no administrator of
  that organization any more.

Slots:

- `SearchReturnsTheFreeSlots`: the invariant of the loop is that the cursor is a whole number of steps past the opening and the slots found so far are
  the free ones before it. `QueriedDaysSuffice`: any interval that meets the working hours of a local date meets the three UTC
  days queried, whatever the zone and its clock change (`CombineIsNear`: an instant of the date is within a day of its reading as UTC).
- `SteadyOffersAreAccepted`: on a date with no clock change within a day of it, local times of instants differ as the instants
  do (`SteadyOffset`), so a slot between opening and closing instants has local times between opening and closing times.

The search:

- `VersionsTellChanges`, `Spec => [][VersionsTell]_vars`: a step that alters a resource, its rules, bookings or blackouts increases its version, and no
  step decreases one. This is what the cache relies on, and it rests on `IInv` and `FInv`: the version that
  `update_resource` writes is computed from the copy read under the lock, which is still the row.
- `SearchDiscipline`, `SearchSpec => [](IInv /\ SInv)`. `Fresh`: as long as a resource has the version that a search selected, what the search has
  read of it, statement by statement, is so, and the slots it has calculated are exact. `CacheInv`: an entry is filed under a version the
  resource has had, and is exact as long as it has it. These give `CurrentEntriesStayExact` and `OffersCanBeBooked`: what is
  offered under the current version is free in the tables as they are. Its last clause, that the time checks accept the slot, needs `SlotsFit`, which is
  `SlotsOfSteadyDatesFit` of `SlotRulesProofs` for a zone of the services, and so a steady date; without one it is false of the code, as `clock_change` shows.
- `AnswersRespectTheCalendar`. A stale version proves nothing about an entry, yet another search may have stored it from the same version and
  later reads. `Respect` therefore speaks of all searches and entries at once: what has stood since a search selected a version is avoided by all
  that any search has calculated, or will, from that version.
- `PromiseHoldsDuringSearches` and `PromiseHoldsDuringReminders`: `SearchSpec` and `ReminderSpec` imply `Spec`, so every theorem about the services
  holds in their company; stated for the refinement.

Reminders:

- `NoReminderTwice`, `ReminderSpec => []AtMostOneReminder`. `DInv`: between INSERT and log line a worker is alone with its
  booking; before the COMMIT there is no row, after it the row is there and nothing is logged.
- `FaultsBoundLosses`, `ReminderSpec => []EachFaultLosesAtMostOne`. `LInv`: the lost reminders are finite and no more than
  the faults; a fault of a worker can add the one it was working on only.

Only model-checked: liveness (`EveryRequestEnds` twice, `DueBookingsAreReminded`, `SearchEnds`), as fairness and ENABLED are out
of the prover's reach; and the four violations of section 5, which are counterexamples.

## 5. Findings

1. `blackout_recheck`. `docs/architecture.md:12-15` says that every operation that changes the calendar, adding a blackout among
   them, re-checks the confirmed bookings and blackouts after it has the lock. `create_blackout`
   (`apps/resources/services.py:154-165`) takes the lock and inserts the row without looking at bookings. `BlackoutsRecheckBookings`
   is violated by a blackout committed over a confirmed booking, which stays confirmed. `Calendar!Close` is written
   accordingly: closing does not ask.
2. `role_changes`. `docs/architecture.md:32-33` says that only administrators change roles. The actor's role is read in one statement and
   the other membership is written in a later one, and nothing holds the first row: two administrators remove or
   demote each other and both succeed (`RolesChangedByAdmins`). What does hold is `AdministratorRemains`.
3. `clock_change`. On a date whose clock changes, the search steps by elapsed time between the instants at which the working hours open
   and close, while `_validate_time_range` compares local times of start and end: it refuses slots that were offered
   (`OfferedSlotsAreAccepted`). `README.md:6-7` says only that users look for free slots and book them.
4. `lost_reminder`. The delivery row is committed before the log line, and the row makes each later run skip the booking: a worker lost in between
   loses the reminder (`DeliveriesAreLogged`). `EachFaultLosesAtMostOne` bounds the loss.

Noted without a claim in the docs: `reschedule_booking` does not look at `is_active`, so bookings of
an archived resource can be moved; the duration limit is read without a lock and may be lowered before the
commit.

## 6. Plan and what is not modelled

Next: `Organizations` composed with `BookingService` in place of `EditRole`, so that roles change by the handlers and foreign keys of
their audit events wait for `update_organization`. `ActsWithinRights` speaks of the role that was read and would say the same.

Not modelled:

- `scripts/seed_demo.py` writes bookings and rules without lock, version or event. It fills an empty demo database and nothing promises
  that it can run beside the services; the two places are listed as a hazard.
- `list_bookings`, `my_schedule` and the other lists: single read-only queries with no invariant of their own.
- Participants of a booking: inserted with it in one transaction and read by no check.
- JWT authentication (library), health checks, middleware, logging, Docker and CI files, migrations (generated), the text of messages.
