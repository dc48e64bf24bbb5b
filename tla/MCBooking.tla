------------------------------ MODULE MCBooking ------------------------------
(***************************************************************************)
(* Small instances of BookingService.  A day has four ticks, so the times  *)
(* 1..3 lie on the first local day and 4..7 on the second; working hours   *)
(* are the ticks 1 to 3 of the first two weekdays.                         *)
(***************************************************************************)
EXTENDS BookingService, TLC

CONSTANTS
  ann, bob, mia, eve,   \* owner, colleague, manager, and a foreign admin
  acme, globex,         \* two organizations
  room, desk,           \* the resource of acme, and the one of globex
  s1,                   \* a stored booking of room
  p1, p2, p3

RequestSymmetry == Permutations(Requests)

-----------------------------------------------------------------------------
(* Stored data.                                                            *)

Roles1 == [o \in Orgs |-> [u \in Users |->
  CASE o = acme /\ u \in {ann, bob} -> "member"
    [] o = acme /\ u = mia          -> "manager"
    [] o = globex /\ u = eve        -> "admin"
    [] OTHER                        -> "none"]]

\* As Roles1, with mia administering acme.
Roles2 == [Roles1 EXCEPT ![acme][mia] = "admin"]

MaxHours == [o \in Orgs |-> 2]
Owner   == [r \in Resources |-> IF r = room THEN acme ELSE globex]
\* UTC; a zone ahead of it until its clock is put back; and one unknown.
Utc      == [before |-> 0, after |-> 0, change |-> 0]
East     == [before |-> 1, after |-> 0, change |-> 6]
Unknown  == [before |-> 3, after |-> 3, change |-> 0]
OnlyUtc  == {Utc}
TwoZones == {Utc, East}

Rows    == [r \in Resources |->
              [active |-> TRUE, zone |-> Utc, capacity |-> 1, version |-> 1]]
Opening == [r \in Resources |-> [w \in Weekdays |->
              IF w < 2 THEN [open |-> 1, close |-> 3] ELSE None]]

Row(owner, start, end) ==
  [resource |-> room, owner |-> owner, start |-> start, end |-> end,
   status |-> "confirmed"]

Stored == [b \in SeedIds |-> Row(ann, 1, 2)]
NoEdits == {}

-----------------------------------------------------------------------------
(* Payloads.                                                               *)

Create(u, r, s, e)     == [op |-> "create", actor |-> u, resource |-> r,
                           start |-> s, end |-> e]
Reschedule(u, b, s, e) == [op |-> "reschedule", actor |-> u, booking |-> b,
                           start |-> s, end |-> e]
CancelBy(u, b)         == [op |-> "cancel", actor |-> u, booking |-> b,
                           override |-> FALSE, reason |-> FALSE]
OverrideCancel(u, b)   == [op |-> "cancel", actor |-> u, booking |-> b,
                           override |-> TRUE, reason |-> TRUE]
BlackoutOn(u, o, r, s, e) == [op |-> "blackout", actor |-> u, org |-> o,
                              resource |-> r, start |-> s, end |-> e]
Rule(u, o, r, w, a, z) == [op |-> "rule", actor |-> u, org |-> o, resource |-> r,
                           weekday |-> w, hours |-> [open |-> a, close |-> z]]
Archive(u, o, r)       == [op |-> "archive", actor |-> u, org |-> o, resource |-> r]
Settings(u, o, n)      == [op |-> "settings", actor |-> u, org |-> o, limit |-> n]
Update(u, o, r, c)     == [op |-> "update", actor |-> u, org |-> o, resource |-> r,
                           changes |-> c]

Same == [active |-> None, zone |-> None, capacity |-> None]
Reactivation  == [Same EXCEPT !.active = TRUE]
Deactivation  == [Same EXCEPT !.active = FALSE]
Rezoning(z)   == [Same EXCEPT !.zone = z]
Resizing(n)   == [Same EXCEPT !.capacity = n]

\* Bookings against blackouts.
BlackoutRace ==
  {Create(bob, room, 2, 3), Create(bob, room, 1, 3), BlackoutOn(mia, acme, room, 1, 3)}
  \union {Reschedule(ann, b, s, 3) : b \in Ids, s \in {1, 2}}
  \union {CancelBy(bob, b) : b \in Ids}

\* Bookings come, move and go, touching and overlapping by one tick, and meet
\* blackouts.
CalendarRace ==
  BlackoutRace
  \union {Create(bob, room, 1, 2)}
  \union {Reschedule(mia, b, 5, 6) : b \in Ids}
  \union {CancelBy(ann, b) : b \in Ids}
  \union {OverrideCancel(mia, b) : b \in Ids}

\* Members, managers and strangers try what they may and may not do.
TenantTrials ==
  {Create(eve, room, 2, 3), Create(ann, desk, 2, 3),
   Reschedule(mia, s1, 2, 3), Reschedule(eve, s1, 2, 3),
   CancelBy(bob, s1), OverrideCancel(ann, s1),
   BlackoutOn(bob, acme, room, 2, 3), BlackoutOn(eve, globex, room, 2, 3),
   Archive(eve, globex, room), Settings(eve, acme, 1),
   Rule(eve, globex, room, 0, 1, 2), Update(eve, acme, room, Resizing(4))}

\* The resource is changed while it is booked, also by those who may not.
ConfigurationRace ==
  TenantTrials \union
  {Create(bob, room, 2, 3), Create(bob, room, 3, 5), Reschedule(ann, s1, 5, 7),
   Archive(mia, acme, room),
   Update(mia, acme, room, Reactivation), Update(mia, acme, room, Rezoning(East)),
   Update(mia, acme, room, Rezoning(Unknown)), Update(mia, acme, room, Resizing(4)),
   Update(mia, acme, room, Resizing(0)), Rule(mia, acme, room, 7, 1, 2),
   Create(bob, room, 1, 2),
   Rule(mia, acme, room, 0, 1, 2), Rule(mia, acme, room, 0, 2, 1),
   BlackoutOn(mia, acme, room, 2, 4), BlackoutOn(mia, acme, room, 4, 4),
   Settings(mia, acme, 1), Settings(mia, acme, 2), Settings(mia, acme, 0)}

\* Every kind of request, for the locks they take, and two that the CHECK
\* constraints refuse under the lock.
EveryKind ==
  {Create(bob, room, 2, 3), Reschedule(ann, s1, 2, 3), CancelBy(ann, s1),
   BlackoutOn(mia, acme, room, 1, 2), Archive(mia, acme, room),
   Rule(mia, acme, room, 0, 1, 2), Update(mia, acme, room, Deactivation),
   Settings(mia, acme, 1),
   Update(mia, acme, room, Resizing(0)), Rule(mia, acme, room, 7, 1, 2)}

\* The manager loses her membership.
Demotion == {[org |-> acme, user |-> mia, role |-> "none"]}
=============================================================================
