--------------------------- MODULE MCAvailability ---------------------------
(***************************************************************************)
(* Searches among the requests of MCBooking's resources: slots of one or   *)
(* two ticks on the first local day.                                       *)
(***************************************************************************)
EXTENDS Availability, TLC

CONSTANTS
  ann, mia, eve, acme, globex, room, desk, s1, p1, p2, q1, q2

SearchSymmetry == Permutations(Requests) \union Permutations(Searches)

Roles3 == [o \in Orgs |-> [u \in Users |->
  CASE o = acme /\ u = ann -> "member"
    [] o = acme /\ u = mia -> "admin"
    [] OTHER               -> "none"]]

Limit2   == [o \in Orgs |-> 2]
AllAcme  == [r \in Resources |-> acme]
\* UTC; a zone whose clock is put forward at the end of the first day's hours;
\* and one whose clock change is not near.
Utc      == [before |-> 0, after |-> 0, change |-> 0]
Forward  == [before |-> 0, after |-> 1, change |-> 3]
Later    == [before |-> 1, after |-> 0, change |-> 9]
AllZones == {Utc, Forward, Later}

Rows     == [r \in Resources |->
              [active |-> TRUE, zone |-> IF r = room THEN Utc ELSE Forward,
               capacity |-> IF r = room THEN 2 ELSE 1,
               version |-> 1]]
Opening  == [r \in Resources |-> [w \in Weekdays |->
              IF w < 2 THEN [open |-> 1, close |-> 3] ELSE None]]
Stored   == [b \in SeedIds |-> [resource |-> room, owner |-> ann, start |-> 1, end |-> 2,
                                status |-> "confirmed"]]
NoEdits  == {}

\* What changes the answers of the search: both resources, and the organization.
\* A move takes an interval as a new booking does, and gives one back.
Changing ==
  {[op |-> "reschedule", actor |-> ann, booking |-> s1, start |-> 2, end |-> 3],
   [op |-> "blackout", actor |-> mia, org |-> acme, resource |-> room, start |-> 2, end |-> 4],
   [op |-> "archive", actor |-> mia, org |-> acme, resource |-> room],
   [op |-> "update", actor |-> mia, org |-> acme, resource |-> room,
    changes |-> [active |-> None, zone |-> Later, capacity |-> None]],
   [op |-> "rule", actor |-> mia, org |-> acme, resource |-> desk,
    weekday |-> 0, hours |-> [open |-> 2, close |-> 3]],
   [op |-> "settings", actor |-> mia, org |-> acme, limit |-> 1]}

AskFor(u, n, c, r) == [actor |-> u, org |-> acme, date |-> 0, duration |-> n,
                       capacity |-> c, resource |-> r]

\* By a member, by a member with filters, and by a stranger.
Asked == {AskFor(ann, 1, None, None), AskFor(ann, 2, 2, room), AskFor(eve, 1, None, None)}
=============================================================================
