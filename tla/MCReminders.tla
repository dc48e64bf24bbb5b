---------------------------- MODULE MCReminders ----------------------------
(***************************************************************************)
(* Small instances of Reminders: two bookings are due at time 1, while a   *)
(* request cancels one or moves the other.                                 *)
(***************************************************************************)
EXTENDS Reminders

CONSTANTS
  ann, mia, acme, room, desk, s1, s2, p1, w1, w2

Roles2   == [o \in Orgs |-> [u \in Users |-> IF u = mia THEN "manager" ELSE "member"]]
Limit2   == [o \in Orgs |-> 2]
AllAcme  == [r \in Resources |-> acme]
Utc      == [before |-> 0, after |-> 0, change |-> 0]
OnlyUtc  == {Utc}
Rows     == [r \in Resources |->
              [active |-> TRUE, zone |-> Utc, capacity |-> 1, version |-> 1]]
Opening  == [r \in Resources |-> [w \in Weekdays |->
              IF w < 2 THEN [open |-> 1, close |-> 3] ELSE None]]
Row(r, start) == [resource |-> r, owner |-> ann, start |-> start, end |-> start + 1,
                  status |-> "confirmed"]
Stored   == [b \in SeedIds |->
              IF b = s1 THEN Row(room, 2) ELSE Row(desk, 2)]
NoEdits  == {}

\* One booking is cancelled, or the other moves to an earlier time.
Changing ==
  {[op |-> "cancel", actor |-> ann, booking |-> s1, override |-> FALSE, reason |-> FALSE],
   [op |-> "reschedule", actor |-> ann, booking |-> s2, start |-> 1, end |-> 2]}
=============================================================================
