-------------------------- MODULE MCOrganizations --------------------------
(***************************************************************************)
(* Small instances of Organizations: acme has two administrators and a     *)
(* member, globex one administrator, initech does not exist yet.           *)
(***************************************************************************)
EXTENDS Organizations

CONSTANTS
  ann, mia, bob, eve,
  acme, globex, initech,
  room,
  kAnn, kMia, kBob, kEve,
  p1, p2, p3

Member(o, u, r) == [org |-> o, user |-> u, role |-> r]

Stored4 == [k \in SeedKeys |->
  CASE k = kAnn -> Member(acme, ann, "admin")
    [] k = kMia -> Member(acme, mia, "admin")
    [] k = kBob -> Member(acme, bob, "member")
    [] k = kEve -> Member(globex, eve, "admin")]

NoResources == {}

Found(u, o)        == [op |-> "create_organization", actor |-> u, org |-> o]
Furnish(u, o, z, c) == [op |-> "create_resource", actor |-> u, org |-> o, name |-> room,
                        zoneKnown |-> z, capacity |-> c]
Add(u, o, v, r)    == [op |-> "add_member", actor |-> u, org |-> o, user |-> v, role |-> r]
SetRole(u, o, k, r) == [op |-> "update_role", actor |-> u, org |-> o, key |-> k, role |-> r]
Remove(u, o, k)    == [op |-> "remove_member", actor |-> u, org |-> o, key |-> k]

\* Members come and go, and change roles; and a request removes whom p1 has added.
MembershipRace ==
  {SetRole(ann, acme, kAnn, "member"), SetRole(ann, acme, kMia, "member"),
   SetRole(mia, acme, kAnn, "manager"), SetRole(eve, globex, kBob, "admin"),
   SetRole(ann, acme, kBob, "admin"), SetRole(mia, acme, kBob, "member"),
   Remove(mia, acme, kAnn), Remove(ann, acme, kBob), Add(mia, acme, bob, "manager"),
   Remove(mia, acme, p1)}

\* Creations with one slug or one name, by those who may and may not.
CreationRace ==
  {Found(ann, initech), Found(eve, initech), Found(bob, acme),
   Furnish(ann, acme, TRUE, 1), Furnish(ann, acme, FALSE, 1),
   Furnish(mia, acme, TRUE, 0), Furnish(eve, initech, TRUE, 1),
   Add(bob, acme, eve, "member")}

Race == MembershipRace \union CreationRace
=============================================================================
