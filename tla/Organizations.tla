--------------------------- MODULE Organizations ---------------------------
(***************************************************************************)
(* Organizations, their members and the creation of their resources, as    *)
(* concurrent requests over one database.  The view reads the row that the *)
(* URL names before the service's transaction starts, and no handler here  *)
(* locks what it has read: races meet only in the unique indexes and in    *)
(* the row locks that UPDATE and DELETE take.                              *)
(***************************************************************************)
EXTENDS Integers, Sequences

CONSTANTS
  Users,
  Orgs,         \* organizations, by their slug
  Names,        \* names of resources
  Requests,     \* the HTTP requests of a behaviour, each handled once
  SeedKeys,     \* keys of the memberships stored before these requests
  Payloads,     \* what clients may send
  InitialOrgs, InitialMembers, InitialResources,
  None          \* no row, no holder, no value

\* A membership's key is the request that inserted it, or a seed.
Keys  == Requests \union SeedKeys
Roles == {"admin", "manager", "member"}

Membership == [org : Orgs, user : Users, role : Roles]

\* The unique indexes: an entry for each organization, membership and resource.
Slug(o)            == [index |-> "slug", org |-> o]
MemberEntry(o, u)  == [index |-> "member", org |-> o, user |-> u]
ResourceName(o, n) == [index |-> "resource", org |-> o, name |-> n]

Entries == {Slug(o) : o \in Orgs}
           \union {MemberEntry(o, u) : o \in Orgs, u \in Users}
           \union {ResourceName(o, n) : o \in Orgs, n \in Names}

Payload ==
  [op : {"create_organization"}, actor : Users, org : Orgs]
  \union
  [op : {"create_resource"}, actor : Users, org : Orgs, name : Names,
   zoneKnown : BOOLEAN, capacity : Nat]
  \union
  [op : {"add_member"}, actor : Users, org : Orgs, user : Users, role : Roles]
  \union
  [op : {"update_role"}, actor : Users, org : Orgs, key : Keys, role : Roles]
  \union
  [op : {"remove_member"}, actor : Users, org : Orgs, key : Keys]

ASSUME PayloadsTyped == Payloads \subseteq Payload
ASSUME StoredTyped ==
  /\ SeedKeys \intersect Requests = {}
  /\ InitialOrgs \subseteq Orgs
  /\ InitialMembers \in [SeedKeys -> Membership]
  /\ \A k \in SeedKeys : InitialMembers[k].org \in InitialOrgs
  /\ InitialResources \subseteq {ResourceName(o, n) : o \in InitialOrgs, n \in Names}
  /\ \A j, k \in SeedKeys :
       /\ InitialMembers[j].org = InitialMembers[k].org
       /\ InitialMembers[j].user = InitialMembers[k].user
       => j = k
ASSUME NoneIsNothing == None \notin Keys \union Membership \union Entries

-----------------------------------------------------------------------------
VARIABLES
  organizations,   \* Organization rows
  members,         \* Membership rows
  resources,       \* Resource rows: their entries in the unique index
  audit,           \* AuditEvent rows, in the order of their commits
  pending,         \* the index entry a transaction has inserted and not committed
  rowLock,         \* the transaction that has updated or deleted a membership
  pc,              \* the statement a request executes next, or its response
  req,             \* the validated payload
  seen             \* the membership that the view read

tables == <<organizations, members, resources, audit>>
vars   == <<tables, pending, rowLock, pc, req, seen>>

InFlight  == {"authorize", "lookup", "insert", "reget", "write", "commit"}
Responses == {"ok", "badRequest", "notFound", "forbidden", "invalid",
              "conflict", "error", "crashed"}

Init ==
  /\ organizations = InitialOrgs
  /\ members = [k \in Keys |-> IF k \in SeedKeys THEN InitialMembers[k] ELSE None]
  /\ resources = InitialResources
  /\ audit = <<>>
  /\ pending = [p \in Requests |-> None]
  /\ rowLock = [k \in Keys |-> None]
  /\ pc = [p \in Requests |-> "new"]
  /\ req = [p \in Requests |-> None]
  /\ seen = [p \in Requests |-> None]

-----------------------------------------------------------------------------
Goto(p, label) == pc' = [pc EXCEPT ![p] = label]
Continue(p, label) == Goto(p, label) /\ UNCHANGED <<tables, pending, rowLock, req, seen>>

\* Bug: the index entry outlives its transaction.
EndKeepingEntry(p, response) ==
  /\ Goto(p, response)
  /\ rowLock' = [k \in Keys |-> IF rowLock[k] = p THEN None ELSE rowLock[k]]
  /\ UNCHANGED <<pending, req, seen>>

\* COMMIT or ROLLBACK: row locks and uncommitted index entries go.
End(p, response) ==
  /\ Goto(p, response)
  /\ pending' = [pending EXCEPT ![p] = None]
  /\ rowLock' = [k \in Keys |-> IF rowLock[k] = p THEN None ELSE rowLock[k]]
  /\ UNCHANGED <<req, seen>>

Reject(p, response) == End(p, response) /\ UNCHANGED tables

\* The keys of the rows that make u a member of o.
RowOf(o, u) ==
  {k \in Keys : members[k] # None /\ members[k].org = o /\ members[k].user = u}

HasRole(o, u, roles) == \E k \in RowOf(o, u) : members[k].role \in roles

KeyedOps == {"update_role", "remove_member"}

\* get_object_or_404 and the serializers.
Receive(p, m) ==
  LET keyed == m.op \in KeyedOps IN
  /\ pc[p] = "new"
  /\ req' = [req EXCEPT ![p] = m]
  /\ seen' = [seen EXCEPT ![p] = IF keyed THEN members[m.key] ELSE None]
  /\ Goto(p, IF m.op = "create_organization"
               THEN IF m.org \in organizations THEN "badRequest" ELSE "insert"
               ELSE IF m.org \notin organizations \/ (keyed /\ members[m.key] = None)
                      THEN "notFound" ELSE "authorize")
  /\ UNCHANGED <<tables, pending, rowLock>>

MANAGEMENT_ROLES == {"admin", "manager"}

\* The actor would demote or remove itself.
Diminishes(m) ==
  /\ m.key \in RowOf(m.org, m.actor)
  /\ m.op = "update_role" => m.role # "admin"

\* Bug: nothing compares the membership with the actor's own.
RefusalSelfAllowed(p) ==
  LET m == req[p] IN
  CASE m.op = "create_resource" /\ ~ m.zoneKnown      -> "invalid"
    [] m.op \in KeyedOps /\ seen[p].org # m.org       -> "notFound"
    [] OTHER                                          -> "none"

\* Bug: the membership may be one of another organization.
RefusalForeignAllowed(p) ==
  LET m == req[p] IN
  CASE m.op = "create_resource" /\ ~ m.zoneKnown -> "invalid"
    [] m.op \in KeyedOps /\ Diminishes(m)        -> "forbidden"
    [] OTHER                                     -> "none"

\* What the service answers at once when the actor's role suffices.
Refusal(p) ==
  LET m == req[p] IN
  CASE m.op = "create_resource" /\ ~ m.zoneKnown                     -> "invalid"
    [] m.op \in KeyedOps /\ seen[p].org # m.org                      -> "notFound"
    [] m.op \in KeyedOps /\ seen[p].org = m.org /\ Diminishes(m)     -> "forbidden"
    [] OTHER                                                         -> "none"

\* require_role, and the checks on the row that the view has read.
Authorize(p) ==
  LET m       == req[p]
      allowed == IF m.op = "create_resource" THEN MANAGEMENT_ROLES ELSE {"admin"} IN
  /\ pc[p] = "authorize"
  /\ \/ /\ RowOf(m.org, m.actor) = {}
        /\ Reject(p, "notFound")
     \/ /\ RowOf(m.org, m.actor) # {}
        /\ ~ HasRole(m.org, m.actor, allowed)
        /\ Reject(p, "forbidden")
     \/ /\ HasRole(m.org, m.actor, allowed)
        /\ Refusal(p) # "none"
        /\ Reject(p, Refusal(p))
     \/ /\ HasRole(m.org, m.actor, allowed)
        /\ Refusal(p) = "none"
        /\ Continue(p, CASE m.op = "create_resource" -> "insert"
                         [] m.op = "add_member"      -> "lookup"
                         [] m.op \in KeyedOps        -> "write")

-----------------------------------------------------------------------------
(* Inserts.                                                                *)

EntryOf(m) ==
  CASE m.op = "create_organization" -> Slug(m.org)
    [] m.op = "create_resource"     -> ResourceName(m.org, m.name)
    [] m.op = "add_member"          -> MemberEntry(m.org, m.user)

Stored(entry) ==
  CASE entry.index = "slug"     -> entry.org \in organizations
    [] entry.index = "resource" -> entry \in resources
    [] entry.index = "member"   -> RowOf(entry.org, entry.user) # {}

\* get_or_create asks first.
Lookup(p) ==
  /\ pc[p] = "lookup"
  /\ IF Stored(EntryOf(req[p])) THEN Reject(p, "conflict") ELSE Continue(p, "insert")

\* Another transaction has written a row with this key and may yet roll back.
Undecided(p, entry) ==
  \/ \E q \in Requests \ {p} : pending[q] = entry
  \/ /\ entry.index = "member"
     /\ \E k \in RowOf(entry.org, entry.user) : rowLock[k] \notin {None, p}

\* Bug: no unique constraint on the table.
InsertUnchecked(p) ==
  /\ pc[p] = "insert"
  /\ pending' = [pending EXCEPT ![p] = EntryOf(req[p])]
  /\ Goto(p, "commit")
  /\ UNCHANGED <<tables, rowLock, req, seen>>

\* INSERT waits for undecided rows with the key, then stores the entry or
\* fails: get_or_create catches the error and asks again, the others end in
\* a server error, as does a capacity that violates its CHECK constraint.
Insert(p) ==
  LET entry == EntryOf(req[p]) IN
  /\ pc[p] = "insert"
  /\ ~ Undecided(p, entry)
  /\ CASE ~ Stored(entry) /\ (req[p].op = "create_resource" => req[p].capacity > 0) ->
            /\ pending' = [pending EXCEPT ![p] = entry]
            /\ Goto(p, "commit")
            /\ UNCHANGED <<tables, rowLock, req, seen>>
       [] Stored(entry) /\ req[p].op = "add_member" -> Continue(p, "reget")
       [] OTHER -> Reject(p, "error")

Reget(p) ==
  /\ pc[p] = "reget"
  /\ Reject(p, IF Stored(EntryOf(req[p])) THEN "conflict" ELSE "error")

-----------------------------------------------------------------------------
(* UPDATE and DELETE of the membership that the view has read.             *)

\* save(update_fields) raises DatabaseError when the row is gone; a DELETE of
\* no row is none.
Write(p) ==
  LET k == req[p].key IN
  /\ pc[p] = "write"
  /\ rowLock[k] = None
  /\ CASE members[k] # None ->
            /\ rowLock' = [rowLock EXCEPT ![k] = p]
            /\ Goto(p, "commit")
            /\ UNCHANGED <<tables, pending, req, seen>>
       [] members[k] = None /\ req[p].op = "update_role"   -> Reject(p, "error")
       [] members[k] = None /\ req[p].op = "remove_member" -> Continue(p, "commit")

-----------------------------------------------------------------------------
(* Commits: the rows and the audit event become visible together.          *)

Committing(p, op) == pc[p] = "commit" /\ req[p].op = op /\ End(p, "ok")

\* role is the role recorded in the event's metadata.
Record(p, event, key, role) ==
  audit' = Append(audit, [by |-> p, event |-> event, org |-> req[p].org,
                          key |-> key, role |-> role])

create_organization(p) ==
  /\ Committing(p, "create_organization")
  /\ organizations' = organizations \union {req[p].org}
  /\ members' = [members EXCEPT ![p] =
       [org |-> req[p].org, user |-> req[p].actor, role |-> "admin"]]
  /\ Record(p, "organization.created", p, "admin")
  /\ UNCHANGED resources

create_resource(p) ==
  /\ Committing(p, "create_resource")
  /\ resources' = resources \union {ResourceName(req[p].org, req[p].name)}
  /\ Record(p, "resource.created", None, None)
  /\ UNCHANGED <<organizations, members>>

add_member(p) ==
  /\ Committing(p, "add_member")
  /\ members' = [members EXCEPT ![p] =
       [org |-> req[p].org, user |-> req[p].user, role |-> req[p].role]]
  /\ Record(p, "membership.added", p, req[p].role)
  /\ UNCHANGED <<organizations, resources>>

\* Bug: the row is only saved if the role differs from the one the view read.
update_if_it_differs(p) ==
  /\ Committing(p, "update_role")
  /\ members' = IF seen[p].role = req[p].role THEN members
                ELSE [members EXCEPT ![req[p].key].role = req[p].role]
  /\ Record(p, "membership.role_updated", req[p].key, req[p].role)
  /\ UNCHANGED <<organizations, resources>>

update_member_role(p) ==
  /\ Committing(p, "update_role")
  /\ members' = [members EXCEPT ![req[p].key] = [seen[p] EXCEPT !.role = req[p].role]]
  /\ Record(p, "membership.role_updated", req[p].key, req[p].role)
  /\ UNCHANGED <<organizations, resources>>

remove_member(p) ==
  /\ Committing(p, "remove_member")
  /\ members' = [members EXCEPT ![req[p].key] = None]
  /\ Record(p, "membership.removed", req[p].key, seen[p].role)
  /\ UNCHANGED <<organizations, resources>>

Commit(p) ==
  \/ create_organization(p) \/ create_resource(p)
  \/ add_member(p) \/ update_member_role(p) \/ remove_member(p)

Crash(p) == pc[p] \in InFlight /\ Reject(p, "crashed")

Finished ==
  /\ \A p \in Requests : pc[p] \in Responses
  /\ UNCHANGED vars

Step(p) ==
  \/ Authorize(p) \/ Lookup(p) \/ Insert(p) \/ Reget(p) \/ Write(p) \/ Commit(p)

Next ==
  \/ \E p \in Requests :
       \/ \E m \in Payloads : Receive(p, m)
       \/ Step(p)
       \/ Crash(p)
  \/ Finished

Spec     == Init /\ [][Next]_vars
FairSpec == Spec /\ \A p \in Requests : WF_vars(Step(p))

-----------------------------------------------------------------------------
(* Properties.                                                             *)

Event == [by : Requests, event : {"organization.created", "resource.created",
            "membership.added", "membership.role_updated", "membership.removed"},
          org : Orgs, key : Keys \union {None}, role : Roles \union {None}]

\* Type invariant, with the unique constraint of the memberships: nobody has
\* two rows in an organization, whatever adds, removals and role changes race.
TypeOK ==
  /\ organizations \subseteq Orgs
  /\ members \in [Keys -> Membership \union {None}]
  /\ resources \subseteq Entries
  /\ audit \in Seq(Event)
  /\ pending \in [Requests -> Entries \union {None}]
  /\ rowLock \in [Keys -> Requests \union {None}]
  /\ pc \in [Requests -> {"new"} \union InFlight \union Responses]
  /\ req \in [Requests -> Payloads \union {None}]
  /\ seen \in [Requests -> Membership \union {None}]
  /\ \A o \in Orgs, u \in Users : \A j, k \in RowOf(o, u) : j = k

\* Of the requests that create one organization or one resource at most one
\* succeeds, although the serializers look for the slug before the
\* transaction and nothing looks for the name of a resource.
CreatedOnce ==
  \A p, q \in Requests :
    /\ p # q
    /\ pc[p] = "ok"
    /\ pc[q] = "ok"
    /\ req[p].op \in {"create_organization", "create_resource"}
    /\ req[p].op = req[q].op
    => EntryOf(req[p]) # EntryOf(req[q])

\* The events about a membership, by their places in the log, and the last one.
Trail(k)     == {i \in DOMAIN audit : audit[i].key = k}
IsLast(i, k) == i \in Trail(k) /\ \A j \in Trail(k) : j <= i

\* The journal tells who is a member and in which role, although a change
\* acts on a row read before its transaction: a row exists exactly if it was
\* inserted and no removal of it is recorded, its role is the one recorded
\* last, and a removed row does not come back.
JournalTellsMembership ==
  \A k \in Keys :
    /\ members[k] # None <=>
         /\ k \in SeedKeys \/ (pc[k] = "ok" /\ Trail(k) # {})
         /\ \A i \in Trail(k) : audit[i].event # "membership.removed"
    /\ members[k] # None =>
         /\ Trail(k) = {} => members[k].role = InitialMembers[k].role
         /\ \A i \in DOMAIN audit : IsLast(i, k) => members[k].role = audit[i].role

Succeeds(p) == pc[p] = "commit" /\ pc'[p] = "ok"
Admins(o)   == {u \in Users : HasRole(o, u, {"admin"})}

\* An administrator is left: whoever takes the last one away has lost the
\* own role meanwhile.  So requests that do not overlap never leave an
\* organization without one (nobody demotes or removes oneself).
AdministratorRemains ==
  [][\A o \in Orgs : Admins(o) # {} /\ Admins(o)' = {} =>
       \E p \in Requests :
         Succeeds(p) /\ req[p].org = o /\ req[p].actor \notin Admins(o)]_vars

\* Tenant isolation: a request changes memberships of the organization in its
\* URL only, whatever key it names.
TenantsKeptApart ==
  [][\A k \in Keys, p \in Requests :
       members'[k] # members[k] /\ Succeeds(p) =>
         req[p].org = IF members[k] = None THEN members'[k].org ELSE members[k].org]_vars

\* Every request that is handled gets its response: nobody waits for ever for
\* a row or an index entry of another transaction.
EveryRequestEnds ==
  \A p \in Requests : pc[p] \in InFlight ~> pc[p] \in Responses

\* Roles are changed by administrators only (docs/architecture.md:32-33): by
\* one who still is an administrator when the change takes effect.
RolesChangedByAdmins ==
  [][\A p \in Requests :
       Succeeds(p) /\ req[p].op \in {"update_role", "remove_member"} =>
         req[p].actor \in Admins(req[p].org)]_vars
=============================================================================
