------------------------- MODULE OrganizationProofs -------------------------
(***************************************************************************)
(* Theorems of Organizations, for any users, requests, payloads and stored *)
(* rows.  No handler locks what it has read, so the inductive invariant    *)
(* says which of it stays true all the same: a row keeps its organization  *)
(* and user and is never inserted again, an uncommitted index entry keeps  *)
(* every other transaction from storing it, and a row lock keeps the row.  *)
(***************************************************************************)
EXTENDS Organizations, TLAPS

-----------------------------------------------------------------------------
(* The inductive invariant.                                                *)

InsertOps == {"create_organization", "create_resource", "add_member"}
Creations == {"create_organization", "create_resource"}

\* Key k has been given to a row, which may be gone again.
Given(k) == k \in SeedKeys \/ (k \in Requests /\ pc[k] = "ok")

\* Rows come from requests that have succeeded, and their organization exists.
RowInv(k) == members[k] # None => Given(k) /\ members[k].org \in organizations

\* What the view has read about the payload, and what of it stays true.
Handled(p) ==
  /\ pc[p] = "authorize" => req[p].op # "create_organization"
  /\ pc[p] \in {"lookup", "reget"} => req[p].op = "add_member"
  /\ pc[p] = "insert" => req[p].op \in InsertOps
  /\ pc[p] = "write" => req[p].op \in KeyedOps
  /\ req[p].op # "create_organization" => req[p].org \in organizations

\* The row that a keyed request has read is the row of that key, or that is
\* gone for good.
SameRow(p) ==
  /\ seen[p] \in Membership
  /\ Given(req[p].key)
  /\ members[req[p].key] # None => /\ members[req[p].key].org = seen[p].org
                                   /\ members[req[p].key].user = seen[p].user

\* After authorization: it is of the organization in the URL, and nobody
\* takes away an administrator's role of their own.
Permitted(p) ==
  /\ seen[p].org = req[p].org
  /\ members[req[p].key] # None /\ seen[p].user = req[p].actor =>
       req[p].op = "update_role" /\ req[p].role = "admin"

\* What UPDATE and DELETE have found.
Held(p) ==
  LET k == req[p].key IN
  IF members[k] = None THEN req[p].op = "remove_member" ELSE rowLock[k] = p

RequestInv(p) ==
  /\ pc[p] # "new" => req[p] \in Payloads
  /\ pc[p] \in InFlight => Handled(p)
  /\ pc[p] \in InFlight /\ req[p].op \in KeyedOps => SameRow(p)
  /\ pc[p] \in {"write", "commit"} /\ req[p].op \in KeyedOps => Permitted(p)
  /\ pc[p] = "commit" /\ req[p].op \in KeyedOps => Held(p)
  /\ pc[p] = "commit" /\ req[p].op \in InsertOps =>
       pending[p] = EntryOf(req[p]) /\ ~ Stored(EntryOf(req[p]))
  /\ pc[p] = "ok" /\ req[p].op \in Creations => Stored(EntryOf(req[p]))

\* An index entry is written by one transaction at a time.
EntriesInv ==
  \A p, q \in Requests : p # q /\ pending[p] # None => pending[p] # pending[q]

\* Events are about rows that have existed.
EventsInv == \A i \in DOMAIN audit : audit[i].key # None => Given(audit[i].key)

\* What the journal tells of one key.
Told(k) ==
  /\ members[k] # None <=>
       /\ k \in SeedKeys \/ (pc[k] = "ok" /\ Trail(k) # {})
       /\ \A i \in Trail(k) : audit[i].event # "membership.removed"
  /\ members[k] # None =>
       /\ Trail(k) = {} => members[k].role = InitialMembers[k].role
       /\ \A i \in DOMAIN audit : IsLast(i, k) => members[k].role = audit[i].role

IInv ==
  /\ TypeOK
  /\ \A k \in Keys : RowInv(k) /\ Told(k)
  /\ \A p \in Requests : RequestInv(p)
  /\ EntriesInv
  /\ EventsInv
  /\ CreatedOnce

-----------------------------------------------------------------------------
(* Facts about the constants and the operators.                            *)

\* What a payload holds, by its operation.
LEMMA PayloadFields ==
  ASSUME NEW m \in Payloads
  PROVE  /\ m.op \in InsertOps \union KeyedOps
         /\ m.actor \in Users /\ m.org \in Orgs
         /\ m.op = "create_resource" => m.name \in Names
         /\ m.op = "add_member" => m.user \in Users /\ m.role \in Roles
         /\ m.op \in KeyedOps => m.key \in Keys
         /\ m.op = "update_role" => m.role \in Roles
BY PayloadsTyped DEF Payload, InsertOps, KeyedOps

\* None is none of the things that a variable holds besides it.
LEMMA NoneApart ==
  /\ None \notin Keys /\ None \notin Requests
  /\ None \notin Membership /\ None \notin Entries
BY NoneIsNothing DEF Keys

\* The index entry of what a request inserts.
LEMMA InsertedEntry ==
  ASSUME NEW m \in Payloads, m.op \in InsertOps
  PROVE  /\ EntryOf(m) \in Entries
         /\ m.op = "create_organization" =>
              /\ EntryOf(m) = Slug(m.org)
              /\ Stored(EntryOf(m)) <=> m.org \in organizations
         /\ m.op = "create_resource" =>
              /\ EntryOf(m) = ResourceName(m.org, m.name)
              /\ Stored(EntryOf(m)) <=> EntryOf(m) \in resources
         /\ m.op = "add_member" =>
              /\ EntryOf(m) = MemberEntry(m.org, m.user)
              /\ Stored(EntryOf(m)) <=> RowOf(m.org, m.user) # {}
<1>1. CASE m.op = "create_organization"
  <2>1. EntryOf(m) = Slug(m.org)
    BY <1>1 DEF EntryOf
  <2>2. Slug(m.org).index = "slug" /\ Slug(m.org).org = m.org
    BY DEF Slug
  <2> QED BY <1>1, <2>1, <2>2, PayloadFields DEF Entries, Stored
<1>2. CASE m.op = "create_resource"
  <2>1. EntryOf(m) = ResourceName(m.org, m.name)
    BY <1>2 DEF EntryOf
  <2>2. ResourceName(m.org, m.name).index = "resource"
    BY DEF ResourceName
  <2> QED BY <1>2, <2>1, <2>2, PayloadFields DEF Entries, Stored
<1>3. CASE m.op = "add_member"
  <2>1. EntryOf(m) = MemberEntry(m.org, m.user)
    BY <1>3 DEF EntryOf
  <2>2. /\ MemberEntry(m.org, m.user).index = "member"
        /\ MemberEntry(m.org, m.user).org = m.org
        /\ MemberEntry(m.org, m.user).user = m.user
    BY DEF MemberEntry
  <2> QED BY <1>3, <2>1, <2>2, PayloadFields DEF Entries, Stored
<1> QED BY <1>1, <1>2, <1>3 DEF InsertOps

\* What a request inserts is stored, after a step, exactly if its row is.
LEMMA StoredNext ==
  ASSUME NEW p \in Requests, req'[p] \in Payloads, req'[p].op \in InsertOps
  PROVE  /\ req'[p].op = "create_organization" =>
              (Stored(EntryOf(req[p]))' <=> req'[p].org \in organizations')
         /\ req'[p].op = "create_resource" =>
              (Stored(EntryOf(req[p]))' <=> EntryOf(req'[p]) \in resources')
         /\ req'[p].op = "add_member" =>
              (Stored(EntryOf(req[p]))' <=> RowOf(req[p].org, req[p].user)' # {})
<1> DEFINE m == req'[p]
<1>1. CASE m.op = "create_organization"
  <2>1. EntryOf(m).index = "slug" /\ EntryOf(m).org = m.org
    BY <1>1 DEF EntryOf, Slug
  <2> QED BY <1>1, <2>1 DEF Stored
<1>2. CASE m.op = "create_resource"
  <2>1. EntryOf(m).index = "resource"
    BY <1>2 DEF EntryOf, ResourceName
  <2> QED BY <1>2, <2>1 DEF Stored
<1>3. CASE m.op = "add_member"
  <2>1. EntryOf(m).index = "member" /\ EntryOf(m).org = m.org /\ EntryOf(m).user = m.user
    BY <1>3 DEF EntryOf, MemberEntry
  <2> QED BY <1>3, <2>1 DEF Stored
<1> QED BY <1>1, <1>2, <1>3 DEF InsertOps

\* What is stored stays so while the tables stay.
LEMMA StoredStays ==
  ASSUME NEW p \in Requests, req[p] \in Payloads, req[p].op \in InsertOps,
         req'[p] = req[p], UNCHANGED tables
  PROVE  Stored(EntryOf(req[p]))' <=> Stored(EntryOf(req[p]))
<1>1. RowOf(req[p].org, req[p].user)' = RowOf(req[p].org, req[p].user)
  BY DEF RowOf, tables
<1> QED BY <1>1, InsertedEntry, StoredNext DEF tables, InsertOps

-----------------------------------------------------------------------------
(* Steps that leave the tables as they are.                                *)

\* A request keeps its part of the invariant through such steps of others.
LEMMA QuietFrame ==
  ASSUME IInv, UNCHANGED tables, NEW q \in Requests,
         pc'[q] = pc[q], req'[q] = req[q], seen'[q] = seen[q], pending'[q] = pending[q],
         \A k \in Requests : pc[k] = "ok" => pc'[k] = "ok",
         \A k \in Keys : rowLock[k] = q => rowLock'[k] = q
  PROVE  RequestInv(q)'
<1> USE DEF RequestInv
<1>1. RequestInv(q)
  BY DEF IInv
<1>2. pc[q] \in InFlight => Handled(q)'
  BY <1>1 DEF Handled, tables
<1>3. pc[q] \in InFlight /\ req[q].op \in KeyedOps => SameRow(q)'
  BY <1>1 DEF SameRow, Given, tables
<1>4. pc[q] \in {"write", "commit"} /\ req[q].op \in KeyedOps => Permitted(q)'
  BY <1>1 DEF Permitted, tables
<1>5. pc[q] = "commit" /\ req[q].op \in KeyedOps => Held(q)'
  <2> SUFFICES ASSUME pc[q] = "commit", req[q].op \in KeyedOps PROVE Held(q)'
    OBVIOUS
  <2>1. req[q].key \in Keys
    BY <1>1, PayloadFields
  <2> QED BY <1>1, <2>1 DEF Held, tables
<1>6. pc[q] # "new" /\ req[q].op \in InsertOps =>
        (Stored(EntryOf(req[q]))' <=> Stored(EntryOf(req[q])))
  BY <1>1, StoredStays
<1> QED BY <1>1, <1>2, <1>3, <1>4, <1>5, <1>6 DEF InsertOps, Creations

\* It is enough to look at the request that takes the step.
LEMMA QuietStep ==
  ASSUME IInv, UNCHANGED tables, NEW p \in Requests, pc[p] # "ok",
         pc' = [pc EXCEPT ![p] = pc'[p]],
         pc'[p] \in (InFlight \union Responses) \ {"ok"},
         req' \in [Requests -> Payloads \union {None}],
         seen' \in [Requests -> Membership \union {None}],
         pending' \in [Requests -> Entries \union {None}],
         rowLock' \in [Keys -> Requests \union {None}],
         \A q \in Requests \ {p} :
           req'[q] = req[q] /\ seen'[q] = seen[q] /\ pending'[q] = pending[q],
         \A k \in Keys, q \in Requests \ {p} : rowLock[k] = q => rowLock'[k] = q,
         \A q \in Requests \ {p} : pending'[p] # None => pending'[p] # pending[q],
         RequestInv(p)'
  PROVE  IInv'
<1> USE DEF IInv
<1>1. TypeOK'
  <2>1. \A o \in Orgs, u \in Users : RowOf(o, u)' = RowOf(o, u)
    BY DEF RowOf, tables
  <2>2. pc' \in [Requests -> {"new"} \union InFlight \union Responses]
    BY DEF TypeOK
  <2> QED BY <2>1, <2>2 DEF TypeOK, tables
<1>2. \A q \in Requests \ {p} : pc'[q] = pc[q]
  BY DEF TypeOK
<1>3. \A q \in Requests : (pc'[q] = "ok") <=> (pc[q] = "ok")
  BY <1>2
<1>4. \A q \in Requests : RequestInv(q)'
  BY <1>2, <1>3, QuietFrame
<1>5. \A k \in Keys : RowInv(k)'
  BY <1>3 DEF RowInv, Given, tables
<1>6. EntriesInv'
  BY DEF EntriesInv
<1>7. EventsInv'
  BY <1>3 DEF EventsInv, Given, tables
<1>8. CreatedOnce'
  BY <1>3 DEF CreatedOnce
<1>9. \A k \in Keys : Told(k)'
  <2>1. TAKE k \in Keys
  <2>2. Trail(k)' = Trail(k) /\ UNCHANGED <<members, audit>>
    BY DEF Trail, tables
  <2>3. k \in SeedKeys \/ (k \in Requests /\ (pc'[k] = "ok" <=> pc[k] = "ok"))
    BY <1>3 DEF Keys
  <2>4. \A i \in DOMAIN audit : IsLast(i, k)' <=> IsLast(i, k)
    BY <2>2 DEF IsLast
  <2> QED BY <2>2, <2>3, <2>4 DEF Told
<1> QED BY <1>1, <1>4, <1>5, <1>6, <1>7, <1>8, <1>9

\* A transaction that rolls back.
LEMMA RejectKeepsIInv ==
  ASSUME IInv, NEW p \in Requests, pc[p] \in InFlight,
         NEW response \in Responses \ {"ok"}, Reject(p, response)
  PROVE  IInv'
<1> USE DEF IInv, TypeOK, Reject, End, Goto, InFlight, Responses
<1>1. req[p] \in Payloads
  BY DEF RequestInv
<1>2. RequestInv(p)'
  BY <1>1 DEF RequestInv
<1>3. pc'[p] = response /\ pending'[p] = None
  OBVIOUS
<1>4. \A k \in Keys, q \in Requests \ {p} : rowLock[k] = q => rowLock'[k] = q
  OBVIOUS
<1>5. rowLock' \in [Keys -> Requests \union {None}]
  OBVIOUS
<1>6. UNCHANGED tables /\ UNCHANGED <<req, seen>>
  OBVIOUS
<1>7. /\ pending' \in [Requests -> Entries \union {None}]
      /\ \A q \in Requests \ {p} : pending'[q] = pending[q]
  OBVIOUS
<1> QED BY <1>2, <1>3, <1>4, <1>5, <1>6, <1>7, QuietStep

\* A statement that only reads.
LEMMA ContinueKeepsIInv ==
  ASSUME IInv, NEW p \in Requests, pc[p] \in InFlight,
         NEW label \in InFlight, Continue(p, label), RequestInv(p)'
  PROVE  IInv'
<1> USE DEF IInv, TypeOK, Continue, Goto, InFlight, Responses
<1>1. pc'[p] = label /\ pc[p] # "ok"
  OBVIOUS
<1>2. UNCHANGED tables /\ UNCHANGED <<req, seen, pending, rowLock>>
  OBVIOUS
<1>3. \A q \in Requests \ {p} : pending[p] # None => pending[p] # pending[q]
  BY DEF EntriesInv
<1> QED BY <1>1, <1>2, <1>3, QuietStep

\* The view changes no row.
LEMMA ReceiveKeepsIInv ==
  ASSUME IInv, NEW p \in Requests, NEW m \in Payloads, Receive(p, m)
  PROVE  IInv'
<1> USE DEF IInv, TypeOK, Receive, Goto, InFlight, Responses
<1>1. pc[p] = "new" /\ req'[p] = m /\ pc'[p] # "commit" /\ pc'[p] # "ok"
  OBVIOUS
<1>2. /\ UNCHANGED tables /\ UNCHANGED <<pending, rowLock>>
      /\ pc'[p] \in {"badRequest", "insert", "notFound", "authorize"}
      /\ pc' = [pc EXCEPT ![p] = pc'[p]]
  OBVIOUS
<1>3. /\ m.op \in InsertOps \union KeyedOps
      /\ m.op \in KeyedOps => m.key \in Keys
  BY PayloadFields
<1>4. /\ seen' \in [Requests -> Membership \union {None}]
      /\ m.op \in KeyedOps => seen'[p] = members[m.key]
  <2> DEFINE row == IF m.op \in KeyedOps THEN members[m.key] ELSE None
  <2>1. seen' = [seen EXCEPT ![p] = row]
    OBVIOUS
  <2>2. row \in Membership \union {None}
    BY <1>3
  <2> QED BY <2>1, <2>2
<1>5. Handled(p)' \/ pc'[p] \notin InFlight
  BY <1>1, <1>3 DEF Handled, InsertOps, KeyedOps, tables
<1>6. m.op \in KeyedOps /\ pc'[p] \in InFlight => members[m.key] # None
  BY <1>1 DEF KeyedOps
<1>7. m.op \in KeyedOps /\ pc'[p] \in InFlight => SameRow(p)'
  <2> SUFFICES ASSUME m.op \in KeyedOps, pc'[p] \in InFlight PROVE SameRow(p)'
    OBVIOUS
  <2>1. m.key \in Keys /\ members[m.key] # None
    BY <1>3, <1>6
  <2>2. members[m.key] \in Membership /\ Given(m.key)
    BY <2>1 DEF RowInv
  <2>3. pc[m.key] = "ok" /\ m.key \in Requests => pc'[m.key] = "ok"
    BY <1>1
  <2> QED BY <1>1, <1>2, <1>4, <2>1, <2>2, <2>3 DEF SameRow, Given, tables
<1>8. RequestInv(p)'
  BY <1>1, <1>2, <1>5, <1>7 DEF RequestInv
<1>9. \A q \in Requests \ {p} : pending[p] # None => pending[p] # pending[q]
  BY DEF EntriesInv
<1>10. /\ req' \in [Requests -> Payloads \union {None}]
       /\ \A q \in Requests \ {p} : req'[q] = req[q] /\ seen'[q] = seen[q]
  OBVIOUS
<1>11. pc'[p] \in (InFlight \union Responses) \ {"ok"} /\ pc[p] # "ok"
  BY <1>1, <1>2
<1>12. /\ pending' \in [Requests -> Entries \union {None}]
       /\ rowLock' \in [Keys -> Requests \union {None}]
       /\ \A q \in Requests : pending'[q] = pending[q]
       /\ \A k \in Keys : rowLock'[k] = rowLock[k]
  BY <1>2
<1> HIDE DEF Receive, TypeOK, IInv, Goto, InFlight, Responses
<1> QED BY <1>2, <1>4, <1>8, <1>9, <1>10, <1>11, <1>12, QuietStep

\* The checks at the head of a service change no row.
LEMMA AuthorizeKeepsIInv ==
  ASSUME IInv, NEW p \in Requests, Authorize(p)
  PROVE  IInv'
<1> USE DEF Authorize
<1>1. pc[p] = "authorize" /\ pc[p] \in InFlight
  BY DEF InFlight
<1>2. Refusal(p) # "none" => Refusal(p) \in Responses \ {"ok"}
  BY DEF Refusal, Responses
<1>3. CASE \E response \in Responses \ {"ok"} : Reject(p, response)
  BY <1>1, <1>3, RejectKeepsIInv
<1>4. ASSUME Refusal(p) = "none", NEW label,
             label = CASE req[p].op = "create_resource" -> "insert"
                       [] req[p].op = "add_member"      -> "lookup"
                       [] req[p].op \in KeyedOps        -> "write",
             Continue(p, label)
      PROVE  IInv'
  <2>1. /\ req[p] \in Payloads /\ Handled(p)
        /\ req[p].op \in KeyedOps => SameRow(p)
    BY <1>1 DEF IInv, RequestInv
  <2>2. req[p].op \in {"create_resource", "add_member", "update_role", "remove_member"}
    BY <1>1, <2>1, PayloadFields DEF Handled, InsertOps, KeyedOps
  <2>3. /\ label \in {"insert", "lookup", "write"}
        /\ label = "insert" => req[p].op \in InsertOps
        /\ label = "lookup" => req[p].op = "add_member"
        /\ label = "write" <=> req[p].op \in KeyedOps
    BY <1>4, <2>2 DEF InsertOps, KeyedOps
  <2>4. pc'[p] = label /\ UNCHANGED <<tables, req, seen, pending, rowLock>>
    BY <1>4 DEF Continue, Goto, IInv, TypeOK
  <2>5. \A k \in Requests : pc[k] = "ok" => pc'[k] = "ok"
    BY <1>1, <1>4 DEF Continue, Goto, IInv, TypeOK
  <2>6. Handled(p)'
    BY <2>1, <2>3, <2>4 DEF Handled, tables
  <2>7. req[p].op \in KeyedOps => SameRow(p)'
    BY <2>1, <2>4, <2>5 DEF SameRow, Given, tables
  <2>8. req[p].op \in KeyedOps => Permitted(p)
    <3> SUFFICES ASSUME req[p].op \in KeyedOps PROVE Permitted(p)
      OBVIOUS
    <3>1. seen[p].org = req[p].org /\ ~ Diminishes(req[p])
      BY <1>4 DEF Refusal, KeyedOps
    <3>2. req[p].key \in Keys
      BY <2>1, PayloadFields
    <3> QED BY <2>1, <3>1, <3>2 DEF Permitted, Diminishes, SameRow, RowOf, KeyedOps
  <2>9. req[p].op \in KeyedOps => Permitted(p)'
    BY <2>4, <2>8 DEF Permitted, tables
  <2>10. RequestInv(p)'
    BY <2>1, <2>3, <2>4, <2>6, <2>7, <2>9 DEF RequestInv
  <2> QED BY <1>1, <1>4, <2>3, <2>10, ContinueKeepsIInv DEF InFlight
<1> QED BY <1>1, <1>2, <1>3, <1>4 DEF Responses

\* Nothing else happens to a request that goes on to its next statement.
LEMMA ContinueTo ==
  ASSUME IInv, NEW p \in Requests, pc[p] \in InFlight \ {"authorize"},
         NEW label \in InFlight \ {"authorize"}, Continue(p, label),
         label \in {"lookup", "reget"} => req[p].op = "add_member",
         label = "insert" => req[p].op \in InsertOps,
         label = "write" => req[p].op \in KeyedOps,
         label = "commit" => req[p].op \in KeyedOps /\ Held(p),
         label \in {"write", "commit"} => pc[p] \in {"write", "commit"}
  PROVE  IInv'
<1>1. req[p] \in Payloads /\ RequestInv(p)
  BY DEF IInv, RequestInv, InFlight
<1>2. pc'[p] = label /\ UNCHANGED <<tables, req, seen, pending, rowLock>>
  BY DEF Continue, Goto, IInv, TypeOK
<1>3. \A k \in Requests : pc[k] = "ok" => pc'[k] = "ok"
  BY DEF Continue, Goto, IInv, TypeOK, InFlight
<1>4. Handled(p)'
  BY <1>1, <1>2 DEF RequestInv, Handled, tables, InFlight
<1>5. req[p].op \in KeyedOps => SameRow(p)'
  BY <1>1, <1>2, <1>3 DEF RequestInv, SameRow, Given, tables
<1>6. req[p].op \in KeyedOps /\ label \in {"write", "commit"} => Permitted(p)'
  BY <1>1, <1>2 DEF RequestInv, Permitted, tables
<1>7. label = "commit" => Held(p)'
  BY <1>2 DEF Held, tables
<1>8. RequestInv(p)'
  BY <1>1, <1>2, <1>4, <1>5, <1>6, <1>7 DEF RequestInv, InFlight, InsertOps, KeyedOps
<1> QED BY <1>8, ContinueKeepsIInv

\* A look at the index changes no row.
LEMMA LookupKeepsIInv ==
  ASSUME IInv, NEW p \in Requests, Lookup(p)
  PROVE  IInv'
<1>1. pc[p] = "lookup" /\ req[p].op = "add_member"
  BY DEF Lookup, IInv, RequestInv, Handled, InFlight
<1>2. CASE Reject(p, "conflict")
  BY <1>1, <1>2, RejectKeepsIInv DEF InFlight, Responses
<1>3. CASE Continue(p, "insert")
  BY <1>1, <1>3, ContinueTo DEF InFlight, InsertOps
<1> QED BY <1>2, <1>3 DEF Lookup

\* The second look finds the row that won, and changes none.
LEMMA RegetKeepsIInv ==
  ASSUME IInv, NEW p \in Requests, Reget(p)
  PROVE  IInv'
<1>1. pc[p] = "reget" /\ pc[p] \in InFlight
  BY DEF Reget, InFlight
<1>2. \E response \in {"conflict", "error"} : Reject(p, response)
  BY DEF Reget
<1> QED BY <1>1, <1>2, RejectKeepsIInv DEF Responses

\* A transaction that finds no decided or undecided row with its key enters
\* the key in the unique index.
LEMMA InsertKeepsIInv ==
  ASSUME IInv, NEW p \in Requests, Insert(p)
  PROVE  IInv'
<1>1. /\ pc[p] = "insert" /\ req[p] \in Payloads /\ req[p].op \in InsertOps
      /\ Handled(p)
  BY DEF Insert, IInv, RequestInv, Handled, InFlight
<1>2. CASE Reject(p, "error")
  BY <1>1, <1>2, RejectKeepsIInv DEF InFlight, Responses
<1>3. CASE Continue(p, "reget") /\ req[p].op = "add_member"
  BY <1>1, <1>3, ContinueTo DEF InFlight
<1>4. ASSUME ~ Stored(EntryOf(req[p])),
             pending' = [pending EXCEPT ![p] = EntryOf(req[p])], Goto(p, "commit"),
             UNCHANGED <<tables, rowLock, req, seen>>
      PROVE  IInv'
  <2>1. EntryOf(req[p]) \in Entries
    BY <1>1, InsertedEntry
  <2>2. /\ pending' \in [Requests -> Entries \union {None}]
        /\ pending'[p] = EntryOf(req[p])
        /\ \A q \in Requests \ {p} : pending'[q] = pending[q]
    BY <1>4, <2>1 DEF IInv, TypeOK
  <2>3. pc'[p] = "commit" /\ pc' = [pc EXCEPT ![p] = pc'[p]]
    BY <1>4 DEF Goto, IInv, TypeOK
  <2>4. \A q \in Requests \ {p} : pending'[p] # pending[q]
    BY <2>2 DEF Insert, Undecided
  <2>5. Handled(p)'
    BY <1>1, <1>4, <2>3 DEF Handled, tables
  <2>6. ~ Stored(EntryOf(req[p]))'
    BY <1>1, <1>4, StoredStays
  <2>7. RequestInv(p)'
    BY <1>1, <1>4, <2>2, <2>3, <2>5, <2>6 DEF RequestInv, InsertOps, KeyedOps
  <2>8. /\ req' \in [Requests -> Payloads \union {None}]
        /\ seen' \in [Requests -> Membership \union {None}]
        /\ rowLock' \in [Keys -> Requests \union {None}]
        /\ UNCHANGED <<req, seen, rowLock>> /\ UNCHANGED tables
    BY <1>4 DEF IInv, TypeOK
  <2> QED BY <1>1, <2>2, <2>3, <2>4, <2>7, <2>8, QuietStep DEF InFlight
<1>5. Stored(EntryOf(req[p])) => Reject(p, "error") \/ (Continue(p, "reget") /\ req[p].op = "add_member")
  BY DEF Insert
<1>6. ~ Stored(EntryOf(req[p])) =>
        \/ Reject(p, "error")
        \/ /\ pending' = [pending EXCEPT ![p] = EntryOf(req[p])]
           /\ Goto(p, "commit")
           /\ UNCHANGED <<tables, rowLock, req, seen>>
  BY DEF Insert
<1> QED BY <1>2, <1>3, <1>4, <1>5, <1>6

\* UPDATE and DELETE lock the row, or find it gone.
LEMMA WriteKeepsIInv ==
  ASSUME IInv, NEW p \in Requests, Write(p)
  PROVE  IInv'
<1> DEFINE k == req[p].key
<1>1. /\ pc[p] = "write" /\ req[p] \in Payloads /\ req[p].op \in KeyedOps /\ RequestInv(p)
  BY DEF Write, IInv, RequestInv, Handled, InFlight
<1>2. k \in Keys /\ rowLock[k] = None
  BY <1>1, PayloadFields DEF Write
<1>3. CASE members[k] # None
  <2>1. /\ rowLock' = [rowLock EXCEPT ![k] = p] /\ Goto(p, "commit")
        /\ UNCHANGED <<tables, pending, req, seen>>
    BY <1>3 DEF Write
  <2>2. /\ rowLock'[k] = p /\ rowLock' \in [Keys -> Requests \union {None}]
        /\ \A j \in Keys, q \in Requests \ {p} : rowLock[j] = q => rowLock'[j] = q
    BY <1>2, <2>1, NoneApart DEF IInv, TypeOK
  <2>3. pc'[p] = "commit" /\ pc' = [pc EXCEPT ![p] = pc'[p]]
    BY <2>1 DEF Goto, IInv, TypeOK
  <2>4. \A q \in Requests : pc[q] = "ok" => pc'[q] = "ok"
    BY <1>1, <2>1 DEF Goto, IInv, TypeOK
  <2>5. Handled(p)'
    BY <1>1, <2>1, <2>3 DEF RequestInv, Handled, tables, InFlight
  <2>6. SameRow(p)'
    BY <1>1, <2>1, <2>4 DEF RequestInv, SameRow, Given, tables, InFlight
  <2>7. Permitted(p)' /\ Held(p)'
    BY <1>1, <1>3, <2>1, <2>2 DEF RequestInv, Permitted, Held, tables
  <2>8. RequestInv(p)'
    BY <1>1, <2>1, <2>3, <2>5, <2>6, <2>7 DEF RequestInv, InsertOps, KeyedOps
  <2>9. /\ req' \in [Requests -> Payloads \union {None}]
        /\ seen' \in [Requests -> Membership \union {None}]
        /\ pending' \in [Requests -> Entries \union {None}]
        /\ UNCHANGED <<req, seen, pending>> /\ UNCHANGED tables
        /\ \A q \in Requests \ {p} : pending[p] # None => pending[p] # pending[q]
    BY <2>1 DEF IInv, TypeOK, EntriesInv
  <2> QED BY <1>1, <2>2, <2>3, <2>8, <2>9, QuietStep DEF InFlight
<1>4. CASE members[k] = None
  <2>1. CASE Reject(p, "error")
    BY <1>1, <2>1, RejectKeepsIInv DEF InFlight, Responses
  <2>2. CASE Continue(p, "commit") /\ req[p].op = "remove_member"
    BY <1>1, <1>4, <2>2, ContinueTo DEF InFlight, Held
  <2>3. Reject(p, "error") \/ (Continue(p, "commit") /\ req[p].op = "remove_member")
    BY <1>1, <1>4 DEF Write, KeyedOps
  <2> QED BY <2>1, <2>2, <2>3
<1> QED BY <1>3, <1>4

-----------------------------------------------------------------------------
(* Commits.                                                                *)

\* What a commit changes of the variables that are not tables.
LEMMA EndOk ==
  ASSUME IInv, NEW p \in Requests, pc[p] = "commit", End(p, "ok")
  PROVE  /\ pc'[p] = "ok"
         /\ \A q \in Requests \ {p} : pc'[q] = pc[q] /\ pending'[q] = pending[q]
         /\ pending'[p] = None
         /\ \A k \in Keys : rowLock'[k] = rowLock[k] \/ rowLock[k] = p
         /\ UNCHANGED <<req, seen>>
         /\ pc' \in [Requests -> {"new"} \union InFlight \union Responses]
         /\ pending' \in [Requests -> Entries \union {None}]
         /\ rowLock' \in [Keys -> Requests \union {None}]
BY DEF IInv, TypeOK, End, Goto, Responses

\* A request keeps its part of the invariant when another one commits: rows
\* keep their organization and user, only an unlocked row can go, and what
\* is inserted is not what a pending entry reserves.
LEMMA CommitFrame ==
  ASSUME IInv, NEW p \in Requests, pc[p] = "commit", End(p, "ok"),
         organizations \subseteq organizations', resources \subseteq resources',
         \A k \in Keys : members[k] = None /\ k # p => members'[k] = None,
         \A k \in Keys : members[k] # None =>
           \/ members'[k] = None /\ rowLock[k] \in {p, None}
           \/ /\ members'[k] # None
              /\ members'[k].org = members[k].org
              /\ members'[k].user = members[k].user,
         NEW q \in Requests, q # p,
         pc[q] = "commit" /\ req[q].op \in InsertOps => ~ Stored(EntryOf(req[q]))'
  PROVE  RequestInv(q)'
<1> USE EndOk DEF RequestInv
<1>1. RequestInv(q)
  BY DEF IInv
<1>2. \A k \in Requests : pc[k] = "ok" => pc'[k] = "ok"
  OBVIOUS
<1>3. pc[q] \in InFlight => Handled(q)'
  BY <1>1 DEF Handled
<1>4. pc[q] \in InFlight /\ req[q].op \in KeyedOps =>
        req[q].key \in Keys /\ req[q].key # p
  BY <1>1, PayloadFields, StoredTyped DEF SameRow, Given, InFlight
<1>5. pc[q] \in InFlight /\ req[q].op \in KeyedOps => SameRow(q)'
  BY <1>1, <1>2, <1>4 DEF SameRow, Given
<1>6. pc[q] \in {"write", "commit"} /\ req[q].op \in KeyedOps => Permitted(q)'
  BY <1>1, <1>4 DEF Permitted, InFlight
<1>7. pc[q] = "commit" /\ req[q].op \in KeyedOps => Held(q)'
  BY <1>1, <1>4, NoneApart DEF Held, InFlight
<1>8. pc[q] = "ok" /\ req[q].op \in Creations => Stored(EntryOf(req[q]))'
  <2> SUFFICES ASSUME pc[q] = "ok", req[q].op \in Creations
               PROVE  Stored(EntryOf(req[q]))'
    OBVIOUS
  <2>1. req[q] \in Payloads /\ req'[q] = req[q] /\ Stored(EntryOf(req[q]))
    BY <1>1
  <2> QED BY <2>1, InsertedEntry, StoredNext DEF Creations, InsertOps
<1> QED BY <1>1, <1>3, <1>5, <1>6, <1>7, <1>8

\* One more event in the log.
LEMMA TrailGrows ==
  ASSUME IInv, NEW e \in Event, audit' = Append(audit, e), NEW k \in Keys
  PROVE  /\ audit' \in Seq(Event)
         /\ DOMAIN audit' = DOMAIN audit \union {Len(audit) + 1}
         /\ audit'[Len(audit) + 1] = e
         /\ \A i \in DOMAIN audit : audit'[i] = audit[i]
         /\ Trail(k)' = Trail(k) \union (IF e.key = k THEN {Len(audit) + 1} ELSE {})
         /\ e.key = k => \A i \in DOMAIN audit' : IsLast(i, k)' => i = Len(audit) + 1
<1> USE DEF IInv, TypeOK
<1>1. /\ audit' \in Seq(Event)
      /\ DOMAIN audit' = 1..(Len(audit) + 1) /\ DOMAIN audit = 1..Len(audit)
      /\ Len(audit) \in Nat
      /\ audit'[Len(audit) + 1] = e
      /\ \A i \in 1..Len(audit) : audit'[i] = audit[i]
  OBVIOUS
<1>2. DOMAIN audit' = DOMAIN audit \union {Len(audit) + 1}
  BY <1>1
<1>3. Trail(k)' = Trail(k) \union (IF e.key = k THEN {Len(audit) + 1} ELSE {})
  BY <1>1, <1>2 DEF Trail
<1>4. ASSUME e.key = k, NEW i \in DOMAIN audit', IsLast(i, k)'
      PROVE  i = Len(audit) + 1
  <2>1. Len(audit) + 1 \in Trail(k)'
    BY <1>3, <1>4
  <2>2. Len(audit) + 1 <= i
    BY <1>4, <2>1 DEF IsLast
  <2> QED BY <1>1, <2>2
<1> QED BY <1>1, <1>2, <1>3, <1>4

\* A request has no row and no event about it before it commits.
LEMMA NoTrailYet ==
  ASSUME IInv, NEW p \in Requests, pc[p] = "commit"
  PROVE  p \in Keys /\ p \notin SeedKeys /\ members[p] = None /\ Trail(p) = {}
<1>1. p \in Keys /\ p \notin SeedKeys /\ p # None
  BY StoredTyped, NoneApart DEF Keys
<1>2. members[p] = None
  BY <1>1 DEF IInv, RowInv, Given
<1>3. Trail(p) = {}
  BY <1>1 DEF IInv, EventsInv, Given, Trail
<1> QED BY <1>1, <1>2, <1>3

\* The journal stays true of the rows that a commit does not touch.
LEMMA ToldStays ==
  ASSUME IInv, NEW p \in Requests, pc[p] = "commit", End(p, "ok"),
         NEW e \in Event, audit' = Append(audit, e),
         NEW k \in Keys, e.key # k, members'[k] = members[k]
  PROVE  Told(k)'
<1>1. /\ Trail(k)' = Trail(k)
      /\ \A i \in Trail(k) : audit'[i] = audit[i]
      /\ Trail(k) \subseteq DOMAIN audit
  BY TrailGrows DEF Trail
<1>2. CASE k = p
  BY <1>1, <1>2, NoTrailYet DEF Told
<1>3. CASE k # p
  <2>1. k \in Requests => pc'[k] = pc[k]
    BY <1>3, EndOk
  <2>2. Told(k)
    BY DEF IInv
  <2>3. /\ \A i \in Trail(k) : IsLast(i, k)' <=> IsLast(i, k)
        /\ \A i \in DOMAIN audit' : IsLast(i, k)' => i \in Trail(k)
    BY <1>1 DEF IsLast
  <2>4. \/ k \in SeedKeys
        \/ k \in Requests /\ pc'[k] = pc[k]
    BY <2>1 DEF Keys
  <2>5. members[k] # None => \A i \in DOMAIN audit' : IsLast(i, k)' => members[k].role = audit'[i].role
    BY <1>1, <2>2, <2>3 DEF Told
  <2>6. /\ members[k] # None <=>
             /\ k \in SeedKeys \/ (pc'[k] = "ok" /\ Trail(k)' # {})
             /\ \A i \in Trail(k)' : audit'[i].event # "membership.removed"
        /\ members[k] # None /\ Trail(k)' = {} => members[k].role = InitialMembers[k].role
    BY <1>1, <2>2, <2>4 DEF Told
  <2> QED BY <2>5, <2>6 DEF Told
<1> QED BY <1>2, <1>3

\* A commit keeps the invariant if it keeps the index unique and the journal
\* tells of the row that it records.
LEMMA CommitKeeps ==
  ASSUME IInv, NEW p \in Requests, pc[p] = "commit", End(p, "ok"),
         NEW e \in Event, audit' = Append(audit, e),
         organizations \subseteq organizations', organizations' \subseteq Orgs,
         resources \subseteq resources', resources' \subseteq Entries,
         members' \in [Keys -> Membership \union {None}],
         \A k \in Keys : members[k] = None /\ k # p => members'[k] = None,
         \A k \in Keys : members[k] # None =>
           \/ members'[k] = None /\ rowLock[k] \in {p, None}
           \/ /\ members'[k] # None
              /\ members'[k].org = members[k].org
              /\ members'[k].user = members[k].user,
         members'[p] # None => members'[p].org \in organizations',
         \A o \in Orgs, u \in Users : \A j, k \in RowOf(o, u)' : j = k,
         \A q \in Requests \ {p} :
           pc[q] = "commit" /\ req[q].op \in InsertOps => ~ Stored(EntryOf(req[q]))',
         req[p].op \in Creations => Stored(EntryOf(req[p]))',
         e.key # None => e.key = p \/ Given(e.key),
         \A k \in Keys : IF e.key = k THEN Told(k)' ELSE members'[k] = members[k]
  PROVE  IInv'
<1> USE EndOk DEF IInv
<1>1. TypeOK'
  BY TrailGrows DEF TypeOK
<1>2. \A k \in Keys : RowInv(k)'
  <2> SUFFICES ASSUME NEW k \in Keys, members'[k] # None
               PROVE  Given(k)' /\ members'[k].org \in organizations'
    BY DEF RowInv
  <2>1. CASE k = p
    BY <2>1 DEF Given
  <2>2. CASE k # p
    <3>1. members[k] # None /\ members'[k].org = members[k].org
      BY <2>2
    <3>2. Given(k) /\ members[k].org \in organizations
      BY <3>1 DEF RowInv
    <3> QED BY <2>2, <3>1, <3>2 DEF Given
  <2> QED BY <2>1, <2>2
<1>3. \A k \in Keys : Told(k)'
  BY ToldStays
<1>4. ASSUME NEW q \in Requests PROVE RequestInv(q)'
  <2>1. CASE q = p
    <3>1. req[p] \in Payloads
      BY DEF RequestInv
    <3> QED BY <2>1, <3>1 DEF RequestInv, InFlight
  <2>2. CASE q # p
    BY <2>2, CommitFrame
  <2> QED BY <2>1, <2>2
<1>5. EntriesInv'
  BY DEF EntriesInv
<1>6. EventsInv'
  <2>1. /\ DOMAIN audit' = DOMAIN audit \union {Len(audit) + 1}
        /\ audit'[Len(audit) + 1] = e
        /\ \A j \in DOMAIN audit : audit'[j] = audit[j]
    <3>1. p \in Keys
      BY DEF Keys
    <3> QED BY <3>1, TrailGrows
  <2>2. \A k \in Requests : pc[k] = "ok" => pc'[k] = "ok"
    OBVIOUS
  <2>3. \A i \in DOMAIN audit' : audit'[i].key # None =>
          \/ audit'[i].key = p
          \/ audit'[i].key \in SeedKeys
          \/ audit'[i].key \in Requests /\ pc[audit'[i].key] = "ok"
    BY <2>1 DEF EventsInv, Given
  <2> QED BY <2>2, <2>3 DEF EventsInv, Given
<1>7. CreatedOnce'
  <2> SUFFICES ASSUME NEW q \in Requests, NEW r \in Requests, q # r,
                      pc'[q] = "ok", pc'[r] = "ok",
                      req[q].op \in Creations, req[q].op = req[r].op,
                      EntryOf(req[q]) = EntryOf(req[r])
               PROVE  FALSE
    BY DEF CreatedOnce, Creations
  <2>1. \A x \in Requests : x # p /\ pc'[x] = "ok" => pc[x] = "ok"
    OBVIOUS
  <2>2. CASE q # p /\ r # p
    BY <2>1, <2>2 DEF CreatedOnce, Creations
  <2>3. ASSUME NEW x \in Requests, x # p, pc[x] = "ok", req[x].op \in Creations,
               req[p].op \in Creations, EntryOf(req[x]) = EntryOf(req[p])
        PROVE  FALSE
    BY <2>3 DEF RequestInv, Creations, InsertOps
  <2> QED BY <2>1, <2>2, <2>3
<1> QED BY <1>1, <1>2, <1>3, <1>4, <1>5, <1>6, <1>7

\* The journal tells of a row that is inserted or updated with its event.
LEMMA ToldOfWritten ==
  ASSUME IInv, NEW p \in Requests, pc[p] = "commit", End(p, "ok"),
         NEW e \in Event, audit' = Append(audit, e), NEW k \in Keys, e.key = k,
         k = p \/ members[k] # None,
         members'[k] # None, members'[k].role = e.role, e.event # "membership.removed"
  PROVE  Told(k)'
<1>1. /\ Trail(k)' = Trail(k) \union {Len(audit) + 1}
      /\ audit'[Len(audit) + 1] = e
      /\ \A i \in Trail(k) : audit'[i] = audit[i]
      /\ \A i \in DOMAIN audit' : IsLast(i, k)' => i = Len(audit) + 1
  BY TrailGrows DEF Trail
<1>2. k \in SeedKeys \/ pc'[k] = "ok"
  BY EndOk DEF IInv, RowInv, Given
<1>3. \A i \in Trail(k) : audit[i].event # "membership.removed"
  BY NoTrailYet DEF IInv, Told
<1> QED BY <1>1, <1>2, <1>3 DEF Told

\* The journal tells of a row that is removed, or was removed before.
LEMMA ToldOfRemoved ==
  ASSUME IInv, NEW p \in Requests, pc[p] = "commit", End(p, "ok"),
         NEW e \in Event, audit' = Append(audit, e), NEW k \in Keys, e.key = k,
         members'[k] = None, e.event = "membership.removed"
  PROVE  Told(k)'
BY TrailGrows DEF Told

\* At its commit a request that inserts has its entry for itself.
LEMMA EntryIsReserved ==
  ASSUME IInv, NEW p \in Requests, pc[p] = "commit", req[p].op \in InsertOps,
         NEW q \in Requests, q # p, pc[q] = "commit", req[q].op \in InsertOps
  PROVE  /\ req[p] \in Payloads /\ req[q] \in Payloads
         /\ EntryOf(req[q]) # EntryOf(req[p])
         /\ ~ Stored(EntryOf(req[q]))
         /\ req[q].op # "create_organization" => req[q].org \in organizations
<1>1. RequestInv(p) /\ RequestInv(q)
  BY DEF IInv
<1>2. EntryOf(req[p]) # None
  BY <1>1, InsertedEntry, NoneApart DEF RequestInv
<1> QED BY <1>1, <1>2 DEF RequestInv, Handled, IInv, EntriesInv, InFlight

\* An organization begins with the membership of its creator.
LEMMA CreateOrganizationKeepsIInv ==
  ASSUME IInv, NEW p \in Requests, create_organization(p)
  PROVE  IInv'
<1> DEFINE m == req[p]
           row == [org |-> m.org, user |-> m.actor, role |-> "admin"]
<1>1. /\ pc[p] = "commit" /\ End(p, "ok") /\ m.op = "create_organization"
      /\ m \in Payloads
  BY DEF create_organization, Committing, IInv, RequestInv
<1>2. /\ organizations' = organizations \union {m.org}
      /\ resources' = resources
      /\ members' = [members EXCEPT ![p] = row]
  BY DEF create_organization
<1>3. PICK e : /\ e = [by |-> p, event |-> "organization.created", org |-> m.org,
                       key |-> p, role |-> "admin"]
               /\ audit' = Append(audit, e)
  BY DEF create_organization, Record
<1>4. m.org \in Orgs /\ m.actor \in Users
  BY <1>1, PayloadFields
<1>5. p \in Keys /\ members[p] = None
  BY <1>1, NoTrailYet
<1>6. /\ e \in Event /\ e.key = p /\ e.role = "admin"
      /\ e.event # "membership.removed"
  BY <1>3, <1>4, <1>5 DEF Event, Roles
<1>7. /\ row \in Membership /\ row # None /\ row.org = m.org /\ row.role = "admin"
  BY <1>4, NoneApart DEF Membership, Roles
<1>8. /\ members' \in [Keys -> Membership \union {None}] /\ members'[p] = row
      /\ \A k \in Keys \ {p} : members'[k] = members[k]
  BY <1>2, <1>5, <1>7 DEF IInv, TypeOK
<1>9. m.org \notin organizations
  BY <1>1, InsertedEntry DEF IInv, RequestInv, InsertOps
<1>10. \A o \in Orgs, u \in Users :
         RowOf(o, u)' = IF o = m.org /\ u = m.actor THEN {p} ELSE RowOf(o, u)
  <2> TAKE o \in Orgs, u \in Users
  <2>1. o = m.org => RowOf(o, u) = {}
    BY <1>9 DEF RowOf, IInv, RowInv
  <2>2. RowOf(o, u)' = RowOf(o, u) \union (IF o = m.org /\ u = m.actor THEN {p} ELSE {})
    BY <1>5, <1>7, <1>8 DEF RowOf
  <2> QED BY <2>1, <2>2
<1>11. ASSUME NEW q \in Requests \ {p}, pc[q] = "commit", req[q].op \in InsertOps
       PROVE  ~ Stored(EntryOf(req[q]))'
  <2>1. /\ req[q] \in Payloads /\ req'[q] = req[q]
        /\ EntryOf(req[q]) # EntryOf(m) /\ ~ Stored(EntryOf(req[q]))
        /\ req[q].op # "create_organization" => req[q].org \in organizations
    BY <1>1, <1>11, EndOk, EntryIsReserved DEF InsertOps
  <2>2. CASE req[q].op = "create_organization"
    BY <1>1, <1>2, <2>1, <2>2, InsertedEntry, StoredNext DEF InsertOps
  <2>3. CASE req[q].op = "create_resource"
    BY <1>2, <2>1, <2>3, InsertedEntry, StoredNext DEF InsertOps
  <2>4. CASE req[q].op = "add_member"
    <3>1. req[q].org \in Orgs /\ req[q].user \in Users /\ req[q].org # m.org
      BY <1>9, <2>1, <2>4, PayloadFields
    <3>2. RowOf(req[q].org, req[q].user)' = RowOf(req[q].org, req[q].user)
      BY <1>10, <2>1, <3>1
    <3> QED BY <2>1, <2>4, <3>2, InsertedEntry, StoredNext DEF InsertOps
  <2> QED BY <1>11, <2>2, <2>3, <2>4 DEF InsertOps
<1>12. Stored(EntryOf(req[p]))'
  BY <1>1, <1>2, EndOk, StoredNext DEF InsertOps
<1>13. Told(p)'
  BY <1>1, <1>3, <1>5, <1>6, <1>7, <1>8, ToldOfWritten
<1>14. \A o \in Orgs, u \in Users : \A j, k \in RowOf(o, u)' : j = k
  BY <1>10 DEF IInv, TypeOK
<1>15. /\ organizations' \subseteq Orgs /\ resources' \subseteq Entries
       /\ organizations \subseteq organizations' /\ resources \subseteq resources'
       /\ members'[p].org \in organizations'
  BY <1>2, <1>4, <1>7, <1>8 DEF IInv, TypeOK
<1> HIDE DEF m, row
<1> QED BY <1>1, <1>3, <1>5, <1>6, <1>8, <1>11, <1>12, <1>13, <1>14, <1>15, CommitKeeps

\* A resource adds no member.
LEMMA CreateResourceKeepsIInv ==
  ASSUME IInv, NEW p \in Requests, create_resource(p)
  PROVE  IInv'
<1> DEFINE m == req[p]
<1>1. /\ pc[p] = "commit" /\ End(p, "ok") /\ m.op = "create_resource"
      /\ m \in Payloads
  BY DEF create_resource, Committing, IInv, RequestInv
<1>2. /\ resources' = resources \union {EntryOf(m)}
      /\ UNCHANGED <<organizations, members>>
  BY <1>1, InsertedEntry DEF create_resource, InsertOps
<1>3. PICK e : /\ e = [by |-> p, event |-> "resource.created", org |-> m.org,
                       key |-> None, role |-> None]
               /\ audit' = Append(audit, e)
  BY DEF create_resource, Record
<1>4. EntryOf(m) \in Entries /\ m.org \in Orgs
  BY <1>1, PayloadFields, InsertedEntry DEF InsertOps
<1>5. e \in Event /\ e.key = None
  BY <1>3, <1>4 DEF Event
<1>6. \A o \in Orgs, u \in Users : RowOf(o, u)' = RowOf(o, u)
  BY <1>2 DEF RowOf
<1>7. ASSUME NEW q \in Requests \ {p}, pc[q] = "commit", req[q].op \in InsertOps
      PROVE  ~ Stored(EntryOf(req[q]))'
  <2>1. /\ req[q] \in Payloads /\ req'[q] = req[q]
        /\ EntryOf(req[q]) # EntryOf(m) /\ ~ Stored(EntryOf(req[q]))
    BY <1>1, <1>7, EndOk, EntryIsReserved DEF InsertOps
  <2>2. req[q].op = "add_member" =>
          RowOf(req[q].org, req[q].user)' = RowOf(req[q].org, req[q].user)
    BY <1>6, <2>1, PayloadFields
  <2> QED BY <1>2, <1>7, <2>1, <2>2, InsertedEntry, StoredNext DEF InsertOps
<1>8. Stored(EntryOf(req[p]))'
  BY <1>1, <1>2, EndOk, StoredNext DEF InsertOps
<1>9. \A o \in Orgs, u \in Users : \A j, k \in RowOf(o, u)' : j = k
  BY <1>6 DEF IInv, TypeOK
<1>10. /\ organizations' \subseteq Orgs /\ resources' \subseteq Entries
       /\ resources \subseteq resources'
       /\ members' \in [Keys -> Membership \union {None}]
       /\ members[p] = None
  BY <1>1, <1>2, <1>4, NoTrailYet DEF IInv, TypeOK
<1> HIDE DEF m
<1> QED BY <1>1, <1>2, <1>3, <1>5, <1>7, <1>8, <1>9, <1>10, NoneApart, CommitKeeps

\* A new membership is the one whose index entry was pending.
LEMMA AddMemberKeepsIInv ==
  ASSUME IInv, NEW p \in Requests, add_member(p)
  PROVE  IInv'
<1> DEFINE m == req[p]
           row == [org |-> m.org, user |-> m.user, role |-> m.role]
<1>1. /\ pc[p] = "commit" /\ End(p, "ok") /\ m.op = "add_member"
      /\ m \in Payloads /\ m.org \in organizations
  BY DEF add_member, Committing, IInv, RequestInv, Handled, InFlight
<1>2. /\ UNCHANGED <<organizations, resources>>
      /\ members' = [members EXCEPT ![p] = row]
  BY DEF add_member
<1>3. PICK e : /\ e = [by |-> p, event |-> "membership.added", org |-> m.org,
                       key |-> p, role |-> m.role]
               /\ audit' = Append(audit, e)
  BY DEF add_member, Record
<1>4. m.org \in Orgs /\ m.user \in Users /\ m.role \in Roles
  BY <1>1, PayloadFields
<1>5. p \in Keys /\ members[p] = None
  BY <1>1, NoTrailYet
<1>6. /\ e \in Event /\ e.key = p /\ e.role = m.role
      /\ e.event # "membership.removed"
  BY <1>3, <1>4, <1>5 DEF Event
<1>7. /\ row \in Membership /\ row # None /\ row.org = m.org /\ row.role = m.role
      /\ row.user = m.user
  BY <1>4, NoneApart DEF Membership
<1>8. /\ members' \in [Keys -> Membership \union {None}] /\ members'[p] = row
      /\ \A k \in Keys \ {p} : members'[k] = members[k]
  BY <1>2, <1>5, <1>7 DEF IInv, TypeOK
<1>9. RowOf(m.org, m.user) = {}
  BY <1>1, InsertedEntry DEF IInv, RequestInv, InsertOps
<1>10. \A o \in Orgs, u \in Users :
         RowOf(o, u)' = IF o = m.org /\ u = m.user THEN {p} ELSE RowOf(o, u)
  <2> TAKE o \in Orgs, u \in Users
  <2>1. RowOf(o, u)' = RowOf(o, u) \union (IF o = m.org /\ u = m.user THEN {p} ELSE {})
    BY <1>5, <1>7, <1>8 DEF RowOf
  <2> QED BY <1>9, <2>1
<1>11. ASSUME NEW q \in Requests \ {p}, pc[q] = "commit", req[q].op \in InsertOps
       PROVE  ~ Stored(EntryOf(req[q]))'
  <2>1. /\ req[q] \in Payloads /\ req'[q] = req[q]
        /\ EntryOf(req[q]) # EntryOf(m) /\ ~ Stored(EntryOf(req[q]))
    BY <1>1, <1>11, EndOk, EntryIsReserved DEF InsertOps
  <2>2. CASE req[q].op \in Creations
    BY <1>2, <2>1, <2>2, InsertedEntry, StoredNext DEF InsertOps, Creations
  <2>3. CASE req[q].op = "add_member"
    <3>1. req[q].org \in Orgs /\ req[q].user \in Users
      BY <2>1, <2>3, PayloadFields
    <3>2. ~ (req[q].org = m.org /\ req[q].user = m.user)
      BY <1>1, <2>1, <2>3, InsertedEntry DEF InsertOps
    <3>3. RowOf(req[q].org, req[q].user)' = RowOf(req[q].org, req[q].user)
      BY <1>10, <2>1, <3>1, <3>2
    <3> QED BY <2>1, <2>3, <3>3, InsertedEntry, StoredNext DEF InsertOps
  <2> QED BY <1>11, <2>2, <2>3 DEF InsertOps, Creations
<1>12. Told(p)'
  BY <1>1, <1>3, <1>5, <1>6, <1>7, <1>8, ToldOfWritten
<1>13. \A o \in Orgs, u \in Users : \A j, k \in RowOf(o, u)' : j = k
  BY <1>10 DEF IInv, TypeOK
<1>14. /\ organizations' \subseteq Orgs /\ resources' \subseteq Entries
       /\ members'[p].org \in organizations'
       /\ req[p].op \notin Creations
  BY <1>1, <1>2, <1>7, <1>8 DEF IInv, TypeOK, Creations
<1> HIDE DEF m, row
<1> QED BY <1>1, <1>2, <1>3, <1>5, <1>6, <1>8, <1>11, <1>12, <1>13, <1>14, CommitKeeps

\* What both changes of a stored membership have in common.
LEMMA KeyedCommit ==
  ASSUME IInv, NEW p \in Requests, pc[p] = "commit", req[p].op \in KeyedOps,
         End(p, "ok"), UNCHANGED <<organizations, resources>>
  PROVE  /\ req[p] \in Payloads /\ req[p].key \in Keys /\ req[p].key # p
         /\ Given(req[p].key) /\ seen[p] \in Membership
         /\ SameRow(p) /\ Permitted(p) /\ Held(p)
         /\ organizations' \subseteq Orgs /\ resources' \subseteq Entries
         /\ req[p].op \notin Creations /\ members[p] = None
<1>1. RequestInv(p)
  BY DEF IInv
<1>2. /\ req[p] \in Payloads /\ req[p].key \in Keys
      /\ SameRow(p) /\ Permitted(p) /\ Held(p)
  BY <1>1, PayloadFields DEF RequestInv, InFlight
<1>3. p \notin SeedKeys /\ members[p] = None
  BY NoTrailYet
<1>4. req[p].key # p /\ Given(req[p].key) /\ seen[p] \in Membership
  BY <1>2, <1>3 DEF SameRow, Given
<1> QED BY <1>2, <1>3, <1>4 DEF IInv, TypeOK, KeyedOps, Creations

\* Nothing becomes stored when rows keep their organization and user.
LEMMA NothingIsInserted ==
  ASSUME IInv, NEW p \in Requests, pc[p] = "commit", End(p, "ok"),
         UNCHANGED <<organizations, resources>>,
         \A k \in Keys : members'[k] # None =>
           /\ members[k] # None
           /\ members'[k].org = members[k].org
           /\ members'[k].user = members[k].user
  PROVE  /\ \A o \in Orgs, u \in Users : \A j, k \in RowOf(o, u)' : j = k
         /\ \A q \in Requests \ {p} :
              pc[q] = "commit" /\ req[q].op \in InsertOps => ~ Stored(EntryOf(req[q]))'
<1>1. \A o, u : RowOf(o, u)' \subseteq RowOf(o, u)
  BY DEF RowOf
<1>2. ASSUME NEW q \in Requests \ {p}, pc[q] = "commit", req[q].op \in InsertOps
      PROVE  ~ Stored(EntryOf(req[q]))'
  <2>1. req[q] \in Payloads /\ req'[q] = req[q] /\ ~ Stored(EntryOf(req[q]))
    BY <1>2, EndOk DEF IInv, RequestInv
  <2>2. RowOf(req[q].org, req[q].user)' \subseteq RowOf(req[q].org, req[q].user)
    BY <2>1 DEF RowOf
  <2> QED BY <1>2, <2>1, <2>2, InsertedEntry, StoredNext DEF InsertOps
<1>3. \A o \in Orgs, u \in Users : \A j, k \in RowOf(o, u)' : j = k
  BY <1>1 DEF IInv, TypeOK
<1> QED BY <1>2, <1>3

\* The role written is the role recorded.
LEMMA UpdateRoleKeepsIInv ==
  ASSUME IInv, NEW p \in Requests, update_member_role(p)
  PROVE  IInv'
<1> DEFINE m == req[p]
           row == [seen[p] EXCEPT !.role = m.role]
<1> PICK k : k = req[p].key
  OBVIOUS
<1>1. /\ pc[p] = "commit" /\ End(p, "ok") /\ m.op = "update_role" /\ m.op \in KeyedOps
      /\ UNCHANGED <<organizations, resources>>
  BY DEF update_member_role, Committing, KeyedOps
<1>2. /\ m \in Payloads /\ k \in Keys /\ k # p /\ Given(k) /\ seen[p] \in Membership
      /\ SameRow(p) /\ Held(p) /\ members[p] = None
      /\ organizations' \subseteq Orgs /\ resources' \subseteq Entries
      /\ req[p].op \notin Creations
  BY <1>1, KeyedCommit
<1>3. members' = [members EXCEPT ![k] = row]
  BY DEF update_member_role
<1>4. PICK e : /\ e = [by |-> p, event |-> "membership.role_updated", org |-> m.org,
                       key |-> k, role |-> m.role]
               /\ audit' = Append(audit, e)
  BY DEF update_member_role, Record
<1>5. m.org \in Orgs /\ m.role \in Roles
  BY <1>1, <1>2, PayloadFields
<1>6. e \in Event /\ e.key = k /\ e.role = m.role /\ e.event # "membership.removed"
  BY <1>2, <1>4, <1>5 DEF Event
<1>7. /\ row \in Membership /\ row # None /\ row.role = m.role
      /\ row.org = seen[p].org /\ row.user = seen[p].user
  BY <1>2, <1>5, NoneApart DEF Membership
<1>8. /\ members' \in [Keys -> Membership \union {None}] /\ members'[k] = row
      /\ \A j \in Keys \ {k} : members'[j] = members[j]
  BY <1>2, <1>3, <1>7 DEF IInv, TypeOK
<1>9. /\ members[k] # None
      /\ members[k].org = row.org /\ members[k].user = row.user
  BY <1>1, <1>2, <1>7 DEF Held, SameRow
<1>10. \A j \in Keys :
         IF members[j] = None THEN members'[j] = None
         ELSE /\ members'[j] # None
              /\ members'[j].org = members[j].org
              /\ members'[j].user = members[j].user
  BY <1>7, <1>8, <1>9
<1>11. /\ \A o \in Orgs, u \in Users : \A i, j \in RowOf(o, u)' : i = j
       /\ \A q \in Requests \ {p} :
            pc[q] = "commit" /\ req[q].op \in InsertOps => ~ Stored(EntryOf(req[q]))'
  BY <1>1, <1>10, NothingIsInserted
<1>12. Told(k)'
  BY <1>1, <1>2, <1>4, <1>6, <1>7, <1>8, <1>9, ToldOfWritten
<1>13. members'[p] = None
  BY <1>1, <1>2, <1>10, NoTrailYet
<1>14. /\ \A j \in Keys : IF e.key = j THEN Told(j)' ELSE members'[j] = members[j]
       /\ e.key # None => e.key = p \/ Given(e.key)
  BY <1>2, <1>6, <1>8, <1>12
<1> HIDE DEF m, row
<1> QED BY <1>1, <1>2, <1>4, <1>6, <1>8, <1>10, <1>11, <1>13, <1>14, CommitKeeps

\* A removal deletes the row, or finds it gone, and is recorded.
LEMMA RemoveMemberKeepsIInv ==
  ASSUME IInv, NEW p \in Requests, remove_member(p)
  PROVE  IInv'
<1> DEFINE m == req[p]
<1> PICK k : k = req[p].key
  OBVIOUS
<1>1. /\ pc[p] = "commit" /\ End(p, "ok") /\ m.op = "remove_member" /\ m.op \in KeyedOps
      /\ UNCHANGED <<organizations, resources>>
  BY DEF remove_member, Committing, KeyedOps
<1>2. /\ m \in Payloads /\ k \in Keys /\ k # p /\ Given(k) /\ seen[p] \in Membership
      /\ Held(p) /\ members[p] = None
      /\ organizations' \subseteq Orgs /\ resources' \subseteq Entries
      /\ req[p].op \notin Creations
  BY <1>1, KeyedCommit
<1>3. members' = [members EXCEPT ![k] = None]
  BY DEF remove_member
<1>4. PICK e : /\ e = [by |-> p, event |-> "membership.removed", org |-> m.org,
                       key |-> k, role |-> seen[p].role]
               /\ audit' = Append(audit, e)
  BY DEF remove_member, Record
<1>5. m.org \in Orgs /\ seen[p].role \in Roles
  BY <1>2, PayloadFields DEF Membership
<1>6. e \in Event /\ e.key = k /\ e.event = "membership.removed"
  BY <1>2, <1>4, <1>5 DEF Event
<1>7. /\ members' \in [Keys -> Membership \union {None}] /\ members'[k] = None
      /\ \A j \in Keys \ {k} : members'[j] = members[j]
  BY <1>2, <1>3 DEF IInv, TypeOK
<1>8. members[k] # None => rowLock[k] = p
  BY <1>2 DEF Held
<1>9. \A j \in Keys :
        \/ members'[j] = members[j]
        \/ members[j] # None /\ members'[j] = None /\ rowLock[j] = p
  BY <1>7, <1>8
<1>10. /\ \A o \in Orgs, u \in Users : \A i, j \in RowOf(o, u)' : i = j
       /\ \A q \in Requests \ {p} :
            pc[q] = "commit" /\ req[q].op \in InsertOps => ~ Stored(EntryOf(req[q]))'
  BY <1>1, <1>9, NothingIsInserted
<1>11. Told(k)'
  BY <1>1, <1>2, <1>4, <1>6, <1>7, ToldOfRemoved
<1>12. p \in Keys /\ members'[p] = None
  BY <1>1, <1>2, <1>9, NoTrailYet
<1>13. /\ \A j \in Keys : IF e.key = j THEN Told(j)' ELSE members'[j] = members[j]
       /\ e.key # None => e.key = p \/ Given(e.key)
  BY <1>2, <1>6, <1>7, <1>11
<1> HIDE DEF m
<1> QED BY <1>1, <1>2, <1>4, <1>6, <1>7, <1>9, <1>10, <1>12, <1>13, CommitKeeps

-----------------------------------------------------------------------------
(* The invariant holds.                                                    *)

\* The stored rows are ones that the unique indexes and foreign keys allow.
LEMMA InitIsLegal == Init => IInv
<1> SUFFICES ASSUME Init PROVE IInv
  OBVIOUS
<1> USE DEF Init
<1>1. /\ members \in [Keys -> Membership \union {None}]
      /\ \A k \in SeedKeys : members[k] = InitialMembers[k] /\ members[k] # None
      /\ \A k \in Keys \ SeedKeys : members[k] = None
  BY StoredTyped, NoneApart DEF Keys
<1>2. \A o, u : \A j, k \in RowOf(o, u) : j = k
  BY <1>1, StoredTyped DEF RowOf
<1>3. resources \subseteq Entries
  BY StoredTyped DEF Entries
<1>4. TypeOK
  BY <1>1, <1>2, <1>3, StoredTyped DEF TypeOK
<1>5. \A k \in Keys : Trail(k) = {}
  BY DEF Trail
<1>6. ASSUME NEW k \in Keys PROVE RowInv(k) /\ Told(k)
  BY <1>1, <1>5, StoredTyped DEF RowInv, Told, Given, IsLast, Keys
<1>7. \A p \in Requests : RequestInv(p)
  BY DEF RequestInv, InFlight
<1>8. EntriesInv /\ EventsInv /\ CreatedOnce
  BY DEF EntriesInv, EventsInv, CreatedOnce
<1> QED BY <1>4, <1>6, <1>7, <1>8 DEF IInv

\* Every step keeps the invariant.
LEMMA StepsKeepIInv == IInv /\ [Next]_vars => IInv'
<1> SUFFICES ASSUME IInv, [Next]_vars PROVE IInv'
  OBVIOUS
<1>1. ASSUME NEW p \in Requests, Step(p) PROVE IInv'
  BY <1>1, AuthorizeKeepsIInv, LookupKeepsIInv, InsertKeepsIInv, RegetKeepsIInv,
     WriteKeepsIInv, CreateOrganizationKeepsIInv, CreateResourceKeepsIInv,
     AddMemberKeepsIInv, UpdateRoleKeepsIInv, RemoveMemberKeepsIInv DEF Step, Commit
<1>2. ASSUME NEW p \in Requests, Crash(p) PROVE IInv'
  BY <1>2, RejectKeepsIInv DEF Crash, Responses
<1>3. ASSUME UNCHANGED vars PROVE IInv'
  <2> USE <1>3 DEF vars, tables
  <2>1. \A o, u : RowOf(o, u)' = RowOf(o, u)
    BY DEF RowOf
  <2>2. TypeOK' /\ EntriesInv' /\ EventsInv' /\ CreatedOnce'
    BY <2>1 DEF IInv, TypeOK, EntriesInv, EventsInv, CreatedOnce, Given
  <2>3. \A k \in Keys : RowInv(k)' /\ Told(k)'
    <3> TAKE k \in Keys
    <3>1. \A i : IsLast(i, k)' <=> IsLast(i, k)
      BY DEF IsLast, Trail
    <3> QED BY <3>1 DEF IInv, RowInv, Told, Given, Trail
  <2>4. \A q \in Requests : RequestInv(q)'
    BY QuietFrame
  <2> QED BY <2>2, <2>3, <2>4 DEF IInv
<1> QED BY <1>1, <1>2, <1>3, ReceiveKeepsIInv DEF Next, Finished

\* What requests have read stays true of the rows until they commit: the
\* inductive invariant holds in every reachable state.
LEMMA InvariantHolds == Spec => []IInv
BY InitIsLegal, StepsKeepIInv, PTL DEF Spec

\* Variables keep their types, and nobody has two memberships in one
\* organization, in whatever order additions, removals and role changes run.
THEOREM OneRowPerMember == Spec => []TypeOK
<1>1. IInv => TypeOK
  BY DEF IInv
<1> QED BY <1>1, InvariantHolds, PTL

\* Racing creations of one organization or resource succeed once.
THEOREM NothingIsCreatedTwice == Spec => []CreatedOnce
<1>1. IInv => CreatedOnce
  BY DEF IInv
<1> QED BY <1>1, InvariantHolds, PTL

\* The log tells exactly who is a member and in which role, although role
\* changes and removals act on rows read before their transactions.
THEOREM JournalTellsMembers == Spec => []JournalTellsMembership
<1>1. IInv => JournalTellsMembership
  BY DEF IInv, Told, JournalTellsMembership
<1> QED BY <1>1, InvariantHolds, PTL

-----------------------------------------------------------------------------
(* What a step does.                                                       *)

\* Only a commit changes memberships, and it is the request that succeeds.
LEMMA OnlyCommitsChangeMembers ==
  ASSUME IInv, [Next]_vars
  PROVE  \/ UNCHANGED members
         \/ \E p \in Requests : Commit(p) /\ \A q \in Requests : Succeeds(q) => q = p
<1>1. ASSUME NEW p \in Requests, Step(p) PROVE UNCHANGED members \/ Commit(p)
  <2>1. ASSUME NEW response, Reject(p, response) \/ Continue(p, response)
        PROVE  UNCHANGED members
    BY <2>1 DEF Reject, Continue, tables
  <2>2. CASE Insert(p)
    <3>1. \/ UNCHANGED tables
          \/ \E response : Reject(p, response) \/ Continue(p, response)
      BY <2>2 DEF Insert
    <3> QED BY <2>1, <3>1 DEF tables
  <2>3. CASE Write(p)
    <3>1. req[p].op \in KeyedOps
      BY <2>3 DEF Write, IInv, RequestInv, Handled, InFlight
    <3>2. \/ UNCHANGED tables
          \/ \E response : Reject(p, response) \/ Continue(p, response)
      BY <2>3, <3>1 DEF Write, KeyedOps
    <3> QED BY <2>1, <3>2 DEF tables
  <2>4. CASE Authorize(p)
    BY <2>1, <2>4 DEF Authorize
  <2>5. CASE Lookup(p) \/ Reget(p)
    BY <2>1, <2>5 DEF Lookup, Reget
  <2> QED BY <1>1, <2>2, <2>3, <2>4, <2>5 DEF Step
<1>2. ASSUME NEW p \in Requests, Commit(p), NEW q \in Requests, Succeeds(q) PROVE q = p
  BY <1>2, EndOk DEF Succeeds, Commit, Committing, create_organization, create_resource,
     add_member, update_member_role, remove_member
<1>3. ASSUME NEW p \in Requests, (\E m \in Payloads : Receive(p, m)) \/ Crash(p)
      PROVE  UNCHANGED members
  BY <1>3 DEF Receive, Crash, Reject, tables
<1>4. UNCHANGED vars => UNCHANGED members
  BY DEF vars, tables
<1> QED BY <1>1, <1>2, <1>3, <1>4 DEF Next, Finished

\* How a commit changes memberships: an insertion adds the request's own row;
\* a keyed request changes the row it names, which is one of the organization
\* in its URL, and an actor who has that row stays an administrator.
LEMMA CommitOfMembers ==
  ASSUME IInv, NEW p \in Requests, Commit(p)
  PROVE  /\ Succeeds(p)
         /\ \/ UNCHANGED members
            \/ /\ members[p] = None
               /\ members'[p].org = req[p].org
               /\ \A k \in Keys \ {p} : members'[k] = members[k]
            \/ /\ req[p].key \in Keys /\ members[req[p].key] # None
               /\ members[req[p].key].org = req[p].org
               /\ members'[req[p].key] # None => members'[req[p].key].org = req[p].org
               /\ members[req[p].key].user = req[p].actor =>
                    /\ members'[req[p].key] # None
                    /\ members'[req[p].key].user = req[p].actor
                    /\ members'[req[p].key].role = "admin"
               /\ \A k \in Keys \ {req[p].key} : members'[k] = members[k]
<1>1. pc[p] = "commit" /\ End(p, "ok")
  BY DEF Commit, Committing, create_organization, create_resource, add_member,
     update_member_role, remove_member
<1>2. Succeeds(p) /\ members[p] = None /\ p \in Keys /\ members \in [Keys -> Membership \union {None}]
  BY <1>1, EndOk, NoTrailYet DEF Succeeds, IInv, TypeOK
<1>3. CASE create_organization(p)
  BY <1>2, <1>3 DEF create_organization
<1>4. CASE create_resource(p)
  BY <1>2, <1>4 DEF create_resource
<1>5. CASE add_member(p)
  BY <1>2, <1>5 DEF add_member
<1>6. CASE update_member_role(p)
  <2> DEFINE k == req[p].key
             row == [seen[p] EXCEPT !.role = req[p].role]
  <2>1. /\ req[p].op = "update_role" /\ UNCHANGED <<organizations, resources>>
        /\ members' = [members EXCEPT ![k] = row]
    BY <1>6 DEF update_member_role, Committing
  <2>2. /\ req[p] \in Payloads /\ k \in Keys /\ seen[p] \in Membership
        /\ SameRow(p) /\ Permitted(p) /\ Held(p)
    BY <1>1, <2>1, KeyedCommit DEF KeyedOps
  <2>3. members[k] # None
    BY <2>1, <2>2 DEF Held
  <2>4. req[p].role \in Roles
    BY <2>1, <2>2, PayloadFields
  <2>5. /\ row \in Membership /\ row # None /\ row.role = req[p].role
        /\ row.org = seen[p].org /\ row.user = seen[p].user
    BY <2>2, <2>4, NoneApart DEF Membership
  <2>6. /\ members[k].org = req[p].org /\ row.org = req[p].org
        /\ members[k].user = req[p].actor =>
             row.user = req[p].actor /\ row.role = "admin"
    BY <2>2, <2>3, <2>5 DEF SameRow, Permitted
  <2> HIDE DEF row
  <2> QED BY <1>2, <2>1, <2>2, <2>3, <2>5, <2>6
<1>7. CASE remove_member(p)
  <2> DEFINE k == req[p].key
  <2>1. /\ req[p].op = "remove_member" /\ UNCHANGED <<organizations, resources>>
        /\ members' = [members EXCEPT ![k] = None]
    BY <1>7 DEF remove_member, Committing
  <2>2. k \in Keys /\ SameRow(p) /\ Permitted(p)
    BY <1>1, <2>1, KeyedCommit DEF KeyedOps
  <2>3. CASE members[k] = None
    BY <1>2, <2>1, <2>2, <2>3
  <2>4. CASE members[k] # None
    BY <1>2, <2>1, <2>2, <2>4 DEF SameRow, Permitted
  <2> QED BY <2>3, <2>4
<1> QED BY <1>2, <1>3, <1>4, <1>5, <1>6, <1>7 DEF Commit

\* A request changes memberships of the organization in its URL only,
\* whatever key it names.
THEOREM TenantsStayApart == Spec => TenantsKeptApart
<1> DEFINE A == \A k \in Keys, p \in Requests :
                  members'[k] # members[k] /\ Succeeds(p) =>
                    req[p].org = IF members[k] = None THEN members'[k].org
                                                      ELSE members[k].org
<1>1. IInv /\ [Next]_vars => A
  BY OnlyCommitsChangeMembers, CommitOfMembers
<1> QED BY <1>1, InvariantHolds, PTL DEF Spec, TenantsKeptApart

\* Whoever takes the last administrator away is none any more: requests that
\* do not overlap never leave an organization without one.
THEOREM AnAdministratorRemains == Spec => AdministratorRemains
<1> DEFINE A == \A o \in Orgs : Admins(o) # {} /\ Admins(o)' = {} =>
                  \E p \in Requests :
                    Succeeds(p) /\ req[p].org = o /\ req[p].actor \notin Admins(o)
<1>1. ASSUME IInv, [Next]_vars PROVE A
  <2> SUFFICES ASSUME NEW o \in Orgs, Admins(o) # {}, Admins(o)' = {}
               PROVE  \E p \in Requests :
                        Succeeds(p) /\ req[p].org = o /\ req[p].actor \notin Admins(o)
    OBVIOUS
  <2> DEFINE AdminRow(j, u) == /\ members[j] # None /\ members[j].org = o
                               /\ members[j].user = u /\ members[j].role = "admin"
  <2>1. \A u : u \in Admins(o) <=> u \in Users /\ \E j \in Keys : AdminRow(j, u)
    BY DEF Admins, HasRole, RowOf
  <2>2. \A u \in Users, j \in Keys : ~ AdminRow(j, u)'
    BY DEF Admins, HasRole, RowOf
  <2>3. PICK v \in Users, i \in Keys : AdminRow(i, v)
    BY <2>1
  <2>4. members'[i] # members[i]
    BY <2>2, <2>3
  <2>5. PICK p \in Requests : Commit(p)
    BY <1>1, <2>4, OnlyCommitsChangeMembers
  <2>6. /\ Succeeds(p) /\ i = req[p].key
        /\ members[i].org = req[p].org
        /\ members[i].user = req[p].actor =>
             /\ members'[i] # None /\ members'[i].user = req[p].actor
             /\ members'[i].role = "admin" /\ members'[i].org = req[p].org
        /\ \A k \in Keys \ {i} : members'[k] = members[k]
    BY <1>1, <2>3, <2>4, <2>5, CommitOfMembers
  <2>7. ASSUME req[p].actor \in Admins(o) PROVE FALSE
    <3>1. PICK j \in Keys : req[p].actor \in Users /\ AdminRow(j, req[p].actor)
      BY <2>1, <2>7
    <3>2. j = i
      BY <2>2, <2>6, <3>1
    <3>3. AdminRow(i, v)' /\ v = req[p].actor
      BY <2>3, <2>6, <3>1, <3>2
    <3> QED BY <2>2, <3>3
  <2> QED BY <2>3, <2>6, <2>7
<1> QED BY <1>1, InvariantHolds, PTL DEF Spec, AdministratorRemains
=============================================================================
