--------------------------- MODULE BookingProofs ---------------------------
(***************************************************************************)
(* Theorems of BookingService, for any users, requests, payloads, times    *)
(* and stored data.  The inductive invariant says which locks a request    *)
(* holds at each statement and that what it has checked under them stays   *)
(* true until it commits.  From it: bookings never overlap, there is no    *)
(* deadlock, and the services keep the promise of Calendar.                *)
(***************************************************************************)
EXTENDS BookingService, TLAPS

-----------------------------------------------------------------------------
(* The inductive invariant.                                                *)

\* The statements at which a request holds the row of its resource, of its
\* booking, and of its organization.
HasResource(p) == \/ pc[p] \in {"lockBooking", "timeRange", "conflicts"}
                  \/ pc[p] = "commit" /\ req[p].op # "settings"
HasBooking(p)  == /\ pc[p] \in {"timeRange", "conflicts", "commit"}
                  /\ req[p].op \in BookingOps
HasOrg(p)      == pc[p] = "commit" /\ req[p].op = "settings"

\* What the view has established about the payload of a request in flight.
Handled(p) ==
  /\ req[p] \in Payloads
  /\ WellFormed(req[p])
  /\ req[p].op # "settings" => target[p] \in Resources
  /\ req[p].op \in BookingOps => /\ bookings[req[p].booking] # None
                                 /\ target[p] = bookings[req[p].booking].resource
  /\ pc[p] = "lockResource" => req[p].op # "settings"
  /\ pc[p] = "lockBooking" => req[p].op \in BookingOps
  /\ pc[p] \in {"timeRange", "conflicts"} => req[p].op \in SlotOps
  /\ pc[p] = "lockOrg" => req[p].op = "settings"

\* What it has read under the lock of the resource.
ResourceRead(p) ==
  /\ copy[p] \in ResourceRow
  /\ req[p].op = "rule" => req[p].weekday \in Weekdays
  /\ req[p].op = "update" => /\ req[p].changes.zone \in Zones \union {None}
                             /\ req[p].changes.capacity # 0

RequestInv(p) ==
  /\ pc[p] \in {"new"} \union InFlight => bookings[p] = None
  /\ pc[p] \in InFlight => Handled(p)
  /\ HasResource(p) => resourceLock[target[p]] = p /\ ResourceRead(p)
  /\ HasBooking(p) => bookingLock[req[p].booking] = p /\ Confirmed(req[p].booking)
  /\ HasOrg(p) => orgLock[req[p].org] = p
  /\ pc[p] = "commit" /\ req[p].op \in SlotOps =>
       NoConflicts(target[p], req[p].start, req[p].end, Excluded(p))

IInv == TypeOK /\ (\A p \in Requests : RequestInv(p)) /\ NoDoubleBooking

-----------------------------------------------------------------------------
(* Facts about the constants and the operators.                            *)

\* What a payload holds, by its operation.
LEMMA PayloadFields ==
  ASSUME NEW m \in Payloads
  PROVE  /\ m.op \in SlotOps \union BookingOps \union ResourceOps \union {"settings"}
         /\ m.actor \in Users
         /\ m.op \in SlotOps \union {"blackout"} => m.start \in Times /\ m.end \in Times
         /\ m.op \in BookingOps => m.booking \in Ids
         /\ m.op \in {"create"} \union ResourceOps => m.resource \in Resources
         /\ m.op \in {"settings"} \union ResourceOps => m.org \in Orgs
         /\ m.op = "rule" => m.hours \in [open : TimeOfDay, close : TimeOfDay]
         /\ m.op = "update" => m.changes \in Changes
BY PayloadsTyped DEF Payload, SlotOps, BookingOps, ResourceOps

\* Two intervals overlap in whichever order they are compared.
LEMMA OverlapIsSymmetric ==
  ASSUME NEW a \in Times, NEW b \in Times, NEW c \in Times, NEW d \in Times,
         Overlaps(a, b, c, d)
  PROVE  Overlaps(c, d, a, b)
BY TimesTyped, SMT DEF Overlaps

\* A patch of a valid row by valid changes is a valid row.
LEMMA PatchedRow ==
  ASSUME NEW row \in ResourceRow, NEW c \in Changes,
         c.zone \in Zones \union {None}, c.capacity # 0, NEW v \in Nat
  PROVE  [Patched(row, c) EXCEPT !.version = v] \in ResourceRow
BY DEF Patched, ResourceRow, Changes

\* Ending a transaction frees its own rows and no others.
LEMMA UnlockedRows ==
  ASSUME NEW X, NEW lock \in [X -> Requests \union {None}], NEW p \in Requests
  PROVE  /\ Unlocked(lock, p) \in [X -> Requests \union {None}]
         /\ \A x \in X : Unlocked(lock, p)[x] =
              IF lock[x] = p THEN None ELSE lock[x]
BY DEF Unlocked

\* A request that holds rows names existing ones.
LEMMA HoldersNameRows ==
  ASSUME NEW p \in Requests, RequestInv(p)
  PROVE  /\ HasResource(p) => target[p] \in Resources
         /\ HasBooking(p) => req[p].booking \in Ids
         /\ HasOrg(p) => req[p].org \in Orgs
BY PayloadFields DEF RequestInv, HasResource, HasBooking, HasOrg, Handled, InFlight,
                     BookingOps, SlotOps

\* A request's part of the invariant survives a step that leaves its local
\* variables, its locks and the calendar alone.
LEMMA FrameKeepsRequestInv ==
  ASSUME NEW q \in Requests, RequestInv(q),
         pc'[q] = pc[q], req'[q] = req[q], target'[q] = target[q], copy'[q] = copy[q],
         bookings' = bookings, blackouts' = blackouts,
         \A r \in Resources : resourceLock[r] = q => resourceLock'[r] = q,
         \A b \in Ids : bookingLock[b] = q => bookingLock'[b] = q,
         \A o \in Orgs : orgLock[o] = q => orgLock'[o] = q
  PROVE  RequestInv(q)'
<1>1. (HasResource(q)' <=> HasResource(q)) /\ (HasBooking(q)' <=> HasBooking(q))
      /\ (HasOrg(q)' <=> HasOrg(q))
  BY DEF HasResource, HasBooking, HasOrg
<1>2. Handled(q) <=> Handled(q)'
  BY DEF Handled, WellFormed
<1>3. ResourceRead(q) <=> ResourceRead(q)'
  BY DEF ResourceRead
<1>4. \A r, s, e, X : NoConflicts(r, s, e, X) => NoConflicts(r, s, e, X)'
  BY DEF NoConflicts, Confirmed
<1>5. Excluded(q)' = Excluded(q)
  BY DEF Excluded
<1> QED BY <1>1, <1>2, <1>3, <1>4, <1>5, HoldersNameRows DEF RequestInv, Confirmed

\* A rejection is such a step for the others, and ends the request.
LEMMA RejectKeepsIInv ==
  ASSUME IInv, NEW p \in Requests, NEW response \in Responses, Reject(p, response)
  PROVE  IInv'
<1> USE DEF IInv
<1>1. TypeOK'
  BY UnlockedRows DEF TypeOK, Reject, End, Goto, tables, locals
<1>2. RequestInv(p)'
  BY DEF Reject, End, Goto, TypeOK, RequestInv, HasResource, HasBooking, HasOrg,
         InFlight, Responses
<1>3. ASSUME NEW q \in Requests, q # p PROVE RequestInv(q)'
  <2>1. \A r \in Resources : resourceLock[r] = q => resourceLock'[r] = q
    BY <1>3, SMT DEF Reject, End, TypeOK, Unlocked
  <2>2. \A b \in Ids : bookingLock[b] = q => bookingLock'[b] = q
    BY <1>3, SMT DEF Reject, End, TypeOK, Unlocked
  <2>3. \A o \in Orgs : orgLock[o] = q => orgLock'[o] = q
    BY <1>3, SMT DEF Reject, End, TypeOK, Unlocked
  <2> QED BY <1>3, <2>1, <2>2, <2>3, FrameKeepsRequestInv
          DEF Reject, End, Goto, TypeOK, tables, locals
<1>4. NoDoubleBooking'
  BY DEF NoDoubleBooking, Confirmed, Reject, tables
<1> QED BY <1>1, <1>2, <1>3, <1>4

-----------------------------------------------------------------------------
(* The statements before the commit.                                       *)

\* The view stores what the payload names; nothing else changes.
LEMMA ReceiveKeepsIInv ==
  ASSUME IInv, NEW p \in Requests, NEW m \in Payloads, Receive(p, m)
  PROVE  IInv'
<1> USE DEF IInv
<1>1. Visible(m) => TargetOf(m) \in Resources \union {None}
  BY PayloadFields DEF Visible, TargetOf, TypeOK, BookingRow, SlotOps, BookingOps, ResourceOps
<1>2. TypeOK'
  BY <1>1 DEF TypeOK, Receive, Goto, tables, locks, InFlight, Responses
<1>3. RequestInv(p)'
  <2>1. CASE pc'[p] = "authorize"
    <3>1. Visible(m) /\ WellFormed(m) /\ req'[p] = m /\ target'[p] = TargetOf(m)
          /\ bookings' = bookings /\ bookings[p] = None
      BY <2>1 DEF Receive, Goto, TypeOK, tables, RequestInv
    <3>2. m.op # "settings" => TargetOf(m) \in Resources
      BY <3>1, PayloadFields DEF Visible, TargetOf, TypeOK, BookingRow,
         SlotOps, BookingOps, ResourceOps
    <3>3. m.op \in BookingOps => /\ bookings[m.booking] # None
                                 /\ TargetOf(m) = bookings[m.booking].resource
      BY <3>1 DEF Visible, TargetOf, BookingOps
    <3>4. WellFormed(req[p])'
      BY <3>1 DEF WellFormed
    <3>5. Handled(p)'
      BY <2>1, <3>1, <3>2, <3>3, <3>4 DEF Handled
    <3> QED BY <2>1, <3>1, <3>5 DEF RequestInv, HasResource, HasBooking, HasOrg
  <2>2. CASE pc'[p] \in {"badRequest", "notFound"}
    BY <2>2 DEF RequestInv, HasResource, HasBooking, HasOrg, InFlight
  <2> QED BY <2>1, <2>2 DEF Receive, Goto, TypeOK
<1>4. ASSUME NEW q \in Requests, q # p PROVE RequestInv(q)'
  BY <1>4, FrameKeepsRequestInv DEF Receive, Goto, TypeOK, tables, locks
<1>5. NoDoubleBooking'
  BY DEF NoDoubleBooking, Confirmed, Receive, tables
<1> QED BY <1>2, <1>3, <1>4, <1>5

\* The permission check only reads.
LEMMA AuthorizeKeepsIInv ==
  ASSUME IInv, NEW p \in Requests, Authorize(p)
  PROVE  IInv'
<1> USE DEF IInv
<1>1. req[p] \in Payloads /\ (req[p].op # "settings" => target[p] \in Resources)
  BY DEF Authorize, RequestInv, Handled, InFlight
<1>2. OrgFor(p) \in Orgs /\ req[p].actor \in Users
  BY <1>1, PayloadFields, OrgOfTyped DEF OrgFor, SlotOps, BookingOps, ResourceOps
<1>3. role[OrgFor(p)][req[p].actor] \in Roles
  BY <1>2 DEF TypeOK, RoleTable
<1>4. pc'[p] \in {"notFound", "forbidden", "lockOrg", "lockResource"}
  BY DEF Authorize, Goto, TypeOK
<1>5. TypeOK'
  BY <1>3, <1>4 DEF TypeOK, Authorize, Goto, tables, locks, InFlight, Responses
<1>6. RequestInv(p)'
  <2>1. CASE pc'[p] \in {"notFound", "forbidden"}
    BY <2>1 DEF RequestInv, HasResource, HasBooking, HasOrg, InFlight
  <2>2. CASE pc'[p] \in {"lockOrg", "lockResource"}
    <3>1. /\ Handled(p)
          /\ bookings[p] = None
          /\ UNCHANGED <<req, target, bookings>>
          /\ pc'[p] = "lockOrg" <=> req[p].op = "settings"
      BY <2>2 DEF Authorize, Goto, TypeOK, tables, RequestInv, InFlight
    <3>2. Handled(p)'
      BY <2>2, <3>1 DEF Handled, WellFormed
    <3> QED BY <2>2, <3>1, <3>2 DEF RequestInv, HasResource, HasBooking, HasOrg
  <2> QED BY <1>4, <2>1, <2>2
<1>7. ASSUME NEW q \in Requests, q # p PROVE RequestInv(q)'
  BY <1>7, FrameKeepsRequestInv DEF Authorize, Goto, TypeOK, tables, locks
<1>8. NoDoubleBooking'
  BY DEF NoDoubleBooking, Confirmed, Authorize, tables
<1> QED BY <1>5, <1>6, <1>7, <1>8

\* Taking the resource: its row is free, so nobody else's lock is lost, and
\* the handlers' early returns leave only payloads that fit the row.
LEMMA LockResourceKeepsIInv ==
  ASSUME IInv, NEW p \in Requests, LockResource(p)
  PROVE  IInv'
<1> USE DEF IInv
<1> DEFINE r == target[p]
<1>1. /\ Handled(p)
      /\ req[p] \in Payloads
      /\ req[p].op # "settings"
      /\ r \in Resources
      /\ bookings[p] = None
  BY DEF LockResource, RequestInv, Handled, InFlight
<1>2. CASE \E response \in Responses : Reject(p, response)
  BY <1>2, RejectKeepsIInv
<1>3. CASE /\ RowFree(resourceLock, r)
           /\ OnLockedRow(p, resources[r]) = "lock"
           /\ resourceLock' = [resourceLock EXCEPT ![r] = p]
           /\ copy' = [copy EXCEPT ![p] = resources[r]]
           /\ Goto(p, AfterResourceLock(req[p].op))
           /\ UNCHANGED <<now, role, tables, bookingLock, orgLock, req, target, granted>>
  <2>1. AfterResourceLock(req[p].op) \in {"timeRange", "lockBooking", "commit"}
    BY DEF AfterResourceLock
  <2>2. TypeOK'
    BY <1>1, <1>3, <2>1 DEF TypeOK, Goto, tables, InFlight
  <2>3. ResourceRead(p)'
    <3>1. copy'[p] \in ResourceRow
      BY <1>1, <1>3 DEF TypeOK
    <3>2. req[p].op = "rule" => req[p].weekday \in Weekdays
      BY <1>3 DEF OnLockedRow, OnUpdate
    <3>3. req[p].op = "update" => /\ req[p].changes.zone \in Zones \union {None}
                                  /\ req[p].changes.capacity # 0
      BY <1>3 DEF OnLockedRow, OnUpdate
    <3> QED BY <1>3, <3>1, <3>2, <3>3 DEF ResourceRead
  <2>4. RequestInv(p)'
    <3>1. pc'[p] = AfterResourceLock(req[p].op) /\ resourceLock'[r] = p
      BY <1>1, <1>3 DEF Goto, TypeOK
    <3>2. Handled(p)'
      BY <1>1, <1>3, <2>1, <3>1
         DEF Handled, WellFormed, tables, AfterResourceLock, SlotOps, BookingOps
    <3>3. pc'[p] = "commit" => req[p].op \notin SlotOps \union BookingOps
      BY <3>1 DEF AfterResourceLock, SlotOps, BookingOps
    <3>4. pc'[p] = "timeRange" => req[p].op \notin BookingOps
      BY <3>1 DEF AfterResourceLock, BookingOps
    <3> QED BY <1>1, <1>3, <2>1, <2>3, <3>1, <3>2, <3>3, <3>4
            DEF RequestInv, HasResource, HasBooking, HasOrg, tables
  <2>5. ASSUME NEW q \in Requests, q # p PROVE RequestInv(q)'
    <3>1. \A x \in Resources : resourceLock[x] = q => resourceLock'[x] = q
      BY <1>3, <2>5, NoneIsNothing DEF RowFree, TypeOK
    <3> QED BY <1>3, <2>5, <3>1, FrameKeepsRequestInv DEF Goto, TypeOK, tables
  <2>6. NoDoubleBooking'
    BY <1>3 DEF NoDoubleBooking, Confirmed, tables
  <2> QED BY <2>2, <2>4, <2>5, <2>6
<1>4. OnLockedRow(p, resources[r]) \in Responses \union {"lock"}
  BY DEF OnLockedRow, OnUpdate, Responses
<1> QED BY <1>2, <1>3, <1>4 DEF LockResource, Responses

\* Taking the booking: it is confirmed now and stays so while it is held.
LEMMA LockBookingKeepsIInv ==
  ASSUME IInv, NEW p \in Requests, LockBooking(p)
  PROVE  IInv'
<1> USE DEF IInv
<1> DEFINE b == req[p].booking
           label == IF req[p].op = "cancel" THEN "commit" ELSE "timeRange"
<1>1. /\ Handled(p)
      /\ req[p].op \in BookingOps
      /\ b \in Ids
      /\ bookings[p] = None
      /\ resourceLock[target[p]] = p
      /\ ResourceRead(p)
  BY PayloadFields DEF LockBooking, RequestInv, Handled, HasResource, InFlight
<1>2. CASE Reject(p, "conflict")
  BY <1>2, RejectKeepsIInv DEF Responses
<1>3. CASE /\ RowFree(bookingLock, b)
           /\ Confirmed(b)
           /\ bookingLock' = [bookingLock EXCEPT ![b] = p]
           /\ Goto(p, label)
           /\ UNCHANGED <<now, role, tables, resourceLock, orgLock, locals>>
  <2>1. TypeOK'
    BY <1>1, <1>3 DEF TypeOK, Goto, tables, locals, InFlight
  <2>2. pc'[p] = label /\ bookingLock'[b] = p
    BY <1>1, <1>3 DEF Goto, TypeOK
  <2>3. Handled(p)'
    BY <1>1, <1>3, <2>2 DEF Handled, WellFormed, tables, locals, SlotOps, BookingOps
  <2>4. ResourceRead(p)'
    BY <1>1, <1>3 DEF ResourceRead, locals
  <2>5. pc'[p] = "commit" => req[p].op \notin SlotOps \union {"settings"}
    BY <2>2 DEF SlotOps
  <2>6. RequestInv(p)'
    BY <1>1, <1>3, <2>2, <2>3, <2>4, <2>5
       DEF RequestInv, HasResource, HasBooking, HasOrg, Confirmed, tables, locals
  <2>7. ASSUME NEW q \in Requests, q # p PROVE RequestInv(q)'
    <3>1. \A x \in Ids : bookingLock[x] = q => bookingLock'[x] = q
      BY <1>3, <2>7, NoneIsNothing DEF RowFree, TypeOK
    <3> QED BY <1>3, <2>7, <3>1, FrameKeepsRequestInv DEF Goto, TypeOK, tables, locals
  <2>8. NoDoubleBooking'
    BY <1>3 DEF NoDoubleBooking, Confirmed, tables
  <2> QED BY <2>1, <2>6, <2>7, <2>8
<1> QED BY <1>2, <1>3 DEF LockBooking

\* The time range is checked without changing anything.
LEMMA CheckTimeRangeKeepsIInv ==
  ASSUME IInv, NEW p \in Requests, CheckTimeRange(p)
  PROVE  IInv'
<1> USE DEF IInv
<1>1. /\ Handled(p)
      /\ req[p].op \in SlotOps
      /\ bookings[p] = None
      /\ resourceLock[target[p]] = p
      /\ ResourceRead(p)
      /\ HasBooking(p) => bookingLock[req[p].booking] = p /\ Confirmed(req[p].booking)
  BY DEF CheckTimeRange, RequestInv, Handled, HasResource, InFlight
<1>2. CASE Reject(p, "invalid")
  BY <1>2, RejectKeepsIInv DEF Responses
<1>3. CASE Goto(p, "conflicts") /\ UNCHANGED <<now, role, tables, locks, locals>>
  <2>1. TypeOK'
    BY <1>3 DEF TypeOK, Goto, tables, locks, locals, InFlight
  <2>2. pc'[p] = "conflicts" /\ pc[p] = "timeRange"
    BY <1>3 DEF Goto, TypeOK, CheckTimeRange
  <2>3. Handled(p)'
    BY <1>1, <1>3, <2>2 DEF Handled, WellFormed, tables, locals
  <2>4. ResourceRead(p)' /\ (HasBooking(p)' <=> HasBooking(p))
    BY <1>1, <1>3, <2>2 DEF ResourceRead, HasBooking, locals
  <2>5. RequestInv(p)'
    BY <1>1, <1>3, <2>2, <2>3, <2>4
       DEF RequestInv, HasResource, HasOrg, Confirmed, tables, locks, locals
  <2>6. ASSUME NEW q \in Requests, q # p PROVE RequestInv(q)'
    BY <1>3, <2>6, FrameKeepsRequestInv DEF Goto, TypeOK, tables, locks, locals
  <2>7. NoDoubleBooking'
    BY <1>3 DEF NoDoubleBooking, Confirmed, tables
  <2> QED BY <2>1, <2>5, <2>6, <2>7
<1> QED BY <1>2, <1>3 DEF CheckTimeRange

\* From here on the interval is known to be free of everything else.
LEMMA CheckConflictsKeepsIInv ==
  ASSUME IInv, NEW p \in Requests, CheckConflicts(p)
  PROVE  IInv'
<1> USE DEF IInv
<1>1. /\ Handled(p)
      /\ req[p].op \in SlotOps
      /\ bookings[p] = None
      /\ resourceLock[target[p]] = p
      /\ ResourceRead(p)
      /\ HasBooking(p) => bookingLock[req[p].booking] = p /\ Confirmed(req[p].booking)
  BY DEF CheckConflicts, RequestInv, Handled, HasResource, InFlight
<1>2. CASE Reject(p, "conflict")
  BY <1>2, RejectKeepsIInv DEF Responses
<1>3. CASE /\ NoConflicts(target[p], req[p].start, req[p].end, Excluded(p))
           /\ Goto(p, "commit")
           /\ UNCHANGED <<now, role, tables, locks, locals>>
  <2>1. TypeOK'
    BY <1>3 DEF TypeOK, Goto, tables, locks, locals, InFlight
  <2>2. pc'[p] = "commit" /\ pc[p] = "conflicts"
    BY <1>3 DEF Goto, TypeOK, CheckConflicts
  <2>3. Handled(p)'
    BY <1>1, <1>3, <2>2 DEF Handled, WellFormed, tables, locals
  <2>4. ResourceRead(p)' /\ (HasBooking(p)' <=> HasBooking(p))
    BY <1>1, <1>3, <2>2 DEF ResourceRead, HasBooking, locals
  <2>5. NoConflicts(target[p], req[p].start, req[p].end, Excluded(p))'
    BY <1>3 DEF NoConflicts, Excluded, Confirmed, tables, locals
  <2>6. req[p].op # "settings"
    BY <1>1 DEF SlotOps
  <2>7. RequestInv(p)'
    BY <1>1, <1>3, <2>2, <2>3, <2>4, <2>5, <2>6
       DEF RequestInv, HasResource, HasOrg, Confirmed, tables, locks, locals
  <2>8. ASSUME NEW q \in Requests, q # p PROVE RequestInv(q)'
    BY <1>3, <2>8, FrameKeepsRequestInv DEF Goto, TypeOK, tables, locks, locals
  <2>9. NoDoubleBooking'
    BY <1>3 DEF NoDoubleBooking, Confirmed, tables
  <2> QED BY <2>1, <2>7, <2>8, <2>9
<1> QED BY <1>2, <1>3 DEF CheckConflicts

\* Taking the organization, as taking the other rows.
LEMMA LockOrgKeepsIInv ==
  ASSUME IInv, NEW p \in Requests, LockOrg(p)
  PROVE  IInv'
<1> USE DEF IInv
<1> DEFINE o == req[p].org
<1>1. /\ Handled(p)
      /\ req[p].op = "settings"
      /\ o \in Orgs
      /\ bookings[p] = None
  BY PayloadFields DEF LockOrg, RequestInv, Handled, InFlight
<1>2. CASE Reject(p, "ok")
  BY <1>2, RejectKeepsIInv DEF Responses
<1>3. CASE /\ RowFree(orgLock, o)
           /\ orgLock' = [orgLock EXCEPT ![o] = p]
           /\ Goto(p, "commit")
           /\ UNCHANGED <<now, role, tables, resourceLock, bookingLock, locals>>
  <2>1. TypeOK'
    BY <1>1, <1>3 DEF TypeOK, Goto, tables, locals, InFlight
  <2>2. pc'[p] = "commit" /\ orgLock'[o] = p
    BY <1>1, <1>3 DEF Goto, TypeOK
  <2>3. Handled(p)'
    BY <1>1, <1>3, <2>2 DEF Handled, WellFormed, tables, locals, BookingOps
  <2>4. RequestInv(p)'
    BY <1>1, <1>3, <2>2, <2>3
       DEF RequestInv, HasResource, HasBooking, SlotOps, BookingOps, tables, locals
  <2>5. ASSUME NEW q \in Requests, q # p PROVE RequestInv(q)'
    <3>1. \A x \in Orgs : orgLock[x] = q => orgLock'[x] = q
      BY <1>3, <2>5, NoneIsNothing DEF RowFree, TypeOK
    <3> QED BY <1>3, <2>5, <3>1, FrameKeepsRequestInv DEF Goto, TypeOK, tables, locals
  <2>6. NoDoubleBooking'
    BY <1>3 DEF NoDoubleBooking, Confirmed, tables
  <2> QED BY <2>1, <2>4, <2>5, <2>6
<1> QED BY <1>2, <1>3 DEF LockOrg

\* Role edits, the clock and stuttering touch no request.
LEMMA EnvironmentKeepsIInv ==
  ASSUME IInv, EditRole \/ Tick \/ Finished \/ UNCHANGED vars
  PROVE  IInv'
<1> USE DEF IInv
<1>1. UNCHANGED <<tables, locks, pc, locals>> /\ now' \in Nat /\ role' \in RoleTable
  <2>1. CASE EditRole
    BY <2>1, RoleEditsTyped DEF EditRole, TypeOK, RoleTable
  <2>2. CASE Tick
    BY <2>2 DEF Tick, TypeOK
  <2>3. CASE Finished \/ UNCHANGED vars
    BY <2>3 DEF Finished, TypeOK, vars
  <2> QED BY <2>1, <2>2, <2>3
<1>2. TypeOK'
  BY <1>1 DEF TypeOK, tables, locks, locals
<1>3. ASSUME NEW q \in Requests PROVE RequestInv(q)'
  BY <1>1, <1>3, FrameKeepsRequestInv DEF tables, locks, locals
<1>4. NoDoubleBooking'
  BY <1>1 DEF NoDoubleBooking, Confirmed, tables
<1> QED BY <1>2, <1>3, <1>4

-----------------------------------------------------------------------------
(* Commits.                                                                *)

\* What a request knows when it commits.
LEMMA AtCommit ==
  ASSUME IInv, NEW p \in Requests, pc[p] = "commit"
  PROVE  /\ req[p] \in Payloads
         /\ WellFormed(req[p])
         /\ bookings[p] = None
         /\ req[p].op # "settings" =>
              target[p] \in Resources /\ resourceLock[target[p]] = p /\ ResourceRead(p)
         /\ req[p].op \in BookingOps =>
              /\ req[p].booking \in Ids
              /\ bookings[req[p].booking] \in BookingRow
              /\ bookings[req[p].booking].resource = target[p]
              /\ Confirmed(req[p].booking)
         /\ req[p].op \in SlotOps =>
              NoConflicts(target[p], req[p].start, req[p].end, Excluded(p))
<1> USE DEF IInv
<1>1. Handled(p) /\ bookings[p] = None
  BY DEF RequestInv, InFlight
<1>2. req[p].op # "settings" =>
        target[p] \in Resources /\ resourceLock[target[p]] = p /\ ResourceRead(p)
  BY <1>1 DEF RequestInv, HasResource, Handled
<1>3. req[p].op \in BookingOps =>
        /\ req[p].booking \in Ids
        /\ bookings[req[p].booking] \in BookingRow
        /\ bookings[req[p].booking].resource = target[p]
        /\ Confirmed(req[p].booking)
  BY <1>1, PayloadFields DEF RequestInv, HasBooking, Handled, TypeOK
<1> QED BY <1>1, <1>2, <1>3 DEF Handled, RequestInv

\* The part of the type invariant that every commit disturbs alike.
LEMMA PublishTypes ==
  ASSUME IInv, NEW p \in Requests, pc[p] = "commit",
         NEW event \in Events, NEW b \in Ids \union {None}, Publish(p, event, b)
  PROVE  /\ now' \in Nat
         /\ role' \in RoleTable
         /\ audit' \subseteq AuditEvent
         /\ resourceLock' \in [Resources -> Requests \union {None}]
         /\ bookingLock' \in [Ids -> Requests \union {None}]
         /\ orgLock' \in [Orgs -> Requests \union {None}]
         /\ pc' \in [Requests -> {"new"} \union InFlight \union Responses]
         /\ req' \in [Requests -> Payloads \union {None}]
         /\ target' \in [Requests -> Resources \union {None}]
         /\ granted' \in [Requests -> Roles]
         /\ copy' \in [Requests -> ResourceRow \union {None}]
<1> USE DEF IInv
<1>1. [by |-> p, event |-> event, resource |-> target[p], booking |-> b] \in AuditEvent
  BY DEF TypeOK, AuditEvent
<1> QED BY <1>1, UnlockedRows DEF Publish, End, Goto, TypeOK, locals, Responses

\* Requests only change the calendar of the resource they hold: whatever
\* the others have checked of theirs stays true.
LEMMA CommitKeepsRequestInvs ==
  ASSUME IInv, NEW p \in Requests, pc[p] = "commit", req[p].op # "settings",
         End(p, "ok"), UNCHANGED locals,
         \A b \in Ids :
           \/ bookings'[b] = bookings[b]
           \/ /\ bookings'[b] # None
              /\ bookings'[b].resource = target[p]
              /\ b = p \/ bookings[b].resource = target[p]
              /\ b = p \/ bookings[b] # None,
         \A x \in blackouts' : x \in blackouts \/ x.resource = target[p]
  PROVE  \A q \in Requests : RequestInv(q)'
<1> USE DEF IInv
<1>0. target[p] \in Resources /\ resourceLock[target[p]] = p /\ bookings[p] = None
  BY AtCommit
<1>1. RequestInv(p)'
  BY DEF End, Goto, TypeOK, RequestInv, HasResource, HasBooking, HasOrg, InFlight
<1>2. ASSUME NEW q \in Requests, q # p PROVE RequestInv(q)'
  <2>1. /\ pc'[q] = pc[q]
        /\ req'[q] = req[q]
        /\ target'[q] = target[q]
        /\ copy'[q] = copy[q]
    BY <1>2 DEF End, Goto, TypeOK, locals
  <2>2. /\ \A r \in Resources : resourceLock[r] = q => resourceLock'[r] = q
        /\ \A b \in Ids : bookingLock[b] = q => bookingLock'[b] = q
        /\ \A o \in Orgs : orgLock[o] = q => orgLock'[o] = q
    BY <1>2, SMT DEF End, TypeOK, Unlocked
  <2>3. /\ HasResource(q)' <=> HasResource(q)
        /\ HasBooking(q)' <=> HasBooking(q)
        /\ HasOrg(q)' <=> HasOrg(q)
        /\ Excluded(q)' = Excluded(q)
        /\ ResourceRead(q)' <=> ResourceRead(q)
    BY <2>1 DEF HasResource, HasBooking, HasOrg, Excluded, ResourceRead
  <2>4. pc[q] \in {"new"} \union InFlight => bookings'[q] = None
    <3>1. SUFFICES ASSUME pc[q] \in {"new"} \union InFlight PROVE bookings'[q] = bookings[q]
      BY DEF RequestInv
    <3>2. bookings[q] = None /\ q \in Ids
      BY <3>1 DEF RequestInv, Ids
    <3> QED BY <1>2, <3>2
  <2>5. pc[q] \in InFlight => Handled(q)'
    <3> SUFFICES ASSUME pc[q] \in InFlight PROVE Handled(q)'
      OBVIOUS
    <3>1. Handled(q)
      BY DEF RequestInv
    <3>2. WellFormed(req[q])'
      BY <2>1, <3>1 DEF Handled, WellFormed
    <3>3. req[q].op \in BookingOps =>
            /\ bookings'[req[q].booking] # None
            /\ bookings'[req[q].booking].resource = bookings[req[q].booking].resource
      BY <1>0, <3>1, PayloadFields DEF Handled
    <3> QED BY <2>1, <3>1, <3>2, <3>3 DEF Handled
  <2>6. HasResource(q) => target[q] # target[p]
    BY <1>0, <1>2 DEF RequestInv
  <2>7. HasBooking(q) => Confirmed(req[q].booking)'
    <3> SUFFICES ASSUME HasBooking(q) PROVE Confirmed(req[q].booking)'
      OBVIOUS
    <3>1. HasResource(q) /\ Handled(q)
      BY DEF HasBooking, HasResource, RequestInv, InFlight, BookingOps
    <3>2. /\ req[q].booking \in Ids
          /\ Confirmed(req[q].booking)
          /\ bookings[req[q].booking].resource # target[p]
      BY <2>6, <3>1, HoldersNameRows DEF RequestInv, Handled, HasBooking
    <3>3. bookings'[req[q].booking] = bookings[req[q].booking]
      BY <1>0, <3>2 DEF Confirmed
    <3> QED BY <2>1, <3>2, <3>3 DEF Confirmed
  <2>8. pc[q] = "commit" /\ req[q].op \in SlotOps =>
          NoConflicts(target[q], req[q].start, req[q].end, Excluded(q))'
    <3> SUFFICES ASSUME pc[q] = "commit", req[q].op \in SlotOps
                 PROVE  NoConflicts(target[q], req[q].start, req[q].end, Excluded(q))'
      OBVIOUS
    <3>1. HasResource(q)
      BY DEF HasResource, SlotOps
    <3>2. NoConflicts(target[q], req[q].start, req[q].end, Excluded(q))
      BY DEF RequestInv
    <3>3. \A b \in Ids : Confirmed(b)' /\ bookings'[b].resource = target[q] =>
                           bookings'[b] = bookings[b] /\ Confirmed(b)
      BY <2>6, <3>1 DEF Confirmed
    <3>4. \A x \in blackouts' : x.resource = target[q] => x \in blackouts
      BY <2>6, <3>1
    <3> QED BY <2>1, <2>3, <3>2, <3>3, <3>4 DEF NoConflicts
  <2> QED BY <2>1, <2>2, <2>3, <2>4, <2>5, <2>7, <2>8, HoldersNameRows DEF RequestInv
<1> QED BY <1>1, <1>2

\* An interval that conflicts with nothing can be given to booking b.
LEMMA PlacedWithoutConflict ==
  ASSUME TypeOK, NoDoubleBooking, NEW b \in Ids, NEW x \in BookingRow,
         NEW X \in SUBSET {b}, NoConflicts(x.resource, x.start, x.end, X),
         bookings' = [bookings EXCEPT ![b] = x]
  PROVE  NoDoubleBooking'
<1>1. \A a \in Ids : a # b => bookings'[a] = bookings[a]
  BY DEF TypeOK
<1>2. bookings'[b] = x /\ x.start \in Times /\ x.end \in Times
  BY DEF TypeOK, BookingRow
<1>3. ASSUME NEW a \in Ids, a # b, Confirmed(a), bookings[a].resource = x.resource
      PROVE  /\ ~ Overlaps(x.start, x.end, bookings[a].start, bookings[a].end)
             /\ ~ Overlaps(bookings[a].start, bookings[a].end, x.start, x.end)
  <2>1. ~ Overlaps(x.start, x.end, bookings[a].start, bookings[a].end)
    BY <1>3 DEF NoConflicts
  <2>2. bookings[a].start \in Times /\ bookings[a].end \in Times
    BY <1>3 DEF Confirmed, TypeOK, BookingRow
  <2> QED BY <1>2, <2>1, <2>2, OverlapIsSymmetric
<1> QED BY <1>1, <1>2, <1>3 DEF NoDoubleBooking, Confirmed

\* The new booking has been found to conflict with nothing.
LEMMA CreateKeepsIInv ==
  ASSUME IInv, NEW p \in Requests, create_booking(p)
  PROVE  IInv'
<1> USE DEF IInv
<1> DEFINE x == [resource |-> target[p], owner |-> req[p].actor, status |-> "confirmed",
                 start |-> req[p].start, end |-> req[p].end]
<1>1. pc[p] = "commit" /\ req[p].op = "create" /\ Publish(p, "booking.created", p)
  BY DEF create_booking, Committing
<1>2. /\ bookings' = [bookings EXCEPT ![p] = x]
      /\ bump_availability_version(target[p])
      /\ UNCHANGED <<limit, rules, blackouts>>
  BY DEF create_booking
<1>3. /\ req[p] \in Payloads /\ req[p].start < req[p].end
      /\ target[p] \in Resources /\ bookings[p] = None
      /\ NoConflicts(target[p], req[p].start, req[p].end, {})
  BY <1>1, AtCommit DEF WellFormed, SlotOps, Excluded
<1>4. p \in Ids
  BY DEF Ids
<1>5. x \in BookingRow
  BY <1>1, <1>3, PayloadFields DEF BookingRow, SlotOps
<1>6. x # None
  BY <1>5, NoneIsNothing
<1>7. TypeOK'
  <2>1. resources' \in [Resources -> ResourceRow]
    BY <1>2, <1>3 DEF bump_availability_version, TypeOK, ResourceRow
  <2>2. bookings' \in [Ids -> BookingRow \union {None}]
    BY <1>2, <1>4, <1>5 DEF TypeOK
  <2> QED BY <1>1, <1>2, <1>4, <2>1, <2>2, PublishTypes DEF TypeOK, Events
<1>8. \A q \in Requests : RequestInv(q)'
  <2>1. \A b \in Ids : b # p => bookings'[b] = bookings[b]
    BY <1>2 DEF TypeOK
  <2>2. bookings'[p] = x /\ x.resource = target[p]
    BY <1>2, <1>4 DEF TypeOK
  <2> HIDE DEF x
  <2> QED BY <1>1, <1>2, <1>6, <2>1, <2>2, CommitKeepsRequestInvs DEF Publish
<1>9. NoDoubleBooking'
  <2>1. x.resource = target[p] /\ x.start = req[p].start /\ x.end = req[p].end
    OBVIOUS
  <2>2. {} \in SUBSET {p}
    OBVIOUS
  <2> HIDE DEF x
  <2> QED BY <1>2, <1>3, <1>4, <1>5, <2>1, <2>2, PlacedWithoutConflict
<1> QED BY <1>7, <1>8, <1>9

\* A moved booking may conflict at most with its own old interval.
LEMMA RescheduleKeepsIInv ==
  ASSUME IInv, NEW p \in Requests, reschedule_booking(p)
  PROVE  IInv'
<1> USE DEF IInv
<1> DEFINE b == req[p].booking
           x == [bookings[b] EXCEPT !.start = req[p].start, !.end = req[p].end]
<1>1. pc[p] = "commit" /\ req[p].op = "reschedule" /\ Publish(p, "booking.rescheduled", b)
  BY DEF reschedule_booking, Committing
<1>2. /\ bump_availability_version(target[p])
      /\ UNCHANGED <<limit, rules, blackouts>>
  BY DEF reschedule_booking
<1>3. /\ req[p] \in Payloads /\ req[p].start < req[p].end
      /\ target[p] \in Resources
      /\ NoConflicts(target[p], req[p].start, req[p].end, {b})
      /\ b \in Ids
      /\ bookings[b] \in BookingRow
      /\ bookings[b].resource = target[p]
      /\ Confirmed(b)
  BY <1>1, AtCommit DEF WellFormed, SlotOps, BookingOps, Excluded
<1>4. bookings' = [bookings EXCEPT ![b] = x]
  BY <1>3 DEF reschedule_booking, TypeOK, BookingRow
<1>5. /\ x \in BookingRow
      /\ x.resource = target[p] /\ x.start = req[p].start /\ x.end = req[p].end
  BY <1>1, <1>3, PayloadFields DEF BookingRow, SlotOps
<1>6. x # None
  BY <1>5, NoneIsNothing
<1> HIDE DEF x
<1>7. TypeOK'
  <2>1. resources' \in [Resources -> ResourceRow]
    BY <1>2, <1>3 DEF bump_availability_version, TypeOK, ResourceRow
  <2>2. bookings' \in [Ids -> BookingRow \union {None}]
    BY <1>3, <1>4, <1>5 DEF TypeOK
  <2> QED BY <1>1, <1>2, <1>3, <2>1, <2>2, PublishTypes DEF TypeOK, Events
<1>8. \A q \in Requests : RequestInv(q)'
  <2>1. \A a \in Ids : a # b => bookings'[a] = bookings[a]
    BY <1>4 DEF TypeOK
  <2>2. bookings'[b] = x /\ bookings[b] # None
    BY <1>3, <1>4 DEF TypeOK, Confirmed
  <2> QED BY <1>1, <1>2, <1>3, <1>5, <1>6, <2>1, <2>2, CommitKeepsRequestInvs DEF Publish
<1>9. NoDoubleBooking'
  <2>1. {b} \in SUBSET {b}
    OBVIOUS
  <2>2. NoConflicts(x.resource, x.start, x.end, {b})
    BY <1>3, <1>5
  <2> HIDE DEF b
  <2> QED BY <1>3, <1>4, <1>5, <2>1, <2>2, PlacedWithoutConflict
<1> QED BY <1>7, <1>8, <1>9

\* A cancellation only frees an interval.
LEMMA CancelKeepsIInv ==
  ASSUME IInv, NEW p \in Requests, cancel_booking(p)
  PROVE  IInv'
<1> USE DEF IInv
<1> DEFINE b == req[p].booking
           event == IF req[p].override THEN "booking.override_cancelled"
                                       ELSE "booking.cancelled"
           x == [bookings[b] EXCEPT !.status = "cancelled"]
<1>1. pc[p] = "commit" /\ req[p].op = "cancel" /\ Publish(p, event, b)
  BY DEF cancel_booking, Committing
<1>2. /\ bump_availability_version(target[p])
      /\ UNCHANGED <<limit, rules, blackouts>>
  BY DEF cancel_booking
<1>3. /\ target[p] \in Resources
      /\ b \in Ids
      /\ bookings[b] \in BookingRow
      /\ bookings[b].resource = target[p]
      /\ Confirmed(b)
  BY <1>1, AtCommit DEF BookingOps
<1>4. bookings' = [bookings EXCEPT ![b] = x]
  BY <1>3 DEF cancel_booking, TypeOK, BookingRow
<1>5. x \in BookingRow /\ x.resource = target[p] /\ x.status = "cancelled"
  BY <1>3 DEF BookingRow
<1>6. x # None
  BY <1>5, NoneIsNothing
<1> HIDE DEF x
<1>7. TypeOK'
  <2>1. resources' \in [Resources -> ResourceRow]
    BY <1>2, <1>3 DEF bump_availability_version, TypeOK, ResourceRow
  <2>2. bookings' \in [Ids -> BookingRow \union {None}]
    BY <1>3, <1>4, <1>5 DEF TypeOK
  <2>3. event \in Events
    BY DEF Events
  <2> QED BY <1>1, <1>2, <1>3, <2>1, <2>2, <2>3, PublishTypes DEF TypeOK
<1>8. \A q \in Requests : RequestInv(q)'
  <2>1. \A a \in Ids : a # b => bookings'[a] = bookings[a]
    BY <1>4 DEF TypeOK
  <2>2. bookings'[b] = x /\ bookings[b] # None
    BY <1>3, <1>4 DEF TypeOK, Confirmed
  <2> QED BY <1>1, <1>2, <1>3, <1>5, <1>6, <2>1, <2>2, CommitKeepsRequestInvs DEF Publish
<1>9. NoDoubleBooking'
  <2>1. \A a \in Ids : Confirmed(a)' => Confirmed(a) /\ bookings'[a] = bookings[a]
    BY <1>3, <1>4, <1>5 DEF Confirmed, TypeOK
  <2> QED BY <2>1 DEF NoDoubleBooking
<1> QED BY <1>7, <1>8, <1>9

\* The commits that leave the bookings alone.
LEMMA ConfigurationKeepsCalendar ==
  ASSUME IInv, NEW p \in Requests, pc[p] = "commit", req[p].op \in ResourceOps,
         End(p, "ok"), UNCHANGED <<bookings, locals>>,
         \A x \in blackouts' : x \in blackouts \/ x.resource = target[p]
  PROVE  (\A q \in Requests : RequestInv(q)') /\ NoDoubleBooking'
<1>1. req[p].op # "settings"
  BY DEF ResourceOps
<1>2. \A q \in Requests : RequestInv(q)'
  BY <1>1, CommitKeepsRequestInvs
<1>3. NoDoubleBooking'
  BY DEF NoDoubleBooking, Confirmed, IInv
<1> QED BY <1>2, <1>3

\* A blackout closes an interval of the locked resource only.
LEMMA BlackoutKeepsIInv ==
  ASSUME IInv, NEW p \in Requests, create_blackout(p)
  PROVE  IInv'
<1> USE DEF IInv
<1>1. pc[p] = "commit" /\ req[p].op = "blackout" /\ Publish(p, "blackout.created", None)
  BY DEF create_blackout, Committing
<1>2. req[p] \in Payloads /\ req[p].start < req[p].end /\ target[p] \in Resources
  BY <1>1, AtCommit DEF WellFormed, SlotOps
<1>3. [resource |-> target[p], start |-> req[p].start, end |-> req[p].end] \in Blackout
  BY <1>1, <1>2, PayloadFields DEF Blackout
<1>4. TypeOK'
  <2>1. resources' \in [Resources -> ResourceRow]
    BY <1>2 DEF create_blackout, bump_availability_version, TypeOK, ResourceRow
  <2>2. blackouts' \subseteq Blackout
    BY <1>3 DEF create_blackout, TypeOK
  <2> QED BY <1>1, <2>1, <2>2, PublishTypes DEF create_blackout, TypeOK, Events
<1>5. (\A q \in Requests : RequestInv(q)') /\ NoDoubleBooking'
  BY <1>1, ConfigurationKeepsCalendar DEF create_blackout, Publish, ResourceOps
<1> QED BY <1>4, <1>5

\* Working hours are no part of the invariant but their type.
LEMMA RuleKeepsIInv ==
  ASSUME IInv, NEW p \in Requests, upsert_availability_rule(p)
  PROVE  IInv'
<1> USE DEF IInv
<1>1. pc[p] = "commit" /\ req[p].op = "rule"
      /\ Publish(p, "availability_rule.updated", None)
  BY DEF upsert_availability_rule, Committing
<1>2. /\ req[p] \in Payloads /\ req[p].hours.open < req[p].hours.close
      /\ target[p] \in Resources /\ req[p].weekday \in Weekdays
  BY <1>1, AtCommit DEF WellFormed, SlotOps, ResourceRead
<1>3. req[p].hours \in Hours
  BY <1>1, <1>2, PayloadFields DEF Hours
<1>4. TypeOK'
  <2>1. resources' \in [Resources -> ResourceRow]
    BY <1>2 DEF upsert_availability_rule, bump_availability_version, TypeOK, ResourceRow
  <2>2. rules' \in RuleTable
    BY <1>2, <1>3 DEF upsert_availability_rule, TypeOK, RuleTable
  <2> QED BY <1>1, <2>1, <2>2, PublishTypes DEF upsert_availability_rule, TypeOK, Events
<1>5. (\A q \in Requests : RequestInv(q)') /\ NoDoubleBooking'
  BY <1>1, ConfigurationKeepsCalendar DEF upsert_availability_rule, Publish, ResourceOps
<1> QED BY <1>4, <1>5

\* Archiving writes the locked row from its copy.
LEMMA ArchiveKeepsIInv ==
  ASSUME IInv, NEW p \in Requests, deactivate_resource(p)
  PROVE  IInv'
<1> USE DEF IInv
<1>1. pc[p] = "commit" /\ req[p].op = "archive" /\ Publish(p, "resource.archived", None)
  BY DEF deactivate_resource, Committing
<1>2. target[p] \in Resources /\ copy[p] \in ResourceRow
  BY <1>1, AtCommit DEF ResourceRead
<1>3. TypeOK'
  <2> DEFINE row == [resources[target[p]] EXCEPT !.active = FALSE,
                                                 !.version = copy[p].version + 1]
  <2>a. resources[target[p]] \in ResourceRow /\ copy[p].version + 1 \in Nat
    BY <1>2 DEF TypeOK, ResourceRow
  <2>b. row \in ResourceRow
    BY <2>a DEF ResourceRow
  <2>c. resources' = [resources EXCEPT ![target[p]] = row]
    BY <1>2 DEF deactivate_resource, TypeOK
  <2>1. resources' \in [Resources -> ResourceRow]
    BY <1>2, <2>b, <2>c DEF TypeOK
  <2> QED BY <1>1, <2>1, PublishTypes DEF deactivate_resource, TypeOK, Events
<1>4. (\A q \in Requests : RequestInv(q)') /\ NoDoubleBooking'
  BY <1>1, ConfigurationKeepsCalendar DEF deactivate_resource, Publish, ResourceOps
<1> QED BY <1>3, <1>4

\* A patch that passed the early returns fits the row.
LEMMA UpdateKeepsIInv ==
  ASSUME IInv, NEW p \in Requests, update_resource(p)
  PROVE  IInv'
<1> USE DEF IInv
<1>1. pc[p] = "commit" /\ req[p].op = "update" /\ Publish(p, "resource.updated", None)
  BY DEF update_resource, Committing
<1>2. target[p] \in Resources /\ ResourceRead(p) /\ req[p] \in Payloads
  BY <1>1, AtCommit
<1>3. TypeOK'
  <2>1. copy[p].version + 1 \in Nat
    BY <1>2 DEF ResourceRead, ResourceRow
  <2>2. /\ req[p].changes \in Changes
        /\ req[p].changes.zone \in Zones \union {None}
        /\ req[p].changes.capacity # 0
    BY <1>1, <1>2, PayloadFields DEF ResourceRead
  <2>3. resources[target[p]] \in ResourceRow
    BY <1>2 DEF TypeOK
  <2>4. [Patched(resources[target[p]], req[p].changes)
           EXCEPT !.version = copy[p].version + 1] \in ResourceRow
    BY <2>1, <2>2, <2>3, PatchedRow
  <2>5. resources' \in [Resources -> ResourceRow]
    BY <2>4 DEF update_resource, TypeOK
  <2> QED BY <1>1, <2>5, PublishTypes DEF update_resource, TypeOK, Events
<1>4. (\A q \in Requests : RequestInv(q)') /\ NoDoubleBooking'
  BY <1>1, ConfigurationKeepsCalendar DEF update_resource, Publish, ResourceOps
<1> QED BY <1>3, <1>4

\* Settings touch no calendar and no lock but the organization's.
LEMMA SettingsKeepIInv ==
  ASSUME IInv, NEW p \in Requests, update_organization(p)
  PROVE  IInv'
<1> USE DEF IInv
<1>1. pc[p] = "commit" /\ req[p].op = "settings"
      /\ Publish(p, "organization.updated", None)
  BY DEF update_organization, Committing
<1>2. req[p] \in Payloads /\ req[p].limit \in Limits
  BY <1>1, AtCommit DEF WellFormed, SlotOps
<1>3. TypeOK'
  <2>1. limit' \in [Orgs -> Limits]
    BY <1>2 DEF update_organization, TypeOK
  <2> QED BY <1>1, <2>1, PublishTypes DEF update_organization, TypeOK, Events
<1>4. RequestInv(p)'
  <2>1. pc'[p] = "ok" /\ pc[p] = "commit"
    BY <1>1 DEF Publish, End, Goto, TypeOK
  <2> QED BY <2>1 DEF RequestInv, HasResource, HasBooking, HasOrg, InFlight
<1>5. ASSUME NEW q \in Requests, q # p PROVE RequestInv(q)'
  <2>1. /\ \A r \in Resources : resourceLock[r] = q => resourceLock'[r] = q
        /\ \A b \in Ids : bookingLock[b] = q => bookingLock'[b] = q
        /\ \A o \in Orgs : orgLock[o] = q => orgLock'[o] = q
    BY <1>1, <1>5, SMT DEF Publish, End, TypeOK, Unlocked
  <2> QED BY <1>1, <1>5, <2>1, FrameKeepsRequestInv
          DEF update_organization, Publish, End, Goto, TypeOK, locals
<1>6. NoDoubleBooking'
  BY DEF update_organization, NoDoubleBooking, Confirmed
<1> QED BY <1>3, <1>4, <1>5, <1>6

-----------------------------------------------------------------------------
(* The invariant holds.                                                    *)

\* The stored data satisfies the invariant.
LEMMA InitIsLegal == Init => IInv
<1> SUFFICES ASSUME Init PROVE IInv
  OBVIOUS
<1>1. SeedIds \subseteq Ids /\ Requests \subseteq Ids
  BY DEF Ids
<1>2. bookings \in [Ids -> BookingRow \union {None}]
  BY TablesTyped DEF Init
<1>3. TypeOK
  BY <1>2, TablesTyped DEF Init, TypeOK, Roles
<1>4. \A p \in Requests : RequestInv(p)
  BY <1>1, SeedKeysAreOld DEF Init, RequestInv, InFlight, HasResource, HasBooking, HasOrg
<1>5. NoDoubleBooking
  <2>1. \A b \in Ids : Confirmed(b) => b \in SeedIds /\ bookings[b] = InitialBookings[b]
    BY DEF Init, Confirmed
  <2> QED BY <2>1, SeedsAreLegal DEF NoDoubleBooking, Confirmed
<1> QED BY <1>3, <1>4, <1>5 DEF IInv

\* Every step keeps the invariant.
LEMMA StepsKeepIInv == IInv /\ [Next]_vars => IInv'
<1> SUFFICES ASSUME IInv, [Next]_vars PROVE IInv'
  OBVIOUS
<1>1. ASSUME NEW p \in Requests, NEW m \in Payloads, Receive(p, m) PROVE IInv'
  BY <1>1, ReceiveKeepsIInv
<1>2. ASSUME NEW p \in Requests, Step(p) PROVE IInv'
  <2>1. CASE Authorize(p)
    BY <2>1, AuthorizeKeepsIInv
  <2>2. CASE LockResource(p)
    BY <2>2, LockResourceKeepsIInv
  <2>3. CASE LockBooking(p)
    BY <2>3, LockBookingKeepsIInv
  <2>4. CASE LockOrg(p)
    BY <2>4, LockOrgKeepsIInv
  <2>5. CASE CheckTimeRange(p)
    BY <2>5, CheckTimeRangeKeepsIInv
  <2>6. CASE CheckConflicts(p)
    BY <2>6, CheckConflictsKeepsIInv
  <2>7. CASE Commit(p)
    BY <2>7, CreateKeepsIInv, RescheduleKeepsIInv, CancelKeepsIInv, BlackoutKeepsIInv,
       RuleKeepsIInv, ArchiveKeepsIInv, UpdateKeepsIInv, SettingsKeepIInv DEF Commit
  <2> QED BY <1>2, <2>1, <2>2, <2>3, <2>4, <2>5, <2>6, <2>7 DEF Step
<1>3. ASSUME NEW p \in Requests, Crash(p) PROVE IInv'
  BY <1>3, RejectKeepsIInv DEF Crash, Responses
<1>4. CASE EditRole \/ Tick \/ Finished \/ UNCHANGED vars
  BY <1>4, EnvironmentKeepsIInv
<1> QED BY <1>1, <1>2, <1>3, <1>4 DEF Next

\* The inductive invariant holds in every behaviour.
THEOREM LockDiscipline == Spec => []IInv
BY InitIsLegal, StepsKeepIInv, PTL DEF Spec

\* Type correctness: no statement violates a CHECK constraint.
THEOREM TypeCorrect == Spec => []TypeOK
<1>1. IInv => TypeOK
  BY DEF IInv
<1> QED BY <1>1, LockDiscipline, PTL

\* No double booking, for any number of requests and resources.
THEOREM BookingsNeverOverlap == Spec => []NoDoubleBooking
<1>1. IInv => NoDoubleBooking
  BY DEF IInv
<1> QED BY <1>1, LockDiscipline, PTL

-----------------------------------------------------------------------------
(* BookingService never deadlocks, for any number of requests: whoever     *)
(* holds a row is at a statement that needs it, and rows are taken in one  *)
(* order, resource before booking before organization.                     *)

\* Only a request at a statement that holds a row holds it: nothing is
\* left locked by a request that waits to start or has ended.
HoldersInv ==
  \A q \in Requests :
    /\ \A r \in Resources : resourceLock[r] = q => HasResource(q) /\ target[q] = r
    /\ \A b \in Ids : bookingLock[b] = q => HasBooking(q) /\ req[q].booking = b
    /\ \A o \in Orgs : orgLock[o] = q => HasOrg(q) /\ req[q].org = o

\* It is enough to look at the request that takes the step, and at the rows
\* that others gain by it.
LEMMA StepKeepsHolders ==
  ASSUME HoldersInv, NEW p \in Requests,
         \A q \in Requests : q # p =>
           /\ pc'[q] = pc[q] /\ req'[q] = req[q] /\ target'[q] = target[q]
           /\ \A r \in Resources : resourceLock'[r] = q => resourceLock[r] = q
           /\ \A b \in Ids : bookingLock'[b] = q => bookingLock[b] = q
           /\ \A o \in Orgs : orgLock'[o] = q => orgLock[o] = q,
         \A r \in Resources : resourceLock'[r] = p => HasResource(p)' /\ target'[p] = r,
         \A b \in Ids : bookingLock'[b] = p => HasBooking(p)' /\ req'[p].booking = b,
         \A o \in Orgs : orgLock'[o] = p => HasOrg(p)' /\ req'[p].org = o
  PROVE  HoldersInv'
<1> SUFFICES ASSUME NEW q \in Requests, q # p
             PROVE  /\ HasResource(q)' <=> HasResource(q)
                    /\ HasBooking(q)' <=> HasBooking(q)
                    /\ HasOrg(q)' <=> HasOrg(q)
  BY DEF HoldersInv
<1> QED BY DEF HasResource, HasBooking, HasOrg

\* Ending a transaction leaves it without rows.
LEMMA EndKeepsHolders ==
  ASSUME TypeOK, HoldersInv, NEW p \in Requests, NEW response \in Responses,
         End(p, response), UNCHANGED locals
  PROVE  HoldersInv'
<1>1. /\ \A r \in Resources : resourceLock'[r] # p
      /\ \A b \in Ids : bookingLock'[b] # p
      /\ \A o \in Orgs : orgLock'[o] # p
  BY NoneIsNothing, SMT DEF End, TypeOK, Unlocked
<1>2. ASSUME NEW q \in Requests, q # p
      PROVE  /\ pc'[q] = pc[q] /\ req'[q] = req[q] /\ target'[q] = target[q]
             /\ \A r \in Resources : resourceLock'[r] = q => resourceLock[r] = q
             /\ \A b \in Ids : bookingLock'[b] = q => bookingLock[b] = q
             /\ \A o \in Orgs : orgLock'[o] = q => orgLock[o] = q
  <2>1. pc'[q] = pc[q] /\ req'[q] = req[q] /\ target'[q] = target[q]
    BY <1>2 DEF End, Goto, TypeOK, locals
  <2>2. /\ \A r \in Resources : resourceLock'[r] = q => resourceLock[r] = q
        /\ \A b \in Ids : bookingLock'[b] = q => bookingLock[b] = q
        /\ \A o \in Orgs : orgLock'[o] = q => orgLock[o] = q
    BY <1>2, NoneIsNothing, SMT DEF End, TypeOK, Unlocked
  <2> QED BY <2>1, <2>2
<1> QED BY <1>1, <1>2, StepKeepsHolders

\* A rejection ends the transaction.
LEMMA RejectKeepsHolders ==
  ASSUME TypeOK, HoldersInv, NEW p \in Requests, NEW response \in Responses,
         Reject(p, response)
  PROVE  HoldersInv'
BY EndKeepsHolders DEF Reject

\* A step of p that leaves the locks alone, from and to statements at which
\* p holds the same rows.
LEMMA MoveKeepsHolders ==
  ASSUME TypeOK, HoldersInv, NEW p \in Requests, UNCHANGED locks,
         \A q \in Requests : q # p =>
           pc'[q] = pc[q] /\ req'[q] = req[q] /\ target'[q] = target[q],
         HasResource(p) => HasResource(p)' /\ target'[p] = target[p],
         HasBooking(p) => HasBooking(p)' /\ req'[p] = req[p],
         HasOrg(p) => HasOrg(p)' /\ req'[p] = req[p]
  PROVE  HoldersInv'
BY StepKeepsHolders DEF HoldersInv, locks

\* Every statement of a request keeps the holders right.
LEMMA StatementsKeepHolders ==
  ASSUME IInv, HoldersInv, NEW p \in Requests, Step(p)
  PROVE  HoldersInv'
<1> USE DEF IInv
<1>1. CASE Authorize(p)
  <2>1. ~ HasResource(p) /\ ~ HasBooking(p) /\ ~ HasOrg(p)
    BY <1>1 DEF Authorize, HasResource, HasBooking, HasOrg
  <2> QED BY <1>1, <2>1, MoveKeepsHolders DEF Authorize, Goto, TypeOK, locks
<1>2. CASE LockResource(p)
  <2>1. OnLockedRow(p, resources[target[p]]) \in Responses \union {"lock"}
    BY DEF OnLockedRow, OnUpdate, Responses
  <2>2. CASE \E response \in Responses : Reject(p, response)
    BY <2>2, RejectKeepsHolders
  <2>3. CASE /\ RowFree(resourceLock, target[p])
             /\ resourceLock' = [resourceLock EXCEPT ![target[p]] = p]
             /\ Goto(p, AfterResourceLock(req[p].op))
             /\ UNCHANGED <<bookingLock, orgLock, req, target>>
    <3>1. ~ HasResource(p) /\ ~ HasBooking(p) /\ ~ HasOrg(p)
      BY <1>2 DEF LockResource, HasResource, HasBooking, HasOrg
    <3>2. req[p].op # "settings"
      BY <1>2 DEF LockResource, RequestInv, Handled, InFlight
    <3>3. HasResource(p)'
      BY <2>3, <3>2 DEF HasResource, AfterResourceLock, Goto, TypeOK
    <3>4. ASSUME NEW q \in Requests, q # p
          PROVE  /\ pc'[q] = pc[q] /\ req'[q] = req[q] /\ target'[q] = target[q]
                 /\ \A r \in Resources : resourceLock'[r] = q => resourceLock[r] = q
      BY <2>3, <3>4 DEF Goto, TypeOK
    <3>5. \A r \in Resources : resourceLock'[r] = p => r = target[p]
      BY <2>3, <3>1 DEF HoldersInv, TypeOK
    <3> QED BY <2>3, <3>1, <3>3, <3>4, <3>5, StepKeepsHolders DEF HoldersInv
  <2> QED BY <1>2, <2>1, <2>2, <2>3 DEF LockResource, Responses
<1>3. CASE LockBooking(p)
  <2>1. CASE Reject(p, "conflict")
    BY <2>1, RejectKeepsHolders DEF Responses
  <2>2. CASE /\ RowFree(bookingLock, req[p].booking)
             /\ bookingLock' = [bookingLock EXCEPT ![req[p].booking] = p]
             /\ Goto(p, IF req[p].op = "cancel" THEN "commit" ELSE "timeRange")
             /\ UNCHANGED <<resourceLock, orgLock, locals>>
    <3>1. ~ HasBooking(p) /\ ~ HasOrg(p)
      BY <1>3 DEF LockBooking, HasBooking, HasOrg
    <3>2. req[p].op \in BookingOps
      BY <1>3 DEF LockBooking, RequestInv, Handled, InFlight
    <3>3. HasResource(p)' /\ HasBooking(p)'
      BY <2>2, <3>2 DEF HasResource, HasBooking, BookingOps, Goto, TypeOK, locals
    <3>4. ASSUME NEW q \in Requests, q # p
          PROVE  /\ pc'[q] = pc[q] /\ req'[q] = req[q] /\ target'[q] = target[q]
                 /\ \A b \in Ids : bookingLock'[b] = q => bookingLock[b] = q
      BY <2>2, <3>4 DEF Goto, TypeOK, locals
    <3>5. \A b \in Ids : bookingLock'[b] = p => b = req[p].booking
      BY <2>2, <3>1 DEF HoldersInv, TypeOK
    <3> QED BY <2>2, <3>1, <3>3, <3>4, <3>5, StepKeepsHolders DEF HoldersInv, locals
  <2> QED BY <1>3, <2>1, <2>2 DEF LockBooking
<1>4. CASE LockOrg(p)
  <2>1. CASE Reject(p, "ok")
    BY <2>1, RejectKeepsHolders DEF Responses
  <2>2. CASE /\ RowFree(orgLock, req[p].org)
             /\ orgLock' = [orgLock EXCEPT ![req[p].org] = p]
             /\ Goto(p, "commit")
             /\ UNCHANGED <<resourceLock, bookingLock, locals>>
    <3>1. ~ HasResource(p) /\ ~ HasBooking(p) /\ ~ HasOrg(p)
      BY <1>4 DEF LockOrg, HasResource, HasBooking, HasOrg
    <3>2. HasOrg(p)'
      BY <1>4, <2>2 DEF LockOrg, RequestInv, Handled, InFlight, HasOrg, Goto, TypeOK, locals
    <3>3. ASSUME NEW q \in Requests, q # p
          PROVE  /\ pc'[q] = pc[q] /\ req'[q] = req[q] /\ target'[q] = target[q]
                 /\ \A o \in Orgs : orgLock'[o] = q => orgLock[o] = q
      BY <2>2, <3>3 DEF Goto, TypeOK, locals
    <3>4. \A o \in Orgs : orgLock'[o] = p => o = req[p].org
      BY <2>2, <3>1 DEF HoldersInv, TypeOK
    <3> QED BY <2>2, <3>1, <3>2, <3>3, <3>4, StepKeepsHolders DEF HoldersInv, locals
  <2> QED BY <1>4, <2>1, <2>2 DEF LockOrg
<1>5. CASE CheckTimeRange(p)
  <2>1. CASE Reject(p, "invalid")
    BY <2>1, RejectKeepsHolders DEF Responses
  <2>2. CASE Goto(p, "conflicts") /\ UNCHANGED <<locks, locals>>
    BY <1>5, <2>2, MoveKeepsHolders
       DEF CheckTimeRange, Goto, TypeOK, locals, HasResource, HasBooking, HasOrg
  <2> QED BY <1>5, <2>1, <2>2 DEF CheckTimeRange
<1>6. CASE CheckConflicts(p)
  <2>1. CASE Reject(p, "conflict")
    BY <2>1, RejectKeepsHolders DEF Responses
  <2>2. CASE Goto(p, "commit") /\ UNCHANGED <<locks, locals>>
    <3>1. req[p].op # "settings"
      BY <1>6 DEF CheckConflicts, RequestInv, Handled, InFlight, SlotOps
    <3> QED BY <1>6, <2>2, <3>1, MoveKeepsHolders
            DEF CheckConflicts, Goto, TypeOK, locals, HasResource, HasBooking, HasOrg
  <2> QED BY <1>6, <2>1, <2>2 DEF CheckConflicts
<1>7. CASE Commit(p)
  <2>1. End(p, "ok") /\ UNCHANGED locals
    BY <1>7 DEF Commit, create_booking, reschedule_booking, cancel_booking, create_blackout,
       upsert_availability_rule, deactivate_resource, update_resource, update_organization,
       Publish
  <2> QED BY <2>1, EndKeepsHolders DEF Responses
<1> QED BY <1>1, <1>2, <1>3, <1>4, <1>5, <1>6, <1>7 DEF Step

\* Every step keeps the holders right.
LEMMA HoldersStep == IInv /\ HoldersInv /\ [Next]_vars => HoldersInv'
<1> SUFFICES ASSUME IInv, HoldersInv, [Next]_vars PROVE HoldersInv'
  OBVIOUS
<1> USE DEF IInv
<1>1. ASSUME NEW p \in Requests, NEW m \in Payloads, Receive(p, m) PROVE HoldersInv'
  <2>1. ~ HasResource(p) /\ ~ HasBooking(p) /\ ~ HasOrg(p)
    BY <1>1 DEF Receive, HasResource, HasBooking, HasOrg
  <2>2. \A q \in Requests : q # p =>
          pc'[q] = pc[q] /\ req'[q] = req[q] /\ target'[q] = target[q]
    BY <1>1 DEF Receive, Goto, TypeOK
  <2> QED BY <1>1, <2>1, <2>2, MoveKeepsHolders DEF Receive
<1>2. ASSUME NEW p \in Requests, Step(p) PROVE HoldersInv'
  BY <1>2, StatementsKeepHolders
<1>3. ASSUME NEW p \in Requests, Crash(p) PROVE HoldersInv'
  BY <1>3, RejectKeepsHolders DEF Crash, Responses
<1>4. CASE EditRole \/ Tick \/ Finished \/ UNCHANGED vars
  <2>1. UNCHANGED <<resourceLock, bookingLock, orgLock, pc, req, target>>
    BY <1>4 DEF EditRole, Tick, Finished, vars, locks, locals
  <2>2. \A q \in Requests : /\ HasResource(q)' <=> HasResource(q)
                            /\ HasBooking(q)' <=> HasBooking(q)
                            /\ HasOrg(q)' <=> HasOrg(q)
    BY <2>1 DEF HasResource, HasBooking, HasOrg
  <2> QED BY <2>1, <2>2 DEF HoldersInv
<1> QED BY <1>1, <1>2, <1>3, <1>4 DEF Next

\* A request that holds its organization waits for nothing; one that holds a
\* booking, or only a resource, can only wait for rows later in the order.
LEMMA SomeoneIsNotWaiting == IInv /\ HoldersInv => SomeoneProceeds
<1> SUFFICES ASSUME IInv, HoldersInv, NEW p \in Requests, pc[p] \in InFlight
             PROVE  \E q \in Requests : pc[q] \in InFlight /\ ~ Waiting(q)
  BY DEF SomeoneProceeds
<1> USE DEF IInv
<1>1. ASSUME NEW q \in Requests, HasOrg(q) PROVE pc[q] \in InFlight /\ ~ Waiting(q)
  BY <1>1 DEF HasOrg, Waiting, RequestInv, InFlight, OrgFor, SlotOps, BookingOps
<1>2. ASSUME NEW q \in Requests, NEW o \in Orgs, orgLock[o] \notin {None, q}
      PROVE  \E x \in Requests : pc[x] \in InFlight /\ ~ Waiting(x)
  BY <1>1, <1>2 DEF HoldersInv, TypeOK
<1>3. ASSUME NEW q \in Requests, HasBooking(q)
      PROVE  \E x \in Requests : pc[x] \in InFlight /\ ~ Waiting(x)
  <2>1. CASE Waiting(q)
    <3>1. pc[q] = "commit" /\ orgLock[OrgFor(q)] \notin {None, q}
      BY <1>3, <2>1 DEF HasBooking, Waiting
    <3>2. OrgFor(q) \in Orgs
      BY <1>3, <3>1, AtCommit, OrgOfTyped DEF HasBooking, OrgFor, BookingOps
    <3> QED BY <1>2, <3>1, <3>2
  <2>2. CASE ~ Waiting(q)
    BY <1>3, <2>2 DEF HasBooking, InFlight
  <2> QED BY <2>1, <2>2
<1>4. ASSUME NEW q \in Requests, HasResource(q)
      PROVE  \E x \in Requests : pc[x] \in InFlight /\ ~ Waiting(x)
  <2>1. CASE pc[q] = "lockBooking" /\ bookingLock[req[q].booking] # None
    <3>1. req[q].booking \in Ids
      BY <2>1, PayloadFields DEF RequestInv, Handled, InFlight
    <3> QED BY <1>3, <2>1, <3>1 DEF HoldersInv, TypeOK
  <2>2. CASE pc[q] = "commit" /\ orgLock[OrgFor(q)] \notin {None, q}
    <3>1. OrgFor(q) \in Orgs
      BY <1>4, <2>2, AtCommit, PayloadFields, OrgOfTyped
         DEF HasResource, OrgFor, BookingOps, SlotOps, ResourceOps
    <3> QED BY <1>2, <2>2, <3>1
  <2>3. CASE ~ Waiting(q)
    BY <1>4, <2>3 DEF HasResource, InFlight
  <2> QED BY <1>4, <2>1, <2>2, <2>3 DEF HasResource, Waiting
<1>5. CASE Waiting(p)
  <2>1. Handled(p)
    BY DEF RequestInv
  <2>2. CASE pc[p] = "lockResource" /\ resourceLock[target[p]] # None
    <3>1. target[p] \in Resources
      BY <2>1, <2>2 DEF Handled
    <3> QED BY <1>4, <2>2, <3>1 DEF HoldersInv, TypeOK
  <2>3. CASE pc[p] = "lockOrg" /\ orgLock[req[p].org] # None
    <3>1. req[p].org \in Orgs
      BY <2>1, <2>3, PayloadFields DEF Handled
    <3>2. orgLock[req[p].org] # p
      BY <2>3, <3>1 DEF HoldersInv, HasOrg
    <3> QED BY <1>2, <2>3, <3>1, <3>2
  <2>4. CASE HasResource(p)
    BY <1>4, <2>4
  <2>5. CASE HasOrg(p)
    BY <1>1, <2>5
  <2> QED BY <1>5, <2>2, <2>3, <2>4, <2>5 DEF Waiting, HasResource, HasOrg
<1>6. CASE ~ Waiting(p)
  BY <1>6
<1> QED BY <1>5, <1>6

\* Deadlock freedom for any number of requests: the transactions in flight
\* never all wait for each other's rows.
THEOREM NoDeadlock == Spec => []SomeoneProceeds
<1>1. Init => HoldersInv
  BY NoneIsNothing DEF Init, HoldersInv
<1>2. Spec => []HoldersInv
  BY <1>1, HoldersStep, LockDiscipline, PTL DEF Spec
<1> QED BY <1>2, SomeoneIsNotWaiting, LockDiscipline, PTL

-----------------------------------------------------------------------------
(* The promise: every commit of a booking or a blackout is one step of     *)
(* Calendar, everything else a stutter.                                    *)

\* The reservation that booking b makes.
ReservationOf(b) == [id |-> b, resource |-> bookings[b].resource,
                     start |-> bookings[b].start, end |-> bookings[b].end]

\* A reservation is held exactly by a confirmed booking.
LEMMA HeldByConfirmed ==
  /\ \A b \in Ids : Confirmed(b) => ReservationOf(b) \in held
  /\ \A h \in held : /\ h.id \in Ids
                     /\ Confirmed(h.id)
                     /\ h = ReservationOf(h.id)
BY DEF held, ReservationOf

\* The abstract state has its type.
LEMMA HeldAreReservations ==
  ASSUME TypeOK
  PROVE  held \in SUBSET Promise!Reservation /\ released \in SUBSET Ids
<1>1. ASSUME NEW b \in Ids, Confirmed(b) PROVE ReservationOf(b) \in Promise!Reservation
  BY <1>1 DEF TypeOK, Confirmed, BookingRow, ReservationOf, Promise!Reservation
<1> QED BY <1>1, HeldByConfirmed DEF released

\* A step that changes no booking and no blackout is a stutter of the promise.
LEMMA StutterOfThePromise ==
  ASSUME UNCHANGED <<bookings, blackouts>>
  PROVE  UNCHANGED Promise!calendarVars
BY DEF Promise!calendarVars, held, released, Confirmed

\* The stored calendar is one the promise may start from.
LEMMA InitImplementsPromise == Init => Promise!Init
<1> SUFFICES ASSUME Init PROVE Promise!Init
  OBVIOUS
<1>1. IInv
  BY InitIsLegal
<1>2. Promise!TypeOK
  BY <1>1, HeldAreReservations DEF Init, IInv, Promise!TypeOK
<1>3. ASSUME NEW g \in held, NEW h \in held, g.id = h.id \/ Promise!Clash(g, h)
      PROVE  g = h
  <2>1. /\ g.id \in Ids /\ Confirmed(g.id) /\ g = ReservationOf(g.id)
        /\ h.id \in Ids /\ Confirmed(h.id) /\ h = ReservationOf(h.id)
    BY HeldByConfirmed
  <2>2. /\ g.resource = bookings[g.id].resource
        /\ g.start = bookings[g.id].start /\ g.end = bookings[g.id].end
        /\ h.resource = bookings[h.id].resource
        /\ h.start = bookings[h.id].start /\ h.end = bookings[h.id].end
    BY <2>1 DEF ReservationOf
  <2>3. CASE g.id = h.id
    BY <2>1, <2>3
  <2>4. CASE Promise!Clash(g, h) /\ g.id # h.id
    BY <1>1, <2>1, <2>2, <2>4
       DEF IInv, NoDoubleBooking, Promise!Clash, Promise!Overlaps, Overlaps
  <2> QED BY <1>3, <2>3, <2>4
<1>4. \A h \in held : h.id \notin released
  BY HeldByConfirmed DEF released
<1> QED BY <1>2, <1>3, <1>4 DEF Promise!Init, Promise!NoDoubleBooking, Init

\* An interval without conflicts is free on the abstract calendar.
LEMMA NoConflictsMeansFree ==
  ASSUME NEW c, NEW X, NEW S, S \subseteq {h \in held : h.id \notin X},
         NoConflicts(c.resource, c.start, c.end, X)
  PROVE  Promise!Free(c, S)
<1>1. ASSUME NEW h \in S PROVE ~ Promise!Clash(c, h)
  <2>1. h.id \in Ids \ X /\ Confirmed(h.id) /\ h = ReservationOf(h.id)
    BY <1>1, HeldByConfirmed
  <2>2. /\ h.resource = bookings[h.id].resource
        /\ h.start = bookings[h.id].start /\ h.end = bookings[h.id].end
    BY <2>1 DEF ReservationOf
  <2> QED BY <2>1, <2>2 DEF NoConflicts, Promise!Clash, Promise!Overlaps, Overlaps
<1>2. ASSUME NEW x \in blackouts PROVE ~ Promise!Clash(c, x)
  BY <1>2 DEF NoConflicts, Promise!Clash, Promise!Overlaps, Overlaps
<1> QED BY <1>1, <1>2 DEF Promise!Free

\* What one changed row does to the abstract calendar.
LEMMA HeldAfterwards ==
  ASSUME TypeOK, NEW b \in Ids, NEW x \in BookingRow,
         bookings' = [bookings EXCEPT ![b] = x]
  PROVE  /\ held' = {h \in held : h.id # b} \union
                      (IF x.status = "confirmed"
                         THEN {[id |-> b, resource |-> x.resource,
                                start |-> x.start, end |-> x.end]}
                         ELSE {})
         /\ released' = (released \ {b}) \union
                          (IF x.status = "confirmed" THEN {} ELSE {b})
<1>1. bookings'[b] = x /\ \A a \in Ids : a # b => bookings'[a] = bookings[a]
  BY DEF TypeOK
<1>2. x # None
  BY NoneIsNothing
<1>3. Confirmed(b)' <=> x.status = "confirmed"
  BY <1>1, <1>2 DEF Confirmed
<1>4. \A a \in Ids : a # b => (Confirmed(a)' <=> Confirmed(a))
  BY <1>1 DEF Confirmed
<1>5. released' = (released \ {b}) \union (IF x.status = "confirmed" THEN {} ELSE {b})
  BY <1>1, <1>2, <1>3, <1>4 DEF released
<1>6. \A a \in Ids : a # b => ReservationOf(a)' = ReservationOf(a)
  BY <1>1 DEF ReservationOf
<1>7. ReservationOf(b)' = [id |-> b, resource |-> x.resource,
                           start |-> x.start, end |-> x.end]
  BY <1>1 DEF ReservationOf
<1>8. held = {ReservationOf(a) : a \in {y \in Ids : Confirmed(y)}}
  BY DEF held, ReservationOf
<1>9. held' = {ReservationOf(a)' : a \in {y \in Ids : Confirmed(y)'}}
  BY DEF held, ReservationOf
<1>10. \A a \in Ids : ReservationOf(a).id = a
  BY DEF ReservationOf
<1> QED BY <1>3, <1>4, <1>5, <1>6, <1>7, <1>8, <1>9, <1>10

-----------------------------------------------------------------------------
(* Commits as steps of the promise.                                        *)

\* create_booking commits as Book.
LEMMA CreateIsBook ==
  ASSUME IInv, NEW p \in Requests, create_booking(p)
  PROVE  \E c \in Promise!Reservation : Promise!Book(c)
<1> DEFINE x == [resource |-> target[p], owner |-> req[p].actor, status |-> "confirmed",
                 start |-> req[p].start, end |-> req[p].end]
           c == [id |-> p, resource |-> target[p],
                 start |-> req[p].start, end |-> req[p].end]
<1>1. /\ pc[p] = "commit" /\ req[p].op = "create"
      /\ bookings' = [bookings EXCEPT ![p] = x]
      /\ blackouts' = blackouts
  BY DEF create_booking, Committing
<1>2. /\ req[p] \in Payloads /\ req[p].start < req[p].end
      /\ target[p] \in Resources /\ bookings[p] = None
      /\ NoConflicts(target[p], req[p].start, req[p].end, {})
  BY <1>1, AtCommit DEF WellFormed, SlotOps, Excluded
<1>3. p \in Ids
  BY DEF Ids
<1>4. req[p].start \in Times /\ req[p].end \in Times /\ req[p].actor \in Users
  BY <1>1, <1>2, PayloadFields DEF SlotOps
<1>5. x \in BookingRow
  BY <1>2, <1>4 DEF BookingRow
<1>6. c \in Promise!Reservation
  BY <1>2, <1>3, <1>4 DEF Promise!Reservation
<1>7. \A h \in held : h.id # p
  BY <1>2, HeldByConfirmed DEF Confirmed
<1>8. p \notin released
  BY <1>2 DEF released
<1>9. Promise!Free(c, held)
  <2>1. held \subseteq {h \in held : h.id \notin {}}
    OBVIOUS
  <2>2. NoConflicts(c.resource, c.start, c.end, {})
    BY <1>2
  <2> HIDE DEF c
  <2> QED BY <2>1, <2>2, NoConflictsMeansFree
<1>10. held' = held \union {c} /\ released' = released
  <2>1. /\ x.status = "confirmed" /\ x.resource = c.resource
        /\ x.start = c.start /\ x.end = c.end
        /\ c = [id |-> p, resource |-> x.resource, start |-> x.start, end |-> x.end]
    OBVIOUS
  <2> HIDE DEF x, c
  <2>2. held' = {h \in held : h.id # p} \union {c} /\ released' = released \ {p}
    BY <1>1, <1>3, <1>5, <2>1, HeldAfterwards DEF IInv
  <2>3. {h \in held : h.id # p} = held /\ released \ {p} = released
    BY <1>7, <1>8
  <2> QED BY <2>2, <2>3
<1>11. Promise!Book(c)
  BY <1>1, <1>7, <1>8, <1>9, <1>10 DEF Promise!Book
<1> QED BY <1>6, <1>11

\* reschedule_booking commits as Move.
LEMMA RescheduleIsMove ==
  ASSUME IInv, NEW p \in Requests, reschedule_booking(p)
  PROVE  \E h \in held, start, end \in Times : Promise!Move(h, start, end)
<1> DEFINE b == req[p].booking
           x == [bookings[b] EXCEPT !.start = req[p].start, !.end = req[p].end]
           h == ReservationOf(b)
           c == [id |-> h.id, resource |-> h.resource,
                 start |-> req[p].start, end |-> req[p].end]
<1>1. /\ pc[p] = "commit" /\ req[p].op = "reschedule"
      /\ blackouts' = blackouts
  BY DEF reschedule_booking, Committing
<1>2. /\ req[p] \in Payloads /\ req[p].start < req[p].end
      /\ NoConflicts(target[p], req[p].start, req[p].end, {b})
      /\ b \in Ids
      /\ bookings[b] \in BookingRow
      /\ bookings[b].resource = target[p]
      /\ Confirmed(b)
  BY <1>1, AtCommit DEF WellFormed, SlotOps, BookingOps, Excluded
<1>3. req[p].start \in Times /\ req[p].end \in Times
  BY <1>1, <1>2, PayloadFields DEF SlotOps
<1>4. bookings' = [bookings EXCEPT ![b] = x]
  BY <1>2 DEF reschedule_booking, IInv, TypeOK, BookingRow
<1>5. /\ x \in BookingRow /\ x.status = "confirmed" /\ x.resource = target[p]
      /\ x.start = req[p].start /\ x.end = req[p].end
  BY <1>2, <1>3 DEF BookingRow, Confirmed
<1>6. h \in held /\ h.id = b
  BY <1>2, HeldByConfirmed DEF ReservationOf
<1>7. c = [id |-> b, resource |-> x.resource, start |-> x.start, end |-> x.end]
      /\ c.resource = target[p] /\ c.start = req[p].start /\ c.end = req[p].end
  <2>1. h.id = b /\ h.resource = target[p]
    BY <1>2 DEF ReservationOf
  <2> QED BY <1>5, <2>1
<1>8. held \ {h} = {g \in held : g.id # b}
  BY <1>6, HeldByConfirmed
<1> HIDE DEF x, h
<1>9. Promise!Free(c, held \ {h})
  <2>1. held \ {h} \subseteq {g \in held : g.id \notin {b}}
    BY <1>8
  <2>2. NoConflicts(c.resource, c.start, c.end, {b})
    BY <1>2, <1>7
  <2> HIDE DEF c, b
  <2> QED BY <2>1, <2>2, NoConflictsMeansFree
<1>10. held' = (held \ {h}) \union {c} /\ released' = released
  <2>1. b \notin released
    BY <1>2 DEF released
  <2> HIDE DEF c, b
  <2>2. held' = {g \in held : g.id # b} \union {c} /\ released' = released \ {b}
    BY <1>2, <1>4, <1>5, <1>7, HeldAfterwards DEF IInv
  <2> QED BY <1>8, <2>1, <2>2
<1>11. Promise!Move(h, req[p].start, req[p].end)
  BY <1>1, <1>2, <1>9, <1>10 DEF Promise!Move
<1> QED BY <1>3, <1>6, <1>11

\* cancel_booking commits as Cancel.
LEMMA CancelIsCancel ==
  ASSUME IInv, NEW p \in Requests, cancel_booking(p)
  PROVE  \E h \in held : Promise!Cancel(h)
<1> DEFINE b == req[p].booking
           x == [bookings[b] EXCEPT !.status = "cancelled"]
           h == ReservationOf(b)
<1>1. pc[p] = "commit" /\ req[p].op = "cancel" /\ blackouts' = blackouts
  BY DEF cancel_booking, Committing
<1>2. b \in Ids /\ bookings[b] \in BookingRow /\ Confirmed(b)
  BY <1>1, AtCommit DEF BookingOps
<1>3. bookings' = [bookings EXCEPT ![b] = x]
  BY <1>2 DEF cancel_booking, IInv, TypeOK, BookingRow
<1>4. x \in BookingRow /\ x.status = "cancelled"
  BY <1>2 DEF BookingRow
<1>5. h \in held /\ h.id = b
  BY <1>2, HeldByConfirmed DEF ReservationOf
<1>6. held \ {h} = {g \in held : g.id # b}
  BY <1>5, HeldByConfirmed
<1>7. held' = held \ {h} /\ released' = released \union {h.id}
  <2> HIDE DEF x, b, h
  <2> QED BY <1>2, <1>3, <1>4, <1>5, <1>6, HeldAfterwards DEF IInv
<1>8. Promise!Cancel(h)
  BY <1>1, <1>7 DEF Promise!Cancel
<1> QED BY <1>5, <1>8

\* create_blackout commits as Close.
LEMMA BlackoutIsClose ==
  ASSUME IInv, NEW p \in Requests, create_blackout(p)
  PROVE  \E b \in Promise!Closure : Promise!Close(b)
<1> DEFINE b == [resource |-> target[p], start |-> req[p].start, end |-> req[p].end]
<1>1. /\ pc[p] = "commit" /\ req[p].op = "blackout"
      /\ blackouts' = blackouts \union {b} /\ bookings' = bookings
  BY DEF create_blackout, Committing
<1>2. req[p] \in Payloads /\ req[p].start < req[p].end /\ target[p] \in Resources
  BY <1>1, AtCommit DEF WellFormed, SlotOps
<1>3. b \in Promise!Closure
  BY <1>1, <1>2, PayloadFields DEF Promise!Closure
<1>4. UNCHANGED <<held, released>>
  BY <1>1 DEF held, released, Confirmed
<1>5. Promise!Close(b)
  BY <1>1, <1>4 DEF Promise!Close
<1> QED BY <1>3, <1>5

\* Every step is a step of the promise or a stutter.
LEMMA StepsImplementPromise ==
  IInv /\ [Next]_vars => [Promise!Next]_(Promise!calendarVars)
<1> SUFFICES ASSUME IInv, [Next]_vars PROVE Promise!Next \/ UNCHANGED Promise!calendarVars
  OBVIOUS
<1>1. ASSUME NEW p \in Requests, Commit(p)
      PROVE  Promise!Next \/ UNCHANGED Promise!calendarVars
  <2>1. CASE create_booking(p)
    BY <2>1, CreateIsBook DEF Promise!Next
  <2>2. CASE reschedule_booking(p)
    BY <2>2, RescheduleIsMove DEF Promise!Next
  <2>3. CASE cancel_booking(p)
    BY <2>3, CancelIsCancel DEF Promise!Next
  <2>4. CASE create_blackout(p)
    BY <2>4, BlackoutIsClose DEF Promise!Next
  <2>5. CASE \/ upsert_availability_rule(p) \/ deactivate_resource(p)
             \/ update_resource(p) \/ update_organization(p)
    <3>1. UNCHANGED <<bookings, blackouts>>
      BY <2>5 DEF upsert_availability_rule, deactivate_resource, update_resource,
                  update_organization
    <3> QED BY <3>1, StutterOfThePromise
  <2> QED BY <1>1, <2>1, <2>2, <2>3, <2>4, <2>5 DEF Commit
<1>2. ASSUME NEW p \in Requests,
             \/ \E m \in Payloads : Receive(p, m)
             \/ Authorize(p) \/ LockResource(p) \/ LockBooking(p) \/ LockOrg(p)
             \/ CheckTimeRange(p) \/ CheckConflicts(p) \/ Crash(p)
      PROVE  UNCHANGED <<bookings, blackouts>>
  BY <1>2 DEF Receive, Authorize, LockResource, LockBooking, LockOrg, CheckTimeRange,
              CheckConflicts, Crash, Reject, tables
<1>3. CASE EditRole \/ Tick \/ Finished \/ UNCHANGED vars
  <2>1. UNCHANGED <<bookings, blackouts>>
    BY <1>3 DEF EditRole, Tick, Finished, vars, tables
  <2> QED BY <2>1, StutterOfThePromise
<1> QED BY <1>1, <1>2, <1>3, StutterOfThePromise DEF Next, Step

\* The services keep the promise: for any number of requests, resources and
\* times, they behave as a calendar on which each request acts in one step.
THEOREM ServiceKeepsPromise == Spec => ImplementsCalendar
<1>1. Spec => Promise!Init /\ [][Promise!Next]_(Promise!calendarVars)
  BY InitImplementsPromise, StepsImplementPromise, LockDiscipline, PTL DEF Spec
<1> QED BY <1>1, PTL DEF ImplementsCalendar, Promise!Spec
=============================================================================
