------------------------ MODULE BookingHistoryProofs ------------------------
(***************************************************************************)
(* Theorems of BookingService about what its steps do: history is kept, an *)
(* interval suits the resource when its transaction commits, and nobody    *)
(* acts beyond the role read.  All rest on the lock discipline of          *)
(* BookingProofs.                                                          *)
(***************************************************************************)
EXTENDS BookingProofs, FiniteSetTheorems

\* What a request holds changes only by a step of its own.
LEMMA OwnStepsOnly ==
  ASSUME IInv, [Next]_vars, NEW q \in Requests,
         ~ \E m \in Payloads : Receive(q, m), ~ Step(q), ~ Crash(q)
  PROVE  /\ pc'[q] = pc[q] /\ req'[q] = req[q] /\ target'[q] = target[q]
         /\ granted'[q] = granted[q] /\ copy'[q] = copy[q]
<1> USE DEF IInv, TypeOK
<1>1. ASSUME NEW p \in Requests, NEW m \in Payloads, Receive(p, m), p # q
      PROVE  /\ pc'[q] = pc[q] /\ req'[q] = req[q] /\ target'[q] = target[q]
             /\ granted'[q] = granted[q] /\ copy'[q] = copy[q]
  BY <1>1 DEF Receive, Goto
<1>2. ASSUME NEW p \in Requests, p # q, NEW response, Reject(p, response)
      PROVE  /\ pc'[q] = pc[q] /\ req'[q] = req[q] /\ target'[q] = target[q]
             /\ granted'[q] = granted[q] /\ copy'[q] = copy[q]
  BY <1>2 DEF Reject, End, Goto, locals
<1>3. ASSUME NEW p \in Requests, p # q, Step(p)
      PROVE  /\ pc'[q] = pc[q] /\ req'[q] = req[q] /\ target'[q] = target[q]
             /\ granted'[q] = granted[q] /\ copy'[q] = copy[q]
  <2>1. CASE Authorize(p)
    BY <1>3, <2>1 DEF Authorize, Goto
  <2>2. CASE LockResource(p)
    BY <1>2, <1>3, <2>2 DEF LockResource, Goto
  <2>3. CASE LockBooking(p)
    BY <1>2, <1>3, <2>3 DEF LockBooking, Goto, locals
  <2>4. CASE LockOrg(p)
    BY <1>2, <1>3, <2>4 DEF LockOrg, Goto, locals
  <2>5. CASE CheckTimeRange(p)
    BY <1>2, <1>3, <2>5 DEF CheckTimeRange, Goto, locals
  <2>6. CASE CheckConflicts(p)
    BY <1>2, <1>3, <2>6 DEF CheckConflicts, Goto, locals
  <2>7. CASE Commit(p)
    <3>1. UNCHANGED locals /\ Goto(p, "ok")
      BY <2>7 DEF Commit, create_booking, reschedule_booking, cancel_booking,
         create_blackout, upsert_availability_rule, deactivate_resource,
         update_resource, update_organization, Publish, End
    <3> QED BY <1>3, <3>1 DEF Goto, locals
  <2> QED BY <1>3, <2>1, <2>2, <2>3, <2>4, <2>5, <2>6, <2>7 DEF Step
<1>4. ASSUME NEW p \in Requests, p # q, Crash(p)
      PROVE  /\ pc'[q] = pc[q] /\ req'[q] = req[q] /\ target'[q] = target[q]
             /\ granted'[q] = granted[q] /\ copy'[q] = copy[q]
  BY <1>2, <1>4 DEF Crash
<1>5. CASE EditRole \/ Tick \/ Finished \/ UNCHANGED vars
  BY <1>5 DEF EditRole, Tick, Finished, vars, locals
<1> QED BY <1>1, <1>3, <1>4, <1>5 DEF Next

\* Only commits write to the tables.
LEMMA OnlyCommitsWrite ==
  ASSUME IInv, [Next]_vars, ~ \E p \in Requests : Commit(p)
  PROVE  UNCHANGED <<limit, resources, rules, bookings, blackouts, audit>>
<1>1. ASSUME NEW p \in Requests, NEW response, Reject(p, response) PROVE UNCHANGED tables
  BY <1>1 DEF Reject
<1>2. ASSUME NEW p \in Requests, Step(p), ~ Commit(p) PROVE UNCHANGED tables
  BY <1>1, <1>2 DEF Step, Authorize, LockResource, LockBooking, LockOrg,
     CheckTimeRange, CheckConflicts
<1>3. ASSUME NEW p \in Requests, NEW m \in Payloads, Receive(p, m) PROVE UNCHANGED tables
  BY <1>3 DEF Receive
<1>4. CASE EditRole \/ Tick \/ Finished \/ UNCHANGED vars
  BY <1>4 DEF EditRole, Tick, Finished, vars, tables
<1> QED BY <1>1, <1>2, <1>3, <1>4 DEF Next, Crash, tables

-----------------------------------------------------------------------------
(* History.                                                                *)

\* The row a create inserts.
LEMMA CreatedRow ==
  ASSUME IInv, NEW p \in Requests, create_booking(p)
  PROVE  /\ bookings'[p] # None
         /\ bookings'[p].status = "confirmed"
         /\ bookings'[p].owner = req[p].actor
         /\ \A b \in Ids : b # p => bookings'[b] = bookings[b]
<1> USE DEF IInv, TypeOK
<1>1. pc[p] = "commit" /\ req[p].op = "create" /\ p \in Ids
  BY DEF create_booking, Committing, Ids
<1>2. bookings' = [bookings EXCEPT ![p] =
        [resource |-> target[p], owner |-> req[p].actor, status |-> "confirmed",
         start |-> req[p].start, end |-> req[p].end]]
  BY DEF create_booking
<1>3. /\ target[p] \in Resources /\ req[p] \in Payloads
      /\ req[p].start < req[p].end
  BY <1>1, AtCommit DEF WellFormed, SlotOps
<1>4. req[p].actor \in Users /\ req[p].start \in Times /\ req[p].end \in Times
  BY <1>1, <1>3, PayloadFields DEF SlotOps
<1>5. bookings'[p] \in BookingRow
  BY <1>1, <1>2, <1>3, <1>4 DEF BookingRow
<1> QED BY <1>1, <1>2, <1>5, NoneIsNothing

\* What a commit does to a booking that exists.
LEMMA CommitsKeepHistory ==
  ASSUME IInv, NEW p \in Requests, Commit(p), NEW b \in Ids, bookings[b] # None
  PROVE  /\ bookings'[b] # None
         /\ bookings'[b].resource = bookings[b].resource
         /\ bookings'[b].owner = bookings[b].owner
         /\ ~ Confirmed(b) => bookings'[b] = bookings[b]
<1> USE DEF IInv, TypeOK
<1>1. pc[p] = "commit"
  BY DEF Commit, Committing, create_booking, reschedule_booking, cancel_booking,
     create_blackout, upsert_availability_rule, deactivate_resource,
     update_resource, update_organization
<1>2. bookings[b] \in BookingRow
  OBVIOUS
<1>3. CASE create_booking(p)
  <2>1. bookings[p] = None
    BY <1>1 DEF RequestInv, InFlight
  <2> QED BY <1>3, <2>1 DEF create_booking
<1>4. CASE reschedule_booking(p) \/ cancel_booking(p)
  <2>1. req[p].booking \in Ids /\ Confirmed(req[p].booking)
    BY <1>1, <1>4, HoldersNameRows
       DEF RequestInv, HasBooking, BookingOps, reschedule_booking, cancel_booking, Committing
  <2>2. CASE b = req[p].booking
    <3>1. CASE reschedule_booking(p)
      <4>1. bookings'[b] = [bookings[b] EXCEPT !.start = req[p].start, !.end = req[p].end]
        BY <2>1, <2>2, <3>1 DEF reschedule_booking
      <4>2. /\ req[p].start \in Times /\ req[p].end \in Times
            /\ req[p].start < req[p].end
        BY <1>1, <3>1, AtCommit, PayloadFields
           DEF reschedule_booking, Committing, WellFormed, SlotOps
      <4>3. bookings'[b] \in BookingRow
        BY <1>2, <4>1, <4>2 DEF BookingRow
      <4> QED BY <1>2, <2>1, <2>2, <4>1, <4>3, NoneIsNothing DEF BookingRow
    <3>2. CASE cancel_booking(p)
      <4>1. bookings'[b] = [bookings[b] EXCEPT !.status = "cancelled"]
        BY <2>1, <2>2, <3>2 DEF cancel_booking
      <4>2. bookings'[b] \in BookingRow
        BY <1>2, <4>1 DEF BookingRow
      <4> QED BY <1>2, <2>1, <2>2, <4>1, <4>2, NoneIsNothing DEF BookingRow
    <3> QED BY <1>4, <3>1, <3>2
  <2>3. CASE b # req[p].booking
    BY <1>4, <2>1, <2>3 DEF reschedule_booking, cancel_booking
  <2> QED BY <2>2, <2>3
<1>5. CASE bookings' = bookings
  BY <1>5
<1> QED BY <1>3, <1>4, <1>5 DEF Commit, create_blackout, upsert_availability_rule,
        deactivate_resource, update_resource, update_organization

\* Bookings are never deleted, never change hands, and what is cancelled
\* stays as it is.
THEOREM HistoryStands == Spec => HistoryIsKept
<1>1. IInv /\ [Next]_vars =>
        [\A b \in Ids : bookings[b] # None =>
           /\ bookings'[b] # None
           /\ bookings'[b].resource = bookings[b].resource
           /\ bookings'[b].owner = bookings[b].owner
           /\ ~ Confirmed(b) => bookings'[b] = bookings[b]]_vars
  BY CommitsKeepHistory, OnlyCommitsWrite
<1> QED BY <1>1, LockDiscipline, PTL DEF Spec, HistoryIsKept

-----------------------------------------------------------------------------
(* Intervals.                                                              *)

\* What a request has read of its resource under the lock is still so.
FitInv(p) ==
  /\ HasResource(p) => copy[p] = resources[target[p]]
  /\ HasResource(p) /\ req[p].op \in {"create", "archive"} => copy[p].active
  /\ pc[p] \in {"conflicts", "commit"} /\ req[p].op \in SlotOps =>
       InWorkingHours(target[p], copy[p].zone, req[p].start, req[p].end)

FInv == \A p \in Requests : FitInv(p)

\* A commit leaves alone what other requests have locked.
LEMMA CommitsKeepLockedRows ==
  ASSUME IInv, NEW p \in Requests, Commit(p),
         NEW q \in Requests, q # p, HasResource(q)
  PROVE  /\ resources'[target[q]] = resources[target[q]]
         /\ rules'[target[q]] = rules[target[q]]
<1> USE DEF IInv, TypeOK
<1>1. target[q] \in Resources /\ resourceLock[target[q]] = q
  BY HoldersNameRows DEF RequestInv
<1>2. pc[p] = "commit"
  BY DEF Commit, Committing, create_booking, reschedule_booking, cancel_booking,
     create_blackout, upsert_availability_rule, deactivate_resource,
     update_resource, update_organization
<1>3. req[p].op # "settings" => target[p] \in Resources /\ target[p] # target[q]
  BY <1>1, <1>2, AtCommit
<1>4. CASE update_organization(p)
  BY <1>4 DEF update_organization
<1>5. CASE upsert_availability_rule(p)
  <2>1. target[p] # target[q]
    BY <1>3, <1>5 DEF upsert_availability_rule, Committing
  <2> QED BY <1>1, <1>5, <2>1
          DEF upsert_availability_rule, bump_availability_version, RuleTable
<1>6. CASE deactivate_resource(p) \/ update_resource(p)
  <2>1. target[p] # target[q]
    BY <1>3, <1>6 DEF deactivate_resource, update_resource, Committing
  <2> QED BY <1>1, <1>6, <2>1 DEF deactivate_resource, update_resource
<1>7. CASE create_booking(p) \/ reschedule_booking(p) \/ cancel_booking(p) \/ create_blackout(p)
  <2>1. target[p] # target[q]
    BY <1>3, <1>7 DEF create_booking, reschedule_booking, cancel_booking,
       create_blackout, Committing
  <2> QED BY <1>1, <1>7, <2>1 DEF create_booking, reschedule_booking, cancel_booking,
          create_blackout, bump_availability_version
<1> QED BY <1>4, <1>5, <1>6, <1>7 DEF Commit

\* A request keeps its part while it waits, as long as its rows stay.
LEMMA FrameKeepsFit ==
  ASSUME NEW q \in Requests, FitInv(q),
         pc'[q] = pc[q], req'[q] = req[q], target'[q] = target[q], copy'[q] = copy[q],
         HasResource(q) => /\ resources'[target[q]] = resources[target[q]]
                           /\ rules'[target[q]] = rules[target[q]]
  PROVE  FitInv(q)'
<1>1. HasResource(q)' <=> HasResource(q)
  BY DEF HasResource
<1>2. pc[q] \in {"conflicts", "commit"} /\ req[q].op \in SlotOps => HasResource(q)
  BY DEF HasResource, SlotOps
<1> QED BY <1>1, <1>2 DEF FitInv, InWorkingHours

\* What a request reads and checks under its lock suits it at once.
LEMMA OwnStepKeepsFit ==
  ASSUME IInv, FInv, NEW q \in Requests,
         (\E m \in Payloads : Receive(q, m)) \/ Step(q) \/ Crash(q)
  PROVE  FitInv(q)'
<1> USE DEF IInv, TypeOK
<1>1. ASSUME NEW label \in Responses \union {"authorize", "lockResource", "lockOrg"},
             pc' = [pc EXCEPT ![q] = label]
      PROVE  FitInv(q)'
  BY <1>1 DEF FitInv, HasResource, Responses
<1>2. ASSUME NEW response \in Responses, Reject(q, response) PROVE FitInv(q)'
  BY <1>1, <1>2 DEF Reject, End, Goto
<1>3. CASE (\E m \in Payloads : Receive(q, m)) \/ Authorize(q)
  <2>1. \E label \in Responses \union {"authorize", "lockResource", "lockOrg"} :
          pc' = [pc EXCEPT ![q] = label]
    BY <1>3 DEF Receive, Authorize, Goto, Responses
  <2> QED BY <1>1, <2>1
<1>4. CASE LockResource(q)
  <2>1. CASE Reject(q, "notFound")
    BY <1>2, <2>1 DEF Responses
  <2>2. CASE Reject(q, OnLockedRow(q, resources[target[q]]))
             /\ OnLockedRow(q, resources[target[q]]) # "lock"
    <3>1. OnLockedRow(q, resources[target[q]]) \in Responses
      BY <2>2 DEF OnLockedRow, OnUpdate, Responses
    <3> QED BY <1>2, <2>2, <3>1
  <2>3. CASE /\ OnLockedRow(q, resources[target[q]]) = "lock"
             /\ copy' = [copy EXCEPT ![q] = resources[target[q]]]
             /\ Goto(q, AfterResourceLock(req[q].op))
             /\ UNCHANGED <<tables, req, target>>
    <3>1. copy'[q] = resources[target[q]]
      BY <2>3
    <3>2. req[q].op \in {"create", "archive"} => resources[target[q]].active
      BY <2>3 DEF OnLockedRow, OnUpdate
    <3>3. pc'[q] \notin {"conflicts"} /\ (pc'[q] = "commit" => req[q].op \notin SlotOps)
      BY <2>3 DEF Goto, AfterResourceLock, SlotOps, BookingOps
    <3> QED BY <2>3, <3>1, <3>2, <3>3 DEF FitInv, tables
  <2> QED BY <1>4, <2>1, <2>2, <2>3 DEF LockResource
<1>5. CASE LockBooking(q)
  <2>1. CASE Reject(q, "conflict")
    BY <1>2, <2>1 DEF Responses
  <2>2. CASE /\ Goto(q, IF req[q].op = "cancel" THEN "commit" ELSE "timeRange")
             /\ UNCHANGED <<tables, locals>>
    <3>1. HasResource(q) /\ FitInv(q)
      BY <1>5 DEF LockBooking, HasResource, FInv
    <3>2. pc'[q] \notin {"conflicts"} /\ (pc'[q] = "commit" => req[q].op \notin SlotOps)
      BY <2>2 DEF Goto, SlotOps
    <3> QED BY <2>2, <3>1, <3>2 DEF FitInv, tables, locals
  <2> QED BY <1>5, <2>1, <2>2 DEF LockBooking
<1>6. CASE CheckTimeRange(q)
  <2>1. CASE Reject(q, "invalid")
    BY <1>2, <2>1 DEF Responses
  <2>2. CASE /\ ValidTimeRange(target[q], copy[q].zone, req[q].start, req[q].end)
             /\ Goto(q, "conflicts") /\ UNCHANGED <<tables, locals>>
    <3>1. HasResource(q) /\ FitInv(q)
      BY <1>6 DEF CheckTimeRange, HasResource, FInv
    <3>2. InWorkingHours(target[q], copy[q].zone, req[q].start, req[q].end)'
      BY <2>2 DEF ValidTimeRange, InWorkingHours, tables, locals
    <3> QED BY <2>2, <3>1, <3>2 DEF FitInv, tables, locals
  <2> QED BY <1>6, <2>1, <2>2 DEF CheckTimeRange
<1>7. CASE CheckConflicts(q)
  <2>1. CASE Reject(q, "conflict")
    BY <1>2, <2>1 DEF Responses
  <2>2. CASE Goto(q, "commit") /\ UNCHANGED <<tables, locals>>
    <3>1. HasResource(q) /\ FitInv(q) /\ pc[q] = "conflicts"
      BY <1>7 DEF CheckConflicts, HasResource, FInv
    <3>2. InWorkingHours(target[q], copy[q].zone, req[q].start, req[q].end)
            <=> InWorkingHours(target[q], copy[q].zone, req[q].start, req[q].end)'
      BY <2>2 DEF InWorkingHours, tables, locals
    <3> QED BY <2>2, <3>1, <3>2 DEF FitInv, tables, locals
  <2> QED BY <1>7, <2>1, <2>2 DEF CheckConflicts
<1>8. CASE LockOrg(q)
  <2>1. CASE Reject(q, "ok")
    BY <1>2, <2>1 DEF Responses
  <2>2. CASE Goto(q, "commit") /\ UNCHANGED locals
    <3>1. req[q].op = "settings"
      BY <1>8 DEF LockOrg, RequestInv, Handled, InFlight
    <3> QED BY <2>2, <3>1 DEF FitInv, HasResource, SlotOps, Goto, locals
  <2> QED BY <1>8, <2>1, <2>2 DEF LockOrg
<1>9. CASE Commit(q)
  <2>1. Goto(q, "ok")
    BY <1>9 DEF Commit, create_booking, reschedule_booking, cancel_booking,
       create_blackout, upsert_availability_rule, deactivate_resource,
       update_resource, update_organization, Publish, End
  <2> QED BY <1>1, <2>1 DEF Goto, Responses
<1>10. CASE Crash(q)
  BY <1>2, <1>10 DEF Crash, Responses
<1> QED BY <1>3, <1>4, <1>5, <1>6, <1>7, <1>8, <1>9, <1>10 DEF Step

\* Whoever acts, what a request has read under its lock stays so.
LEMMA StepsKeepFInv == IInv /\ FInv /\ [Next]_vars => FInv'
<1> SUFFICES ASSUME IInv, FInv, [Next]_vars, NEW q \in Requests PROVE FitInv(q)'
  BY DEF FInv
<1>1. CASE (\E m \in Payloads : Receive(q, m)) \/ Step(q) \/ Crash(q)
  BY <1>1, OwnStepKeepsFit
<1>2. CASE ~ ((\E m \in Payloads : Receive(q, m)) \/ Step(q) \/ Crash(q))
  <2>1. /\ pc'[q] = pc[q] /\ req'[q] = req[q] /\ target'[q] = target[q]
        /\ copy'[q] = copy[q]
    BY <1>2, OwnStepsOnly
  <2>2. HasResource(q) => /\ resources'[target[q]] = resources[target[q]]
                          /\ rules'[target[q]] = rules[target[q]]
    BY <1>2, CommitsKeepLockedRows, OnlyCommitsWrite DEF Step
  <2> QED BY <2>1, <2>2, FrameKeepsFit DEF FInv
<1> QED BY <1>1, <1>2

\* What IntervalsFitAtCommit says of one step.
IntervalsFit ==
  \A b \in Ids : Placed(b) =>
    LET x == bookings'[b]
        r == x.resource IN
    /\ InWorkingHours(r, resources[r].zone, x.start, x.end)
    /\ \A c \in blackouts :
         c.resource = r => ~ Overlaps(x.start, x.end, c.start, c.end)
    /\ bookings[b] = None => resources[r].active

\* What was checked is true at the commit.
LEMMA CommitsFit ==
  ASSUME IInv, FInv, NEW p \in Requests, Commit(p)
  PROVE  IntervalsFit
<1> USE DEF IInv, TypeOK
<1>1. CASE create_booking(p) \/ reschedule_booking(p)
  <2>1. pc[p] = "commit" /\ req[p].op \in SlotOps
    BY <1>1 DEF create_booking, reschedule_booking, Committing, SlotOps
  <2>2. HasResource(p) /\ FitInv(p)
    BY <2>1 DEF HasResource, SlotOps, FInv
  <2>3. /\ InWorkingHours(target[p], resources[target[p]].zone, req[p].start, req[p].end)
        /\ NoConflicts(target[p], req[p].start, req[p].end, Excluded(p))
        /\ req[p].op = "create" => resources[target[p]].active
    BY <2>1, <2>2, AtCommit DEF FitInv
  <2>4. ASSUME NEW b \in Ids, Placed(b)
        PROVE  /\ bookings'[b].resource = target[p]
               /\ bookings'[b].start = req[p].start
               /\ bookings'[b].end = req[p].end
               /\ bookings[b] = None => req[p].op = "create"
    <3>1. CASE create_booking(p)
      <4>1. b = p
        BY <2>4, <3>1 DEF create_booking, Placed
      <4> QED BY <3>1, <4>1 DEF create_booking, Committing
    <3>2. CASE reschedule_booking(p)
      <4>1. /\ bookings[req[p].booking] \in BookingRow
            /\ bookings[req[p].booking].resource = target[p]
            /\ bookings[req[p].booking] # None
        BY <2>1, <3>2, AtCommit
           DEF reschedule_booking, Committing, BookingOps, Confirmed
      <4>2. b = req[p].booking
        BY <2>4, <3>2 DEF reschedule_booking, Placed
      <4>3. bookings'[b] = [bookings[b] EXCEPT !.start = req[p].start, !.end = req[p].end]
        BY <3>2, <4>2 DEF reschedule_booking
      <4> QED BY <4>1, <4>2, <4>3 DEF BookingRow
    <3> QED BY <1>1, <3>1, <3>2
  <2> QED BY <2>3, <2>4 DEF IntervalsFit, NoConflicts
<1>2. CASE cancel_booking(p)
  <2>1. /\ req[p].booking \in Ids
        /\ bookings[req[p].booking] \in BookingRow
    BY <1>2, AtCommit DEF cancel_booking, Committing, BookingOps
  <2>2. \A b \in Ids : bookings'[b] = bookings[b] \/ bookings'[b].status = "cancelled"
    BY <1>2, <2>1 DEF cancel_booking, BookingRow
  <2> QED BY <2>2 DEF IntervalsFit, Placed
<1>3. CASE bookings' = bookings
  BY <1>3 DEF IntervalsFit, Placed
<1> QED BY <1>1, <1>2, <1>3 DEF Commit, create_blackout, upsert_availability_rule,
        deactivate_resource, update_resource, update_organization

\* Nobody has read anything yet.
LEMMA InitIsFit == Init => FInv
BY DEF Init, FInv, FitInv, HasResource

\* When a booking is created or moved, its interval suits the hours, the zone,
\* the blackouts and the state of its resource at that very step.
THEOREM IntervalsSuitTheirResource == Spec => IntervalsFitAtCommit
<1>1. IInv /\ FInv /\ [Next]_vars => [IntervalsFit]_vars
  <2> SUFFICES ASSUME IInv, FInv, [Next]_vars PROVE IntervalsFit
    OBVIOUS
  <2>1. CASE \E p \in Requests : Commit(p)
    BY <2>1, CommitsFit
  <2>2. CASE ~ \E p \in Requests : Commit(p)
    BY <2>2, OnlyCommitsWrite DEF IntervalsFit, Placed
  <2> QED BY <2>1, <2>2
<1>2. [IntervalsFit]_vars =>
        [\A b \in Ids : Placed(b) =>
           LET x == bookings'[b]
               r == x.resource IN
           /\ InWorkingHours(r, resources[r].zone, x.start, x.end)
           /\ \A c \in blackouts :
                c.resource = r => ~ Overlaps(x.start, x.end, c.start, c.end)
           /\ bookings[b] = None => resources[r].active]_vars
  BY DEF IntervalsFit
<1> QED BY <1>1, <1>2, InitIsFit, LockDiscipline, StepsKeepFInv, PTL DEF Spec, IntervalsFitAtCommit

-----------------------------------------------------------------------------
(* Rights.                                                                 *)

\* What a request has been found entitled to.
RightsInv(p) ==
  /\ pc[p] \in InFlight \ {"authorize"} =>
       granted[p] # "none" /\ Entitled(p, granted[p])
  /\ pc[p] \in InFlight /\ req[p].op = "settings" => target[p] = None
  /\ HasResource(p) /\ req[p].op \in ResourceOps => OrgOf[target[p]] = req[p].org

\* Event e was recorded within the rights of its request.
Rightful(e) ==
  /\ e.resource # None => OrgOf[e.resource] = OrgFor(e.by)
  /\ granted[e.by] # "none"
  /\ e.event = "organization.updated" => granted[e.by] = "admin"
  /\ granted[e.by] = "member" =>
       /\ e.event \in {"booking.created", "booking.rescheduled", "booking.cancelled"}
       /\ bookings[e.booking].owner = req[e.by].actor

AInv == /\ \A p \in Requests : RightsInv(p)
        /\ \A e \in audit :
             /\ pc[e.by] = "ok"
             /\ Rightful(e)
             /\ granted[e.by] = "member" => e.booking \in Ids /\ bookings[e.booking] # None

\* A request's rights do not depend on what others do: the owner of the
\* booking it names does not change.
LEMMA FrameKeepsRights ==
  ASSUME IInv, NEW q \in Requests, RightsInv(q),
         pc'[q] = pc[q], req'[q] = req[q], target'[q] = target[q], granted'[q] = granted[q],
         \A b \in Ids : bookings[b] # None => bookings'[b].owner = bookings[b].owner
  PROVE  RightsInv(q)'
<1>1. HasResource(q)' <=> HasResource(q)
  BY DEF HasResource
<1>2. pc[q] \in InFlight /\ req[q].op \in BookingOps => (Owns(q)' <=> Owns(q))
  <2> SUFFICES ASSUME pc[q] \in InFlight, req[q].op \in BookingOps
               PROVE  Owns(q)' <=> Owns(q)
    OBVIOUS
  <2>1. Handled(q)
    BY DEF IInv, RequestInv
  <2>2. req[q].booking \in Ids /\ bookings[req[q].booking] # None
    BY <2>1, PayloadFields DEF Handled
  <2> QED BY <2>2 DEF Owns
<1>3. pc[q] \in InFlight => (Entitled(q, granted[q])' <=> Entitled(q, granted[q]))
  BY <1>2 DEF Entitled, BookingOps
<1> QED BY <1>1, <1>3 DEF RightsInv

\* A request passes the permission check before it goes on.
LEMMA OwnStepKeepsRights ==
  ASSUME IInv, AInv, NEW q \in Requests,
         (\E m \in Payloads : Receive(q, m)) \/ (Step(q) /\ ~ Commit(q)) \/ Crash(q)
  PROVE  RightsInv(q)'
<1> USE DEF IInv, TypeOK
<1>1. ASSUME pc'[q] \in Responses PROVE RightsInv(q)'
  BY <1>1 DEF RightsInv, HasResource, InFlight, Responses
<1>2. ASSUME NEW response \in Responses, Reject(q, response) PROVE RightsInv(q)'
  BY <1>1, <1>2 DEF Reject, End, Goto
<1>3. CASE \E m \in Payloads : Receive(q, m)
  <2>1. PICK m \in Payloads : Receive(q, m)
    BY <1>3
  <2>2. CASE pc'[q] = "authorize"
    <3>1. req'[q] = m /\ target'[q] = TargetOf(m)
      BY <2>1, <2>2 DEF Receive, Goto
    <3> QED BY <2>2, <3>1 DEF RightsInv, HasResource, TargetOf, BookingOps
  <2>3. CASE pc'[q] # "authorize"
    BY <1>1, <2>1, <2>3 DEF Receive, Goto, Responses
  <2> QED BY <2>2, <2>3
<1>4. CASE Authorize(q)
  <2> DEFINE r == role[OrgFor(q)][req[q].actor]
  <2>1. /\ granted'[q] = r
        /\ pc'[q] = CASE r = "none"                       -> "notFound"
                      [] r # "none" /\ ~ Entitled(q, r)   -> "forbidden"
                      [] r # "none" /\ Entitled(q, r)     ->
                           IF req[q].op = "settings" THEN "lockOrg" ELSE "lockResource"
        /\ UNCHANGED <<bookings, req, target>>
    BY <1>4 DEF Authorize, Goto, tables
  <2> HIDE DEF r
  <2>2. CASE r = "none" \/ ~ Entitled(q, r)
    <3>1. pc'[q] = "notFound" \/ pc'[q] = "forbidden"
      <4>1. CASE r = "none"
        BY <2>1, <4>1
      <4>2. CASE r # "none" /\ ~ Entitled(q, r)
        BY <2>1, <4>2
      <4> QED BY <2>2, <4>1, <4>2
    <3>2. pc'[q] \in Responses
      BY <3>1 DEF Responses
    <3> QED BY <1>1, <3>2
  <2>3. CASE r # "none" /\ Entitled(q, r)
    <3>1. pc'[q] \in {"lockOrg", "lockResource"}
      BY <2>1, <2>3
    <3>2. Entitled(q, granted[q])'
      BY <2>1, <2>3 DEF Entitled, Owns
    <3>3. pc[q] = "authorize"
      BY <1>4 DEF Authorize
    <3> QED BY <2>1, <2>3, <3>1, <3>2, <3>3 DEF RightsInv, HasResource, AInv, InFlight
  <2> QED BY <2>2, <2>3
<1>5. ASSUME pc[q] \in InFlight \ {"authorize"}, UNCHANGED <<tables, req, target, granted>>,
             HasResource(q)' /\ req[q].op \in ResourceOps => OrgOf[target[q]] = req[q].org
      PROVE  RightsInv(q)'
  <2>1. Entitled(q, granted[q])' <=> Entitled(q, granted[q])
    BY <1>5 DEF Entitled, Owns, tables
  <2> QED BY <1>5, <2>1 DEF RightsInv, AInv
<1>6. CASE LockResource(q)
  <2>1. CASE Reject(q, "notFound")
    BY <1>2, <2>1 DEF Responses
  <2>2. CASE Reject(q, OnLockedRow(q, resources[target[q]]))
             /\ OnLockedRow(q, resources[target[q]]) # "lock"
    <3>1. OnLockedRow(q, resources[target[q]]) \in Responses
      BY <2>2 DEF OnLockedRow, OnUpdate, Responses
    <3> QED BY <1>2, <2>2, <3>1
  <2>3. CASE /\ ~ (req[q].op \in ResourceOps /\ OrgOf[target[q]] # req[q].org)
             /\ UNCHANGED <<tables, req, target, granted>>
    BY <1>5, <1>6, <2>3 DEF LockResource, InFlight
  <2> QED BY <1>6, <2>1, <2>2, <2>3 DEF LockResource
<1>7. CASE LockBooking(q) \/ CheckTimeRange(q) \/ CheckConflicts(q)
  <2>1. CASE \E response \in Responses : Reject(q, response)
    BY <1>2, <2>1
  <2>2. CASE UNCHANGED <<tables, locals>>
    <3>1. HasResource(q) /\ pc[q] \in InFlight \ {"authorize"}
      BY <1>7 DEF LockBooking, CheckTimeRange, CheckConflicts, HasResource, InFlight
    <3> QED BY <1>5, <2>2, <3>1 DEF AInv, RightsInv, locals
  <2> QED BY <1>7, <2>1, <2>2 DEF LockBooking, CheckTimeRange, CheckConflicts, Responses
<1>8. CASE LockOrg(q)
  <2>1. CASE Reject(q, "ok")
    BY <1>2, <2>1 DEF Responses
  <2>2. CASE UNCHANGED <<tables, locals>>
    <3>1. req[q].op = "settings" /\ pc[q] = "lockOrg"
      BY <1>8 DEF LockOrg, RequestInv, Handled, InFlight
    <3> QED BY <1>5, <2>2, <3>1 DEF locals, InFlight, ResourceOps
  <2> QED BY <1>8, <2>1, <2>2 DEF LockOrg
<1>9. CASE Crash(q)
  BY <1>2, <1>9 DEF Crash, Responses
<1> QED BY <1>3, <1>4, <1>6, <1>7, <1>8, <1>9 DEF Step

\* The step records one event of p, within its rights.
RecordsRightly(p) ==
  \E e : /\ audit' = audit \union {e}
         /\ e.by = p
         /\ Rightful(e)'
         /\ granted'[p] = "member" => e.booking \in Ids /\ bookings'[e.booking] # None

\* The event a commit records is within the rights of its request.
LEMMA CommitsAreRightful ==
  ASSUME IInv, AInv, NEW p \in Requests, Commit(p)
  PROVE  /\ pc'[p] = "ok"
         /\ UNCHANGED locals
         /\ RecordsRightly(p)
<1> USE DEF IInv, TypeOK
<1>1. pc[p] = "commit" /\ RightsInv(p) /\ RequestInv(p)
  BY DEF Commit, Committing, create_booking, reschedule_booking, cancel_booking,
     create_blackout, upsert_availability_rule, deactivate_resource,
     update_resource, update_organization, AInv
<1>2. granted[p] # "none" /\ Entitled(p, granted[p])
  BY <1>1 DEF RightsInv, InFlight
<1>3. /\ req[p].op = "settings" => target[p] = None
      /\ req[p].op \in ResourceOps => OrgOf[target[p]] = req[p].org
  BY <1>1 DEF RightsInv, InFlight, HasResource, ResourceOps
<1>4. ASSUME NEW event, NEW booking, Publish(p, event, booking),
             target[p] # None => OrgOf[target[p]] = OrgFor(p),
             event = "organization.updated" => granted[p] = "admin",
             granted[p] = "member" =>
               /\ event \in {"booking.created", "booking.rescheduled", "booking.cancelled"}
               /\ booking \in Ids
               /\ bookings'[booking] # None
               /\ bookings'[booking].owner = req[p].actor
      PROVE  pc'[p] = "ok" /\ UNCHANGED locals /\ RecordsRightly(p)
  <2>1. PICK e : e = [by |-> p, event |-> event, resource |-> target[p], booking |-> booking]
    OBVIOUS
  <2>2. e.by = p /\ e.event = event /\ e.resource = target[p] /\ e.booking = booking
    BY <2>1
  <2>3. pc'[p] = "ok" /\ UNCHANGED locals /\ audit' = audit \union {e}
    BY <1>4, <2>1 DEF Publish, End, Goto
  <2>4. Rightful(e)'
    BY <1>2, <1>4, <2>2, <2>3 DEF Rightful, OrgFor, locals
  <2>5. granted'[p] = "member" => e.booking \in Ids /\ bookings'[e.booking] # None
    BY <1>4, <2>2, <2>3 DEF locals
  <2> QED BY <2>2, <2>3, <2>4, <2>5 DEF RecordsRightly
<1>5. CASE create_booking(p)
  <2>1. req[p].op = "create" /\ Publish(p, "booking.created", p)
    BY <1>5 DEF create_booking, Committing
  <2>2. bookings'[p].owner = req[p].actor /\ bookings'[p] # None /\ p \in Ids
    BY <1>5, CreatedRow DEF Ids
  <2>3. target[p] # None => OrgOf[target[p]] = OrgFor(p)
    BY <2>1 DEF OrgFor, SlotOps
  <2> QED BY <1>4, <2>1, <2>2, <2>3
<1>6. CASE reschedule_booking(p) \/ cancel_booking(p)
  <2>1. PICK event, b : /\ Publish(p, event, b)
                        /\ b = req[p].booking
                        /\ event # "organization.updated"
                        /\ event \in {"booking.rescheduled", "booking.cancelled"}
                             \/ (req[p].op = "cancel" /\ req[p].override)
    BY <1>6 DEF reschedule_booking, cancel_booking, Committing
  <2>2. req[p].op \in BookingOps
    BY <1>6 DEF reschedule_booking, cancel_booking, Committing, BookingOps
  <2>3. b \in Ids /\ bookings[b] # None
    BY <1>1, <2>1, <2>2, AtCommit, NoneIsNothing
  <2>4. bookings'[b] # None /\ bookings'[b].owner = bookings[b].owner
    BY <2>3, CommitsKeepHistory
  <2>5. granted[p] = "member" =>
          bookings[b].owner = req[p].actor /\ ~ (req[p].op = "cancel" /\ req[p].override)
    BY <1>2, <2>1, <2>2 DEF Entitled, Owns, BookingOps, MANAGEMENT_ROLES
  <2>6. target[p] # None => OrgOf[target[p]] = OrgFor(p)
    BY <2>2 DEF OrgFor
  <2> QED BY <1>4, <2>1, <2>3, <2>4, <2>5, <2>6
<1>7. CASE \/ create_blackout(p) \/ upsert_availability_rule(p)
           \/ deactivate_resource(p) \/ update_resource(p)
  <2>1. PICK event : event # "organization.updated" /\ Publish(p, event, None)
    BY <1>7 DEF create_blackout, upsert_availability_rule, deactivate_resource,
       update_resource
  <2>2. req[p].op \in ResourceOps
    BY <1>7 DEF create_blackout, upsert_availability_rule, deactivate_resource,
       update_resource, Committing, ResourceOps
  <2>3. granted[p] # "member"
    BY <1>2, <2>2 DEF Entitled, ResourceOps, MANAGEMENT_ROLES
  <2>4. OrgOf[target[p]] = OrgFor(p)
    BY <1>3, <2>2 DEF OrgFor, ResourceOps, SlotOps, BookingOps
  <2> QED BY <1>4, <2>1, <2>3, <2>4
<1>8. CASE update_organization(p)
  <2>1. req[p].op = "settings" /\ Publish(p, "organization.updated", None)
    BY <1>8 DEF update_organization, Committing
  <2>2. granted[p] = "admin" /\ target[p] = None
    BY <1>2, <1>3, <2>1 DEF Entitled
  <2> QED BY <1>4, <2>1, <2>2
<1> QED BY <1>5, <1>6, <1>7, <1>8 DEF Commit

\* A request that is answered does nothing any more.
LEMMA EndedRequestsRest ==
  ASSUME NEW q \in Requests, pc[q] = "ok"
  PROVE  ~ ((\E m \in Payloads : Receive(q, m)) \/ Step(q) \/ Crash(q))
BY DEF Receive, Crash, InFlight, Step, Authorize, LockResource, LockBooking,
       LockOrg, CheckTimeRange, CheckConflicts, Commit, Committing, create_booking,
       reschedule_booking, cancel_booking, create_blackout, upsert_availability_rule,
       deactivate_resource, update_resource, update_organization

\* Rights once found stay, and so do those of the events recorded.
LEMMA StepsKeepAInv == IInv /\ AInv /\ [Next]_vars => AInv'
<1> SUFFICES ASSUME IInv, AInv, [Next]_vars PROVE AInv'
  OBVIOUS
<1>1. \A b \in Ids : bookings[b] # None =>
        bookings'[b] # None /\ bookings'[b].owner = bookings[b].owner
  BY CommitsKeepHistory, OnlyCommitsWrite
<1>2. ASSUME NEW q \in Requests PROVE RightsInv(q)'
  <2>1. CASE Commit(q)
    BY <2>1, CommitsAreRightful DEF RightsInv, InFlight, HasResource
  <2>2. CASE (\E m \in Payloads : Receive(q, m)) \/ (Step(q) /\ ~ Commit(q)) \/ Crash(q)
    BY <2>2, OwnStepKeepsRights
  <2>3. CASE ~ ((\E m \in Payloads : Receive(q, m)) \/ Step(q) \/ Crash(q))
    BY <1>1, <2>3, OwnStepsOnly, FrameKeepsRights DEF AInv
  <2> QED BY <2>1, <2>2, <2>3
<1>3. ASSUME NEW e \in audit
      PROVE  /\ pc'[e.by] = "ok"
             /\ Rightful(e)'
             /\ granted'[e.by] = "member" => e.booking \in Ids /\ bookings'[e.booking] # None
  <2> DEFINE q == e.by
  <2>1. /\ q \in Requests /\ pc[q] = "ok" /\ Rightful(e)
        /\ granted[q] = "member" => e.booking \in Ids /\ bookings[e.booking] # None
    BY DEF AInv, IInv, TypeOK, AuditEvent
  <2>2. ~ ((\E m \in Payloads : Receive(q, m)) \/ Step(q) \/ Crash(q))
    BY <2>1, EndedRequestsRest
  <2>3. /\ pc'[q] = pc[q] /\ req'[q] = req[q] /\ target'[q] = target[q]
        /\ granted'[q] = granted[q]
    BY <2>1, <2>2, OwnStepsOnly
  <2> QED BY <1>1, <2>1, <2>3 DEF Rightful, OrgFor
<1>4. CASE \E p \in Requests : Commit(p)
  <2>1. PICK p \in Requests : Commit(p)
    BY <1>4
  <2>2. PICK e : /\ audit' = audit \union {e}
                 /\ e.by = p
                 /\ Rightful(e)'
                 /\ granted'[p] = "member" => e.booking \in Ids /\ bookings'[e.booking] # None
    <3>1. RecordsRightly(p)
      BY <2>1, CommitsAreRightful
    <3> QED BY <3>1 DEF RecordsRightly
  <2>3. pc'[p] = "ok"
    BY <2>1, CommitsAreRightful
  <2> QED BY <1>2, <1>3, <2>2, <2>3 DEF AInv
<1>5. CASE ~ \E p \in Requests : Commit(p)
  BY <1>2, <1>3, <1>5, OnlyCommitsWrite DEF AInv
<1> QED BY <1>4, <1>5

\* Nothing is recorded yet.
LEMMA InitIsRightful == Init => AInv
BY DEF Init, AInv, RightsInv, InFlight, HasResource

\* Nobody changes anything beyond the role that the transaction read in the
\* organization that owns the changed object.
THEOREM NobodyExceedsTheirRole == Spec => []ActsWithinRights
<1>1. AInv => ActsWithinRights
  BY DEF AInv, Rightful, ActsWithinRights
<1> QED BY <1>1, InitIsRightful, LockDiscipline, StepsKeepAInv, PTL DEF Spec

-----------------------------------------------------------------------------
(* What counts audit events: the version of a resource counts its changes, *)
(* the log tells the life of every booking, and racing archives leave one  *)
(* event.  A transaction records one event and ends, so what it records is *)
(* new.                                                                    *)

-----------------------------------------------------------------------------
(* What a commit records.                                                  *)

KindOf(p) ==
  CASE req[p].op = "create"     -> "booking.created"
    [] req[p].op = "reschedule" -> "booking.rescheduled"
    [] req[p].op = "cancel"     -> IF req[p].override THEN "booking.override_cancelled"
                                                      ELSE "booking.cancelled"
    [] req[p].op = "blackout"   -> "blackout.created"
    [] req[p].op = "rule"       -> "availability_rule.updated"
    [] req[p].op = "archive"    -> "resource.archived"
    [] req[p].op = "update"     -> "resource.updated"
    [] req[p].op = "settings"   -> "organization.updated"

EventOf(p) ==
  [by |-> p, event |-> KindOf(p), resource |-> target[p],
   booking |-> CASE req[p].op = "create"        -> p
                 [] req[p].op \in BookingOps    -> req[p].booking
                 [] req[p].op \in ResourceOps \union {"settings"} -> None]

\* A commit adds one event, and its request has recorded none before.
LEMMA CommitRecords ==
  ASSUME IInv, AInv, NEW p \in Requests, Commit(p)
  PROVE  /\ pc[p] = "commit" /\ UNCHANGED locals
         /\ EventOf(p) \notin audit
         /\ audit' = audit \union {EventOf(p)}
<1>1. pc[p] = "commit"
  BY DEF Commit, Committing, create_booking, reschedule_booking, cancel_booking,
     create_blackout, upsert_availability_rule, deactivate_resource,
     update_resource, update_organization
<1>2. EventOf(p) \notin audit
  BY <1>1 DEF AInv, EventOf
<1>3. UNCHANGED locals
  BY DEF Commit, Publish, create_booking, reschedule_booking, cancel_booking,
     create_blackout, upsert_availability_rule, deactivate_resource,
     update_resource, update_organization
<1>4. audit' = audit \union {EventOf(p)}
  <2>1. CASE create_booking(p)
    BY <2>1 DEF create_booking, Committing, Publish, EventOf, KindOf, BookingOps, ResourceOps
  <2>2. CASE reschedule_booking(p)
    BY <2>2 DEF reschedule_booking, Committing, Publish, EventOf, KindOf, BookingOps, ResourceOps
  <2>3. CASE cancel_booking(p)
    BY <2>3 DEF cancel_booking, Committing, Publish, EventOf, KindOf, BookingOps, ResourceOps
  <2>4. CASE create_blackout(p)
    BY <2>4 DEF create_blackout, Committing, Publish, EventOf, KindOf, BookingOps, ResourceOps
  <2>5. CASE upsert_availability_rule(p)
    BY <2>5 DEF upsert_availability_rule, Committing, Publish, EventOf, KindOf, BookingOps, ResourceOps
  <2>6. CASE deactivate_resource(p)
    BY <2>6 DEF deactivate_resource, Committing, Publish, EventOf, KindOf, BookingOps, ResourceOps
  <2>7. CASE update_resource(p)
    BY <2>7 DEF update_resource, Committing, Publish, EventOf, KindOf, BookingOps, ResourceOps
  <2>8. CASE update_organization(p)
    BY <2>8 DEF update_organization, Committing, Publish, EventOf, KindOf, BookingOps, ResourceOps
  <2> QED BY <2>1, <2>2, <2>3, <2>4, <2>5, <2>6, <2>7, <2>8 DEF Commit
<1> QED BY <1>1, <1>2, <1>3, <1>4

\* Counting some of the events before and after one more is recorded.
LEMMA OneMoreEvent ==
  ASSUME NEW A, IsFiniteSet(A), NEW T \in SUBSET A, NEW e, e \notin A
  PROVE  /\ IsFiniteSet(T) /\ Cardinality(T) \in Nat
         /\ Cardinality(T \union {e}) = Cardinality(T) + 1
BY FS_Subset, FS_AddElement, FS_CardinalityType

-----------------------------------------------------------------------------
(* Versions.                                                               *)

\* A commit changes the row of its own resource only, from the locked copy.
LEMMA CommitChangesOneRow ==
  ASSUME IInv, FInv, AInv, NEW p \in Requests, Commit(p), NEW r \in Resources
  PROVE  /\ resources'[r].version = IF r = target[p] THEN resources[r].version + 1
                                                     ELSE resources[r].version
         /\ CASE req[p].op = "archive" /\ r = target[p] ->
                   resources[r].active /\ ~ resources'[r].active
              [] req[p].op = "update" /\ r = target[p] /\ req[p].changes.active # None ->
                   resources'[r].active = req[p].changes.active
              [] OTHER -> resources'[r].active = resources[r].active
<1> USE DEF IInv, TypeOK
<1>1. pc[p] = "commit" /\ RightsInv(p) /\ FitInv(p)
  BY CommitRecords DEF AInv, FInv
<1>2. req[p].op = "settings" => target[p] # r
  BY <1>1, NoneIsNothing DEF RightsInv, InFlight
<1>3. req[p].op # "settings" => target[p] \in Resources /\ copy[p] = resources[target[p]]
  BY <1>1, AtCommit DEF FitInv, HasResource
<1>4. resources[r] \in ResourceRow
  OBVIOUS
<1>5. CASE update_organization(p)
  BY <1>2, <1>5 DEF update_organization, Committing
<1>6. CASE deactivate_resource(p)
  <2>1. req[p].op = "archive" /\ copy[p].active
    BY <1>1, <1>6 DEF deactivate_resource, Committing, FitInv, HasResource
  <2> QED BY <1>3, <1>4, <1>6, <2>1 DEF deactivate_resource, ResourceRow
<1>7. CASE update_resource(p)
  <2>1. req[p].op = "update"
    BY <1>7 DEF update_resource, Committing
  <2>2. CASE r = target[p]
    <3>1. resources'[r] = [Patched(resources[r], req[p].changes)
                             EXCEPT !.version = resources[r].version + 1]
      BY <1>3, <1>7, <2>1, <2>2 DEF update_resource
    <3> QED BY <1>4, <2>1, <2>2, <3>1 DEF Patched, ResourceRow
  <2>3. CASE r # target[p]
    BY <1>7, <2>1, <2>3 DEF update_resource
  <2> QED BY <2>2, <2>3
<1>8. CASE \/ create_booking(p) \/ reschedule_booking(p) \/ cancel_booking(p)
           \/ create_blackout(p) \/ upsert_availability_rule(p)
  <2>1. req[p].op \notin {"archive", "update", "settings"} /\ bump_availability_version(target[p])
    BY <1>8 DEF create_booking, reschedule_booking, cancel_booking, create_blackout,
       upsert_availability_rule, Committing
  <2> QED BY <1>3, <1>4, <2>1 DEF bump_availability_version, ResourceRow
<1> QED BY <1>5, <1>6, <1>7, <1>8 DEF Commit

\* The events about resource r.
ChangesOf(r) == {e \in audit : e.resource = r}

\* The version and the events of a resource grow together.
LEMMA CommitKeepsVersions ==
  ASSUME IInv, FInv, AInv, IsFiniteSet(audit), VersionCountsChanges,
         NEW p \in Requests, Commit(p), NEW r \in Resources
  PROVE  resources'[r].version =
           InitialResources[r].version + Cardinality(ChangesOf(r)')
<1>1. resources[r].version = InitialResources[r].version + Cardinality(ChangesOf(r))
  BY DEF VersionCountsChanges, ChangesOf
<1>2. /\ audit' = audit \union {EventOf(p)} /\ EventOf(p) \notin audit
      /\ EventOf(p).resource = target[p]
  BY CommitRecords DEF EventOf
<1>3. ChangesOf(r) \in SUBSET audit
  BY DEF ChangesOf
<1>4. InitialResources[r].version \in Nat
  BY TablesTyped DEF ResourceRow
<1>5. CASE r = target[p]
  <2>1. ChangesOf(r)' = ChangesOf(r) \union {EventOf(p)}
    BY <1>2, <1>5 DEF ChangesOf
  <2>2. /\ Cardinality(ChangesOf(r)) \in Nat
        /\ Cardinality(ChangesOf(r)') = Cardinality(ChangesOf(r)) + 1
    BY <1>2, <1>3, <2>1, OneMoreEvent
  <2>3. resources'[r].version = resources[r].version + 1
    BY <1>5, CommitChangesOneRow
  <2> QED BY <1>1, <1>4, <2>2, <2>3
<1>6. CASE r # target[p]
  <2>1. ChangesOf(r)' = ChangesOf(r)
    BY <1>2, <1>6 DEF ChangesOf
  <2>2. resources'[r].version = resources[r].version
    BY <1>6, CommitChangesOneRow
  <2> QED BY <1>1, <2>1, <2>2
<1> QED BY <1>5, <1>6

-----------------------------------------------------------------------------
(* Archives.                                                               *)

Archivals(r) == {e \in audit : e.event = "resource.archived" /\ e.resource = r}

Reactivations(r) == {e \in audit : /\ e.event = "resource.updated"
                                   /\ e.resource = r
                                   /\ req[e.by].changes.active = TRUE}

\* An active resource has been reactivated after each archive.
ArchivalInv(r) ==
  Cardinality(Archivals(r)) + (IF resources[r].active THEN 1 ELSE 0) <=
    1 + Cardinality(Reactivations(r))

\* An archive needs an active resource and leaves it inactive.
LEMMA CommitKeepsArchivals ==
  ASSUME IInv, FInv, AInv, IsFiniteSet(audit), NEW p \in Requests, Commit(p),
         NEW r \in Resources, ArchivalInv(r)
  PROVE  ArchivalInv(r)'
<1> USE DEF IInv, TypeOK
<1> DEFINE e == EventOf(p)
<1>1. audit' = audit \union {e} /\ e \notin audit /\ UNCHANGED locals
  BY CommitRecords
<1>2. e.by = p /\ e.event = KindOf(p) /\ e.resource = target[p]
  BY DEF EventOf
<1> HIDE DEF e
<1>3. /\ Archivals(r) \in SUBSET audit
      /\ Reactivations(r) \in SUBSET audit
  BY DEF Archivals, Reactivations
<1>4. /\ Cardinality(Archivals(r)) \in Nat
      /\ Cardinality(Archivals(r) \union {e}) = Cardinality(Archivals(r)) + 1
      /\ Cardinality(Reactivations(r)) \in Nat
      /\ Cardinality(Reactivations(r) \union {e}) = Cardinality(Reactivations(r)) + 1
  BY <1>1, <1>3, OneMoreEvent
<1>5. /\ Archivals(r)' = IF e.event = "resource.archived" /\ e.resource = r
                           THEN Archivals(r) \union {e} ELSE Archivals(r)
      /\ Reactivations(r)' = IF /\ e.event = "resource.updated"
                                /\ e.resource = r
                                /\ req[p].changes.active = TRUE
                               THEN Reactivations(r) \union {e} ELSE Reactivations(r)
  BY <1>1, <1>2 DEF Archivals, Reactivations, locals
<1>6. /\ req[p] \in Payloads
      /\ req[p].op \in SlotOps \union BookingOps \union ResourceOps \union {"settings"}
  BY CommitRecords, AtCommit, PayloadFields
<1>7. /\ KindOf(p) = "resource.archived" <=> req[p].op = "archive"
      /\ KindOf(p) = "resource.updated" <=> req[p].op = "update"
  BY <1>6 DEF KindOf, SlotOps, BookingOps, ResourceOps
<1>8. CASE req[p].op = "archive" /\ r = target[p]
  <2>1. resources[r].active /\ ~ resources'[r].active
    BY <1>8, CommitChangesOneRow
  <2>2. Archivals(r)' = Archivals(r) \union {e} /\ Reactivations(r)' = Reactivations(r)
    BY <1>2, <1>5, <1>7, <1>8
  <2> QED BY <1>4, <2>1, <2>2 DEF ArchivalInv
<1>9. CASE req[p].op = "update" /\ r = target[p] /\ req[p].changes.active # None
  <2>1. resources'[r].active = req[p].changes.active
    BY <1>9, CommitChangesOneRow
  <2>2. /\ Archivals(r)' = Archivals(r)
        /\ Reactivations(r)' = IF req[p].changes.active = TRUE
                                 THEN Reactivations(r) \union {e} ELSE Reactivations(r)
    BY <1>2, <1>5, <1>7, <1>9
  <2>3. req[p].changes.active \in BOOLEAN
    BY <1>6, <1>9, PayloadFields DEF Changes
  <2> QED BY <1>4, <2>1, <2>2, <2>3 DEF ArchivalInv
<1>10. CASE /\ ~ (req[p].op = "archive" /\ r = target[p])
            /\ ~ (req[p].op = "update" /\ r = target[p] /\ req[p].changes.active # None)
  <2>1. resources'[r].active = resources[r].active
    BY <1>10, CommitChangesOneRow
  <2>2. Archivals(r)' = Archivals(r)
    BY <1>2, <1>5, <1>7, <1>10
  <2>3. Cardinality(Reactivations(r)') >= Cardinality(Reactivations(r))
    BY <1>4, <1>5
  <2>4. Cardinality(Reactivations(r)') \in Nat
    BY <1>4, <1>5
  <2> QED BY <1>4, <2>1, <2>2, <2>3, <2>4 DEF ArchivalInv
<1> QED BY <1>8, <1>9, <1>10

-----------------------------------------------------------------------------
(* Bookings.                                                               *)

CREATIONS     == {"booking.created"}
CANCELLATIONS == {"booking.cancelled", "booking.override_cancelled"}

\* A stored booking that was cancelled is never confirmed again.
SeedInv == \A b \in SeedIds : InitialBookings[b].status = "cancelled" => ~ Confirmed(b)

\* Booking b was inserted here, or cancelled here.
Created(b)   == b \in Requests /\ bookings[b] # None
Cancelled(b) == /\ bookings[b] # None
                /\ ~ Confirmed(b)
                /\ b \in SeedIds => InitialBookings[b].status = "confirmed"

JournalInv(b) ==
  /\ Cardinality(EventsOf(b, CREATIONS)) = IF Created(b) THEN 1 ELSE 0
  /\ Cardinality(EventsOf(b, CANCELLATIONS)) = IF Cancelled(b) THEN 1 ELSE 0

\* What a commit does to one booking, by the event it records.
LEMMA CommitChangesOneBooking ==
  ASSUME IInv, AInv, SeedInv, NEW p \in Requests, Commit(p), NEW b \in Ids
  PROVE  /\ IF EventOf(p).booking = b /\ EventOf(p).event \in CREATIONS
              THEN ~ Created(b) /\ Created(b)' ELSE Created(b)' <=> Created(b)
         /\ IF EventOf(p).booking = b /\ EventOf(p).event \in CANCELLATIONS
              THEN ~ Cancelled(b) /\ Cancelled(b)' ELSE Cancelled(b)' <=> Cancelled(b)
<1> USE DEF IInv, TypeOK
<1>1. pc[p] = "commit" /\ bookings[p] = None /\ req[p] \in Payloads
  BY CommitRecords, AtCommit
<1>2. CASE create_booking(p)
  <2>1. EventOf(p).booking = p /\ EventOf(p).event = "booking.created"
    BY <1>2 DEF create_booking, Committing, EventOf, KindOf, BookingOps, ResourceOps
  <2>2. /\ bookings'[p] # None /\ bookings'[p].status = "confirmed"
        /\ b # p => bookings'[b] = bookings[b]
    BY <1>2, CreatedRow
  <2> QED BY <1>1, <2>1, <2>2
          DEF Created, Cancelled, Confirmed, CREATIONS, CANCELLATIONS
<1>3. CASE reschedule_booking(p) \/ cancel_booking(p)
  <2>1. /\ EventOf(p).booking = req[p].booking
        /\ EventOf(p).event \notin CREATIONS
        /\ EventOf(p).event \in CANCELLATIONS <=> req[p].op = "cancel"
        /\ req[p].op \in BookingOps
        /\ cancel_booking(p) => req[p].op = "cancel"
        /\ reschedule_booking(p) => req[p].op # "cancel"
    BY <1>3 DEF reschedule_booking, cancel_booking, Committing, EventOf, KindOf,
       BookingOps, ResourceOps, CREATIONS, CANCELLATIONS
  <2>2. CASE b # req[p].booking
    <3>1. bookings'[b] = bookings[b]
      BY <1>3, <2>2 DEF reschedule_booking, cancel_booking
    <3> QED BY <2>1, <2>2, <3>1 DEF Created, Cancelled, Confirmed
  <2>3. CASE b = req[p].booking
    <3>1. Confirmed(b) /\ bookings[b] \in BookingRow /\ bookings[b] # None
      BY <1>1, <2>1, <2>3, AtCommit DEF Confirmed
    <3>2. bookings'[b] # None
      BY <3>1, CommitsKeepHistory
    <3>3. CASE reschedule_booking(p)
      <4>1. bookings'[b].status = bookings[b].status
        BY <2>3, <3>1, <3>3 DEF reschedule_booking, BookingRow
      <4> QED BY <2>1, <2>3, <3>1, <3>2, <3>3, <4>1 DEF Created, Cancelled, Confirmed
    <3>4. CASE cancel_booking(p)
      <4>1. bookings'[b].status = "cancelled"
        BY <2>3, <3>1, <3>4 DEF cancel_booking, BookingRow
      <4>2. b \in SeedIds => InitialBookings[b].status = "confirmed"
        BY <3>1, TablesTyped DEF SeedInv, BookingRow
      <4> QED BY <2>1, <2>3, <3>1, <3>2, <3>4, <4>1, <4>2 DEF Created, Cancelled, Confirmed
    <3> QED BY <1>3, <3>3, <3>4
  <2> QED BY <2>2, <2>3
<1>4. CASE \/ create_blackout(p) \/ upsert_availability_rule(p) \/ deactivate_resource(p)
           \/ update_resource(p) \/ update_organization(p)
  <2>1. EventOf(p).event \notin CREATIONS \union CANCELLATIONS /\ bookings' = bookings
    BY <1>4 DEF create_blackout, upsert_availability_rule, deactivate_resource,
       update_resource, update_organization, Committing, EventOf, KindOf,
       CREATIONS, CANCELLATIONS
  <2> QED BY <2>1 DEF Created, Cancelled, Confirmed
<1> QED BY <1>2, <1>3, <1>4 DEF Commit

\* The events of a booking follow what happens to it.
LEMMA CommitKeepsJournal ==
  ASSUME IInv, AInv, SeedInv, IsFiniteSet(audit), NEW p \in Requests, Commit(p),
         NEW b \in Ids, JournalInv(b)
  PROVE  JournalInv(b)'
<1> DEFINE e == EventOf(p)
<1>1. audit' = audit \union {e} /\ e \notin audit
  BY CommitRecords
<1>2. /\ IF e.booking = b /\ e.event \in CREATIONS
           THEN ~ Created(b) /\ Created(b)' ELSE Created(b)' <=> Created(b)
      /\ IF e.booking = b /\ e.event \in CANCELLATIONS
           THEN ~ Cancelled(b) /\ Cancelled(b)' ELSE Cancelled(b)' <=> Cancelled(b)
  BY CommitChangesOneBooking
<1> HIDE DEF e
<1>3. ASSUME NEW K \in {CREATIONS, CANCELLATIONS}
      PROVE  /\ EventsOf(b, K)' = IF e.booking = b /\ e.event \in K
                                   THEN EventsOf(b, K) \union {e} ELSE EventsOf(b, K)
             /\ Cardinality(EventsOf(b, K) \union {e}) = Cardinality(EventsOf(b, K)) + 1
  <2>1. EventsOf(b, K) \in SUBSET audit
    BY DEF EventsOf
  <2>2. Cardinality(EventsOf(b, K) \union {e}) = Cardinality(EventsOf(b, K)) + 1
    BY <1>1, <2>1, OneMoreEvent
  <2>3. EventsOf(b, K)' = IF e.booking = b /\ e.event \in K
                          THEN EventsOf(b, K) \union {e} ELSE EventsOf(b, K)
    BY <1>1 DEF EventsOf
  <2> QED BY <2>2, <2>3
<1>4. Cardinality(EventsOf(b, CREATIONS)') = IF Created(b)' THEN 1 ELSE 0
  <2>1. EventsOf(b, CREATIONS)' = IF e.booking = b /\ e.event \in CREATIONS
                                 THEN EventsOf(b, CREATIONS) \union {e}
                                 ELSE EventsOf(b, CREATIONS)
    BY <1>3 DEF EventsOf, CREATIONS
  <2>2. Cardinality(EventsOf(b, CREATIONS) \union {e}) =
          Cardinality(EventsOf(b, CREATIONS)) + 1
    BY <1>3
  <2>3. Cardinality(EventsOf(b, CREATIONS)) = IF Created(b) THEN 1 ELSE 0
    BY DEF JournalInv
  <2> QED BY <1>2, <2>1, <2>2, <2>3
<1>5. Cardinality(EventsOf(b, CANCELLATIONS)') = IF Cancelled(b)' THEN 1 ELSE 0
  <2>1. EventsOf(b, CANCELLATIONS)' = IF e.booking = b /\ e.event \in CANCELLATIONS
                                     THEN EventsOf(b, CANCELLATIONS) \union {e}
                                     ELSE EventsOf(b, CANCELLATIONS)
    BY <1>3 DEF EventsOf, CANCELLATIONS
  <2>2. Cardinality(EventsOf(b, CANCELLATIONS) \union {e}) =
          Cardinality(EventsOf(b, CANCELLATIONS)) + 1
    BY <1>3
  <2>3. Cardinality(EventsOf(b, CANCELLATIONS)) = IF Cancelled(b) THEN 1 ELSE 0
    BY DEF JournalInv
  <2> QED BY <1>2, <2>1, <2>2, <2>3
<1> QED BY <1>4, <1>5 DEF JournalInv, CREATIONS, CANCELLATIONS

\* A stored booking that was cancelled stays so: no request can lock it.
LEMMA StepsKeepSeeds ==
  ASSUME IInv, SeedInv, [Next]_vars
  PROVE  SeedInv'
<1> USE DEF IInv, TypeOK
<1> SUFFICES ASSUME NEW b \in SeedIds, InitialBookings[b].status = "cancelled"
             PROVE  ~ Confirmed(b)'
  BY DEF SeedInv
<1>1. b \in Ids /\ b \notin Requests /\ ~ Confirmed(b)
  BY SeedKeysAreOld DEF SeedInv, Ids
<1>2. CASE \E p \in Requests : Commit(p)
  <2>1. PICK p \in Requests : Commit(p)
    BY <1>2
  <2>2. CASE bookings[b] # None
    BY <1>1, <2>1, <2>2, CommitsKeepHistory DEF Confirmed
  <2>3. CASE bookings[b] = None
    <3>1. CASE create_booking(p)
      BY <1>1, <2>3, <3>1, CreatedRow DEF Confirmed
    <3>2. CASE reschedule_booking(p) \/ cancel_booking(p)
      <4>1. req[p].booking \in Ids /\ bookings[req[p].booking] # None
        BY <3>2, AtCommit, NoneIsNothing
           DEF reschedule_booking, cancel_booking, Committing, BookingOps
      <4> QED BY <1>1, <2>3, <3>2, <4>1 DEF reschedule_booking, cancel_booking, Confirmed
    <3>3. CASE bookings' = bookings
      BY <1>1, <3>3 DEF Confirmed
    <3> QED BY <2>1, <3>1, <3>2, <3>3 DEF Commit, create_blackout, upsert_availability_rule,
            deactivate_resource, update_resource, update_organization
  <2> QED BY <2>2, <2>3
<1>3. CASE ~ \E p \in Requests : Commit(p)
  BY <1>1, <1>3, OnlyCommitsWrite DEF Confirmed
<1> QED BY <1>2, <1>3

-----------------------------------------------------------------------------
(* The theorems.                                                           *)

CountInv ==
  /\ IsFiniteSet(audit)
  /\ VersionCountsChanges
  /\ SeedInv
  /\ \A r \in Resources : ArchivalInv(r)
  /\ \A b \in Ids : JournalInv(b)

\* Nothing is counted anew by a step that is no commit.
LEMMA OtherStepsKeepCounts ==
  ASSUME IInv, AInv, CountInv, [Next]_vars, ~ \E p \in Requests : Commit(p)
  PROVE  CountInv'
<1>1. UNCHANGED <<resources, bookings, audit>>
  BY OnlyCommitsWrite
<1>2. ASSUME NEW e \in audit PROVE req'[e.by] = req[e.by]
  <2>1. e.by \in Requests /\ pc[e.by] = "ok"
    BY DEF AInv, IInv, TypeOK, AuditEvent
  <2>2. ~ ((\E m \in Payloads : Receive(e.by, m)) \/ Step(e.by) \/ Crash(e.by))
    BY <2>1, EndedRequestsRest
  <2> QED BY <2>1, <2>2, OwnStepsOnly
<1>3. \A r \in Resources : ArchivalInv(r)'
  <2> SUFFICES ASSUME NEW r \in Resources PROVE ArchivalInv(r)'
    OBVIOUS
  <2>1. Archivals(r)' = Archivals(r) /\ Reactivations(r)' = Reactivations(r)
    BY <1>1, <1>2 DEF Archivals, Reactivations
  <2> QED BY <1>1, <2>1 DEF CountInv, ArchivalInv
<1>4. \A b \in Ids : JournalInv(b)'
  <2> SUFFICES ASSUME NEW b \in Ids PROVE JournalInv(b)'
    OBVIOUS
  <2>1. /\ EventsOf(b, CREATIONS)' = EventsOf(b, CREATIONS)
        /\ EventsOf(b, CANCELLATIONS)' = EventsOf(b, CANCELLATIONS)
    BY <1>1 DEF EventsOf, CREATIONS, CANCELLATIONS
  <2>2. (Created(b)' <=> Created(b)) /\ (Cancelled(b)' <=> Cancelled(b))
    BY <1>1 DEF Created, Cancelled, Confirmed
  <2> QED BY <2>1, <2>2 DEF CountInv, JournalInv
<1>5. VersionCountsChanges'
  BY <1>1 DEF CountInv, VersionCountsChanges
<1> QED BY <1>1, <1>3, <1>4, <1>5, StepsKeepSeeds DEF CountInv

\* Every step keeps the counts.
LEMMA StepsKeepCounts == IInv /\ FInv /\ AInv /\ CountInv /\ [Next]_vars => CountInv'
<1> SUFFICES ASSUME IInv, FInv, AInv, CountInv, [Next]_vars, NEW p \in Requests, Commit(p)
             PROVE  CountInv'
  BY OtherStepsKeepCounts
<1>1. IsFiniteSet(audit)'
  BY CommitRecords, FS_AddElement DEF CountInv
<1>2. VersionCountsChanges'
  BY CommitKeepsVersions DEF CountInv, VersionCountsChanges, ChangesOf
<1>3. \A r \in Resources : ArchivalInv(r)'
  BY CommitKeepsArchivals DEF CountInv
<1>4. \A b \in Ids : JournalInv(b)'
  BY CommitKeepsJournal DEF CountInv
<1> QED BY <1>1, <1>2, <1>3, <1>4, StepsKeepSeeds DEF CountInv

\* Nothing has been counted yet.
LEMMA InitCounts == Init => CountInv
<1> SUFFICES ASSUME Init PROVE CountInv
  OBVIOUS
<1>1. audit = {} /\ IsFiniteSet(audit) /\ Cardinality({}) = 0
  BY FS_EmptySet DEF Init
<1>2. VersionCountsChanges
  <2> SUFFICES ASSUME NEW r \in Resources
               PROVE  resources[r].version = InitialResources[r].version
                        + Cardinality({e \in audit : e.resource = r})
    BY DEF VersionCountsChanges
  <2>1. {e \in audit : e.resource = r} = {}
    BY <1>1
  <2>2. resources[r].version = InitialResources[r].version /\ InitialResources[r].version \in Nat
    BY TablesTyped DEF Init, ResourceRow
  <2> QED BY <1>1, <2>1, <2>2
<1>3. ASSUME NEW r \in Resources PROVE ArchivalInv(r)
  <2>1. Archivals(r) = {} /\ Reactivations(r) = {}
    BY <1>1 DEF Archivals, Reactivations
  <2> QED BY <1>1, <2>1 DEF ArchivalInv
<1>4. ASSUME NEW b \in Ids PROVE JournalInv(b)
  <2>1. EventsOf(b, CREATIONS) = {} /\ EventsOf(b, CANCELLATIONS) = {}
    BY <1>1 DEF EventsOf
  <2>2. b \in Requests => bookings[b] = None
    BY SeedKeysAreOld DEF Init, Ids
  <2>3. bookings[b] # None => bookings[b] = InitialBookings[b] /\ b \in SeedIds
    BY DEF Init, Ids
  <2>4. ~ Created(b) /\ ~ Cancelled(b)
    BY <2>2, <2>3 DEF Created, Cancelled, Confirmed
  <2> QED BY <1>1, <2>1, <2>4 DEF JournalInv
<1>5. SeedInv
  BY DEF SeedInv, Init, Confirmed, Ids
<1> QED BY <1>1, <1>2, <1>3, <1>4, <1>5 DEF CountInv

\* What the counting theorems rest on.
LEMMA CountsHold == Spec => [](IInv /\ CountInv)
<1>1. Init => FInv /\ AInv
  BY InitIsFit, InitIsRightful
<1> QED BY <1>1, InitCounts, LockDiscipline, StepsKeepFInv, StepsKeepAInv,
        StepsKeepCounts, PTL DEF Spec

\* availability_version grows by one with every committed change: the number
\* under which slots are cached never stands for two states of a resource.
THEOREM VersionsCountChanges == Spec => []VersionCountsChanges
<1>1. CountInv => VersionCountsChanges
  BY DEF CountInv
<1> QED BY <1>1, CountsHold, PTL

\* Each booking has the audit events of its life, once each.
THEOREM JournalTellsBookings == Spec => []AuditMatchesBookings
<1>1. CountInv => AuditMatchesBookings
  BY DEF CountInv, JournalInv, AuditMatchesBookings, Created, Cancelled,
     CREATIONS, CANCELLATIONS
<1> QED BY <1>1, CountsHold, PTL

\* However many requests archive a resource at once, one is recorded.
THEOREM ArchivedOnceEach == Spec => []ArchivedOnce
<1>1. CountInv => ArchivedOnce
  <2> SUFFICES ASSUME CountInv, NEW r \in Resources
               PROVE  Cardinality(Archivals(r)) <= 1 + Cardinality(Reactivations(r))
    BY DEF ArchivedOnce, Archivals, Reactivations
  <2>1. Archivals(r) \in SUBSET audit /\ Reactivations(r) \in SUBSET audit
    BY DEF Archivals, Reactivations
  <2>2. Cardinality(Archivals(r)) \in Nat /\ Cardinality(Reactivations(r)) \in Nat
    BY <2>1, FS_Subset, FS_CardinalityType DEF CountInv
  <2> QED BY <2>2 DEF CountInv, ArchivalInv
<1> QED BY <1>1, CountsHold, PTL
=============================================================================
