------------------------------ MODULE Calendar ------------------------------
(***************************************************************************)
(* What the platform promises about the calendars of its resources, with   *)
(* no requests, locks or transactions: a booking takes, changes or gives   *)
(* up its interval in one step, and only an interval that no confirmed     *)
(* booking and no blackout touches can be taken.  BookingService           *)
(* implements this specification.                                          *)
(***************************************************************************)
EXTENDS Integers

CONSTANTS
  Ids,        \* primary keys of bookings
  Resources,  \* the resources that can be booked
  Times       \* the instants at which bookings and blackouts start and end

ASSUME TimesAreIntegers == Times \subseteq Int

VARIABLES
  held,       \* the confirmed bookings: a set of reservations
  released,   \* the keys of the cancelled bookings
  closed      \* the blackout periods

calendarVars == <<held, released, closed>>

Reservation ==
  {h \in [id : Ids, resource : Resources, start : Times, end : Times] : h.start < h.end}
Closure ==
  {b \in [resource : Resources, start : Times, end : Times] : b.start < b.end}

\* Half-open intervals: bookings that only touch do not overlap.
Overlaps(start, end, busyStart, busyEnd) == start < busyEnd /\ end > busyStart

Clash(g, h) ==
  /\ g.resource = h.resource
  /\ Overlaps(g.start, g.end, h.start, h.end)

\* Bug: only blackouts are looked at.
FreeOfClosures(c, others) == \A x \in closed : ~ Clash(c, x)

\* Candidate c touches nothing that is already on the calendar.
Free(c, others) == \A x \in others \union closed : ~ Clash(c, x)

TypeOK ==
  /\ held \in SUBSET Reservation
  /\ released \in SUBSET Ids
  /\ closed \in SUBSET Closure

\* At most one confirmed booking occupies a resource at any moment; a key
\* names one booking and is never both confirmed and cancelled.
NoDoubleBooking ==
  /\ \A g, h \in held : (g.id = h.id \/ Clash(g, h)) => g = h
  /\ \A h \in held : h.id \notin released

Init == closed = {} /\ TypeOK /\ NoDoubleBooking

Book(c) ==
  /\ c.id \notin released
  /\ \A h \in held : h.id # c.id
  /\ Free(c, held)
  /\ held' = held \union {c}
  /\ UNCHANGED <<released, closed>>

Move(h, start, end) ==
  LET c == [id |-> h.id, resource |-> h.resource, start |-> start, end |-> end] IN
  /\ start < end
  /\ Free(c, held \ {h})
  /\ held' = (held \ {h}) \union {c}
  /\ UNCHANGED <<released, closed>>

Cancel(h) ==
  /\ held' = held \ {h}
  /\ released' = released \union {h.id}
  /\ UNCHANGED closed

\* A blackout closes an interval whether or not it is booked.
Close(b) ==
  /\ closed' = closed \union {b}
  /\ UNCHANGED <<held, released>>

Next ==
  \/ \E c \in Reservation : Book(c)
  \/ \E h \in held, start, end \in Times : Move(h, start, end)
  \/ \E h \in held : Cancel(h)
  \/ \E b \in Closure : Close(b)

Spec == Init /\ [][Next]_calendarVars
=============================================================================
