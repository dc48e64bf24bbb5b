--------------------------- MODULE CalendarProofs ---------------------------
(***************************************************************************)
(* The promise excludes double booking, for any keys, resources and times. *)
(***************************************************************************)
EXTENDS Calendar, TLAPS

Inv == TypeOK /\ NoDoubleBooking

\* Whether two reservations clash does not depend on their order.
LEMMA ClashIsSymmetric ==
  ASSUME NEW g \in Reservation, NEW h \in Reservation, Clash(g, h)
  PROVE  Clash(h, g)
BY TimesAreIntegers, SMT DEF Clash, Overlaps, Reservation

\* A reservation that finds its interval free can be put among the others.
LEMMA AddingAFreeReservation ==
  ASSUME NEW S \in SUBSET Reservation, NEW c \in Reservation, Free(c, S),
         \A h \in S : h.id # c.id,
         \A g, h \in S : (g.id = h.id \/ Clash(g, h)) => g = h
  PROVE  \A g, h \in S \union {c} : (g.id = h.id \/ Clash(g, h)) => g = h
<1>1. \A h \in S : ~ Clash(c, h) /\ ~ Clash(h, c)
  BY ClashIsSymmetric DEF Free
<1> QED BY <1>1

\* Every step of the calendar keeps it free of double bookings.
LEMMA StepsKeepInv == Inv /\ [Next]_calendarVars => Inv'
<1> SUFFICES ASSUME Inv, [Next]_calendarVars PROVE Inv'
  OBVIOUS
<1> USE DEF Inv, TypeOK
<1>1. ASSUME NEW c \in Reservation, Book(c) PROVE Inv'
  <2>1. \A g, h \in held' : (g.id = h.id \/ Clash(g, h)) => g = h
    BY <1>1, AddingAFreeReservation DEF Book, NoDoubleBooking
  <2> QED BY <1>1, <2>1 DEF Book, NoDoubleBooking
<1>2. ASSUME NEW h \in held, NEW start \in Times, NEW end \in Times,
             Move(h, start, end)
      PROVE  Inv'
  <2> DEFINE c == [id |-> h.id, resource |-> h.resource, start |-> start, end |-> end]
             S == held \ {h}
  <2>1. h \in Reservation
    OBVIOUS
  <2>2. c \in Reservation /\ c.id = h.id
    BY <1>2, <2>1 DEF Move, Reservation
  <2>3. \A g \in S : g.id # c.id
    BY <2>2 DEF NoDoubleBooking
  <2>4. held' = S \union {c} /\ Free(c, S) /\ UNCHANGED <<released, closed>>
    BY <1>2 DEF Move
  <2>5. S \in SUBSET Reservation /\ \A g, k \in S : (g.id = k.id \/ Clash(g, k)) => g = k
    BY DEF NoDoubleBooking
  <2> HIDE DEF c, S
  <2>6. \A g, k \in S \union {c} : (g.id = k.id \/ Clash(g, k)) => g = k
    BY <2>2, <2>3, <2>4, <2>5, AddingAFreeReservation
  <2>7. \A g \in held' : g.id \notin released'
    BY <2>2, <2>4 DEF NoDoubleBooking, S
  <2> QED BY <2>2, <2>4, <2>5, <2>6, <2>7 DEF NoDoubleBooking
<1>3. ASSUME NEW h \in held, Cancel(h) PROVE Inv'
  <2>1. h.id \in Ids
    BY DEF Reservation
  <2> QED BY <1>3, <2>1 DEF Cancel, NoDoubleBooking
<1>4. ASSUME NEW b \in Closure, Close(b) PROVE Inv'
  BY <1>4 DEF Close, NoDoubleBooking
<1>5. CASE UNCHANGED calendarVars
  BY <1>5 DEF calendarVars, NoDoubleBooking
<1> QED BY <1>1, <1>2, <1>3, <1>4, <1>5 DEF Next

\* In the promise no two confirmed bookings ever overlap: what a
\* service that implements it inherits.
THEOREM PromiseExcludesDoubleBooking == Spec => []NoDoubleBooking
<1>1. Init => Inv
  BY DEF Init, Inv
<1>2. Inv => NoDoubleBooking
  BY DEF Inv
<1> QED BY <1>1, <1>2, StepsKeepInv, PTL DEF Spec
=============================================================================
