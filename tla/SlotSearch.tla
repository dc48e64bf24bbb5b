----------------------------- MODULE SlotSearch -----------------------------
(***************************************************************************)
(* The computation of the free slots of one resource: the loop of          *)
(* _calculate_resource_slots over a window, on any input.                  *)
(***************************************************************************)
EXTENDS SlotRules

CONSTANTS Inputs, NoHours

Input == [zone : Zone, date : Int, hours : Hours \union {NoHours},
          duration : Nat \ {0}, busy : SUBSET Interval, now : Int]

ASSUME InputsTyped == Inputs \subseteq Input
ASSUME NoHoursIsNone == NoHours \notin Hours

VARIABLES input, cursor, slots, pc
vars == <<input, cursor, slots, pc>>

Init ==
  /\ input \in Inputs
  /\ cursor = 0
  /\ slots = {}
  /\ pc = "begin"

window == Window(input.zone, input.date, input.hours)

\* Without a rule for the weekday there is nothing to offer.
Begin ==
  /\ pc = "begin"
  /\ IF input.hours = NoHours
       THEN pc' = "done" /\ UNCHANGED cursor
       ELSE pc' = "loop" /\ cursor' = window.start
  /\ UNCHANGED <<input, slots>>

\* Bug: the cursor stays where a slot is taken.
LoopStuckOnBusy ==
  /\ pc = "loop"
  /\ IF cursor + input.duration <= window.end
       THEN /\ IF /\ cursor >= input.now
                  /\ IsFree(cursor, input.duration, Fetched(input.date, input.busy))
                 THEN slots' = slots \union {cursor} /\ cursor' = cursor + SlotStep
                 ELSE UNCHANGED <<slots, cursor>>
            /\ UNCHANGED pc
       ELSE pc' = "done" /\ UNCHANGED <<cursor, slots>>
  /\ UNCHANGED input

Loop ==
  /\ pc = "loop"
  /\ IF cursor + input.duration <= window.end
       THEN /\ slots' = IF /\ cursor >= input.now
                           /\ IsFree(cursor, input.duration, Fetched(input.date, input.busy))
                        THEN slots \union {cursor} ELSE slots
            /\ cursor' = cursor + SlotStep
            /\ UNCHANGED pc
       ELSE pc' = "done" /\ UNCHANGED <<cursor, slots>>
  /\ UNCHANGED input

Done == pc = "done" /\ UNCHANGED vars

Next     == Begin \/ Loop \/ Done
Spec     == Init /\ [][Next]_vars
FairSpec == Spec /\ WF_vars(Begin \/ Loop)

-----------------------------------------------------------------------------
(* Properties.                                                             *)

\* The search returns exactly the free slots of the date: those that a
\* definition over all bookings and blackouts gives.  So the query of three
\* UTC days misses nothing that matters to a local day, in any zone, and the
\* loop neither skips nor repeats a slot, nor loses the last one.
ReturnsTheFreeSlots ==
  pc = "done" =>
    slots = IF input.hours = NoHours THEN {}
            ELSE FreeSlots(input.zone, input.date, input.hours,
                           input.duration, input.busy, input.now)

\* What the search offers can be booked: the users who search for free slots
\* and book them (README.md:6-7) find that a slot that has not started passes
\* the checks of create_booking on local time.
OfferedSlotsAreAccepted ==
  \A t \in slots :
    FitsHours(input.zone, input.date, input.hours, t, t + input.duration)

\* It can on every date that is not near a clock change, in any zone.
AcceptedOnSteadyDates ==
  SteadyDate(input.zone, input.date) => OfferedSlotsAreAccepted

\* The search ends.
SearchEnds == <>(pc = "done")
=============================================================================
