------------------------------ MODULE MCSlots ------------------------------
(***************************************************************************)
(* Inputs of SlotSearch: date 1 of days of six ticks, all working hours,   *)
(* zones at both extremes, up to three bookings or blackouts near the date.*)
(***************************************************************************)
EXTENDS SlotSearch

Steady(offset)  == [before |-> offset, after |-> offset, change |-> 0]
Soon(offset)    == [before |-> offset, after |-> offset + 1, change |-> 19]

SteadyZones     == {Steady(-5), Steady(-1), Steady(0), Steady(5), Soon(2)}
\* The clock is put back, or put forward, by one tick on the date.
ChangingZones   == {[before |-> 1, after |-> 0, change |-> 8],
                    [before |-> 0, after |-> 1, change |-> 8]}

From(s, e) == [start |-> s, end |-> e]
BusySets   == {{}, {From(1, 3)}, {From(7, 8)}, {From(8, 10), From(12, 16)},
               {From(6, 7), From(9, 10)}, {From(0, 2), From(3, 5), From(14, 15)},
               {From(-9, -5), From(10, 11), From(17, 19)}}

InputsIn(zones) ==
  [zone : zones, date : {1}, hours : Hours \union {NoHours}, duration : 1..3,
   busy : BusySets, now : {0, 7, 9}]

AllInputs      == InputsIn(SteadyZones \union ChangingZones)
ChangingInputs == InputsIn(ChangingZones)
=============================================================================
