----------------------------- MODULE SlotProofs -----------------------------
(***************************************************************************)
(* Theorems of SlotSearch, for any inputs: the loop returns exactly the    *)
(* free slots, and what it offers on a date without a clock change nearby  *)
(* passes the checks of create_booking on local time.                      *)
(***************************************************************************)
EXTENDS SlotSearch, SlotRulesProofs

\* The free slots of the input.
Free == FreeSlots(input.zone, input.date, input.hours,
                  input.duration, input.busy, input.now)

\* The loop has found the free slots before the cursor, which stands a number
\* of steps after the start of the window.
IInv ==
  /\ input \in Inputs
  /\ pc \in {"begin", "loop", "done"}
  /\ pc = "begin" => slots = {}
  /\ pc = "loop" =>
       /\ input.hours # NoHours
       /\ cursor \in Int
       /\ cursor >= window.start
       /\ (cursor - window.start) % SlotStep = 0
       /\ slots = {t \in Free : t < cursor}
  /\ pc = "done" => slots = IF input.hours = NoHours THEN {} ELSE Free

\* The parts of an input.
LEMMA InputFields ==
  ASSUME NEW i \in Inputs
  PROVE  /\ i.zone \in Zone /\ i.date \in Int /\ i.hours \in Hours \union {NoHours}
         /\ i.duration \in Nat \ {0} /\ i.busy \in SUBSET Interval /\ i.now \in Int
BY InputsTyped DEF Input

\* The window's bounds are instants.
LEMMA WindowTyped ==
  ASSUME input \in Inputs, input.hours # NoHours
  PROVE  window.start \in Int /\ window.end \in Int
<1>1. /\ input.zone \in Zone /\ input.date \in Int
      /\ input.hours.open \in 0..(DayLength - 1) /\ input.hours.close \in 0..(DayLength - 1)
  BY InputFields DEF Hours
<1> QED BY <1>1, CombineIsNear DEF window, Window

\* Of the slots before the next position of the cursor only the one at the
\* cursor can be new.
LEMMA LoopKeepsIInv == ASSUME IInv, Loop PROVE IInv'
<1> DEFINE d == input.duration
<1>1. /\ pc = "loop" /\ input \in Inputs /\ input' = input /\ input.hours # NoHours
      /\ cursor \in Int /\ cursor >= window.start
      /\ (cursor - window.start) % SlotStep = 0
      /\ slots = {t \in Free : t < cursor}
  BY DEF Loop, IInv
<1>2. /\ window.start \in Int /\ window.end \in Int /\ d \in Nat \ {0}
      /\ input.now \in Int
      /\ input.zone \in Zone /\ input.date \in Int /\ input.hours \in Hours
      /\ input.busy \in SUBSET Interval
      /\ SlotStep \in Nat \ {0}
  BY <1>1, WindowTyped, InputFields, LengthsArePositive
<1>3. window' = window /\ Free' = Free
  BY <1>1 DEF window, Free
<1>4. \A t : t \in Free <=>
        /\ t \in Int /\ t >= window.start /\ t <= window.end - d
        /\ (t - window.start) % SlotStep = 0
        /\ t >= input.now /\ IsFree(t, d, input.busy)
  BY <1>2 DEF Free, FreeSlots, window
<1>5. CASE cursor + d <= window.end
  <2>1. /\ slots' = IF /\ cursor >= input.now
                       /\ IsFree(cursor, d, Fetched(input.date, input.busy))
                    THEN slots \union {cursor} ELSE slots
        /\ cursor' = cursor + SlotStep /\ pc' = pc
    BY <1>5 DEF Loop
  <2>2. IsFree(cursor, d, Fetched(input.date, input.busy)) <=> IsFree(cursor, d, input.busy)
    BY <1>1, <1>2, <1>5, QueriedDaysSuffice DEF window
  <2>3. slots' = IF cursor \in Free THEN slots \union {cursor} ELSE slots
    BY <1>1, <1>2, <1>4, <1>5, <2>1, <2>2
  <2>4. /\ ((cursor - window.start) + SlotStep) % SlotStep = 0
        /\ \A b \in Int : /\ cursor - window.start < b
                          /\ b < (cursor - window.start) + SlotStep
                          => b % SlotStep # 0
    BY <1>1, <1>2, NextStep
  <2>5. (cursor + SlotStep) - window.start = (cursor - window.start) + SlotStep
    BY <1>1, <1>2
  <2>6. ASSUME NEW t \in Free, cursor < t, t < cursor + SlotStep PROVE FALSE
    <3>1. /\ t - window.start \in Int /\ cursor - window.start < t - window.start
          /\ t - window.start < (cursor - window.start) + SlotStep
          /\ (t - window.start) % SlotStep = 0
      BY <1>1, <1>2, <1>4, <2>6
    <3> QED BY <2>4, <3>1
  <2>7. \A t \in Free : t < cursor + SlotStep <=> t < cursor \/ t = cursor
    BY <1>1, <1>2, <1>4, <2>6
  <2>8. slots' = {t \in Free : t < cursor'}
    BY <1>1, <2>1, <2>3, <2>7
  <2>9. cursor' \in Int /\ cursor' >= window.start
    BY <1>1, <1>2, <2>1
  <2> QED BY <1>1, <1>3, <2>1, <2>4, <2>5, <2>8, <2>9 DEF IInv
<1>6. CASE ~ (cursor + d <= window.end)
  <2>1. pc' = "done" /\ slots' = slots
    BY <1>6 DEF Loop
  <2>2. slots = Free
    BY <1>1, <1>2, <1>4, <1>6
  <2> QED BY <1>1, <1>3, <2>1, <2>2 DEF IInv
<1> QED BY <1>5, <1>6

\* The walk begins at the start of the window, with nothing found.
LEMMA BeginKeepsIInv == ASSUME IInv, Begin PROVE IInv'
<1>1. /\ pc = "begin" /\ input \in Inputs /\ input' = input /\ slots = {} /\ slots' = {}
  BY DEF Begin, IInv
<1>2. CASE input.hours = NoHours
  BY <1>1, <1>2 DEF Begin, IInv
<1>3. CASE input.hours # NoHours
  <2>1. pc' = "loop" /\ cursor' = window.start
    BY <1>3 DEF Begin
  <2>2. window' = window /\ Free' = Free
    BY <1>1 DEF window, Free
  <2>3. window.start \in Int /\ window.end \in Int /\ input.duration \in Nat
    BY <1>1, <1>3, WindowTyped, InputFields
  <2>4. \A t \in Free : t \in Int /\ t >= window.start
    BY <2>3 DEF Free, FreeSlots, window
  <2>5. (window.start - window.start) % SlotStep = 0
    <3>1. window.start - window.start = 0 * SlotStep + 0 /\ SlotStep \in Nat \ {0}
      BY <2>3, LengthsArePositive
    <3>2. (0 * SlotStep + 0) % SlotStep = 0
      BY <3>1, Divided
    <3> QED BY <3>1, <3>2
  <2>6. {} = {t \in Free : t < cursor'}
    BY <2>1, <2>3, <2>4
  <2> QED BY <1>1, <1>3, <2>1, <2>2, <2>3, <2>5, <2>6 DEF IInv
<1> QED BY <1>2, <1>3

\* The invariant holds throughout the walk.
LEMMA LoopInvariant == Spec => []IInv
<1>1. Init => IInv
  BY DEF Init, IInv
<1>2. IInv /\ [Next]_vars => IInv'
  <2>1. ASSUME IInv, UNCHANGED vars PROVE IInv'
    BY <2>1 DEF IInv, vars, window, Free
  <2> QED BY <2>1, BeginKeepsIInv, LoopKeepsIInv DEF Next, Done
<1> QED BY <1>1, <1>2, PTL DEF Spec

\* The search returns exactly the free slots: querying three UTC days misses
\* nothing, and the walk in steps neither skips nor invents a slot.
THEOREM SearchReturnsTheFreeSlots == Spec => []ReturnsTheFreeSlots
<1>1. IInv => ReturnsTheFreeSlots
  BY DEF IInv, ReturnsTheFreeSlots, Free
<1> QED BY <1>1, LoopInvariant, PTL

\* Away from clock changes every offered slot passes the checks of
\* create_booking on local time, in any zone.
THEOREM SteadyOffersAreAccepted == Spec => []AcceptedOnSteadyDates
<1>1. ASSUME IInv PROVE AcceptedOnSteadyDates
  <2> SUFFICES ASSUME SteadyDate(input.zone, input.date), NEW t \in slots
               PROVE  FitsHours(input.zone, input.date, input.hours, t, t + input.duration)
    BY DEF AcceptedOnSteadyDates, OfferedSlotsAreAccepted
  <2>1. input \in Inputs /\ input.hours # NoHours /\ t \in Free
    BY <1>1 DEF IInv
  <2>2. /\ input.zone \in Zone /\ input.date \in Int /\ input.hours \in Hours
        /\ input.duration \in Nat /\ window.start \in Int /\ window.end \in Int
    BY <2>1, InputFields, WindowTyped
  <2>3. t \in Int /\ t >= window.start /\ t + input.duration <= window.end
    BY <2>1, <2>2 DEF Free, FreeSlots, window
  <2> QED BY <2>2, <2>3, SlotsOfSteadyDatesFit DEF window
<1> QED BY <1>1, LoopInvariant, PTL
=============================================================================
