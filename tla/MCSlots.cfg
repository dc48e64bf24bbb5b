SPECIFICATION FairSpec
CONSTANTS
  DayLength = 6
  SlotStep = 2
  NoHours = NoHours
  Inputs <- AllInputs
INVARIANTS
  ReturnsTheFreeSlots
  AcceptedOnSteadyDates
PROPERTIES
  SearchEnds
