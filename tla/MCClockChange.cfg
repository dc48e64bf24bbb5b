SPECIFICATION Spec
CONSTANTS
  DayLength = 6
  SlotStep = 2
  NoHours = NoHours
  Inputs <- ChangingInputs
INVARIANTS
  OfferedSlotsAreAccepted
