SPECIFICATION Spec
CONSTANTS
  NumRanks = 3
  Program <- MCProgram
  SlotOf <- MCSlotOf
  MaxFailures = 1
CHECK_DEADLOCK FALSE
INVARIANTS PutsAreLeased RightParts NoSignalLeft
PROPERTIES AllCallsEnd ImplementsReshard
