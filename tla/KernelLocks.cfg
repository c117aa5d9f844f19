SPECIFICATION Spec
CONSTANTS
  MaxThread = 2
CHECK_DEADLOCK FALSE
INVARIANTS
  PrintNeverSpins
  SuspendedHoldsOnlyThreadList
  MaskedSectionUninterrupted
