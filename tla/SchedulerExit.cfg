SPECIFICATION Spec
CONSTANTS
  BootPriorities <- MCInitOnly
  MaxThread = 3
  MaxQueue = 6
INVARIANTS
  ExitIsFinal
