SPECIFICATION Spec
CONSTANTS
  BootPriorities <- MCBootPriorities
  MaxThread = 4
  MaxQueue = 8
INVARIANTS
  OnlyCurrentRuns
  ReadyQueued
PROPERTIES
  TurnAdvances
