SPECIFICATION FairSpec
CONSTANTS
  InitThreads = 1
  MaxThread = 2
  MaxHandle = 3
  Resource <- MCTwoResources
  Mask <- MCMask
  MAX_AUDIT_LOG_ENTRIES = 2
INVARIANTS
  TablesAgree
  Attenuation
  AuditTailFaithful
  RevocationTransitive
PROPERTIES
  ImplementsTree
  RevokeTerminates
CHECK_DEADLOCK FALSE
