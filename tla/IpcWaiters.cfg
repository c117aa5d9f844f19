SPECIFICATION Spec
CONSTANTS
  Thread = {t1, t2, t3}
  None = None
  t1 = t1
  t2 = t2
  t3 = t3
  MAX_QUEUE_DEPTH = 1
  MAX_BATCH_SIZE = 1
  Timeout <- MCTimeout
  MaxPort = 3
  MaxSent = 1
INVARIANTS
  WaiterRegistered
  NoCircularWait
SYMMETRY ThreadSymmetry
CHECK_DEADLOCK FALSE
