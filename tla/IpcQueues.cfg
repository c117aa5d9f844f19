SPECIFICATION TimerSpec
CONSTANTS
  Thread = {t1, t2}
  None = None
  t1 = t1
  t2 = t2
  MAX_QUEUE_DEPTH = 3
  MAX_BATCH_SIZE = 2
  Timeout <- MCTimeout
  MaxPort = 2
  MaxSent = 4
INVARIANTS
  FifoNoLoss
PROPERTIES
  DeadlineFires
CHECK_DEADLOCK FALSE
