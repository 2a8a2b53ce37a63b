SPECIFICATION Spec
CONSTANTS
  Threads = {t1, t2, t3}
  None = None
  Faults = FALSE
INVARIANT OneRunning
CHECK_DEADLOCK FALSE
