SPECIFICATION MCSpec
CONSTANTS
  Threads = {t1, t2, t3}
  None = None
  Faults = TRUE
  Uses <- MCUses
  Keeps <- MCKeeps
  MaxJrdds = 4
INVARIANTS
  ActiveOwnsAll
  LineageKept
  PartitioningSound
  BroadcastsSent
  CacheHeld
CHECK_DEADLOCK FALSE
