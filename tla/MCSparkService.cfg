SPECIFICATION FairSpec
CONSTANTS
  Num = 5
  RespawnLimit = 10
  MaxFaults = 13
INVARIANTS
  LogsInOrder
  NoGapInHistory
PROPERTIES
  LostOnlyFromLast
  Restarted
CHECK_DEADLOCK FALSE
