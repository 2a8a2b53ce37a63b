SPECIFICATION FairSpec
CONSTANTS
  Workers = {w1, w2}
  Clients = {}
  Events = {}
  None = None
PROPERTY EofEndsWorkers
CHECK_DEADLOCK FALSE
