SPECIFICATION FairSpec
CONSTANTS
  Workers = {w1, w2}
  Clients = {c1, c2}
  Events = {"sigterm", "crash"}
  None = None
INVARIANTS
  AtMostOneLate
PROPERTIES
  AcceptedIsServed
  NoClientHangs
  EofEndsManager
CHECK_DEADLOCK FALSE
