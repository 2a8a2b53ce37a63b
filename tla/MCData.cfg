SPECIFICATION Spec
INVARIANTS
  StreamsRight
  ActionsRight
  ShuffleRight
  StatsRight
  VectorsRight
CHECK_DEADLOCK FALSE
