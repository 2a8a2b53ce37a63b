SPECIFICATION MCSpec
CONSTANTS
  Operators = {o1}
  Slaves = 1
  NumZones = 1
  NumInst = 4
  NumRules = 2
  Options <- AllOptions
  MaxCommands = 2
  MaxInterrupts = 1
  Accs = {a1, a2}
  Tasks = {j1, j2}
  Threads = {t1, t2}
  NoContext = NoContext
INVARIANT
  FixedSize
PROPERTIES
  CommandEnds
  ReportsEnd
  GetsContext
  SampleEnds
CHECK_DEADLOCK FALSE
