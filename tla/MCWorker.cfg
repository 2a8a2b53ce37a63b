SPECIFICATION MCSpec
CONSTANTS
  Accs = {a1, a2}
  Tasks = {t1, t2}
  Together = FALSE
  MaxAdd = 1
  MaxDriver = 1
  MaxRuns = 2
  MaxReloads = 0
  MaxErrors = 1
  NumIncludes = 1
  InBatch = 2
  NumAccums = 2
INVARIANTS
  UpdatesPropagated
  StreamAligned
  SuccessIsWhole
PROPERTY
  ImplementsSpec
CHECK_DEADLOCK FALSE
