SPECIFICATION MCSpec
CONSTANTS
  Hosts <- MCHosts
  Master = "node1"
  Workers = {"node1", "node2"}
  Yarn = TRUE
  Within <- MCWithin
  Commands <- MCCommands
  MaxRuns = 4
  MaxFaults = 2
  Operators = {1, 2}
  Instances = {1}
  Pids = {p1, p2, p3}
  Operator = op1
  Slaves = 2
INVARIANTS
  CleanDeployWorks
  EntriesRight
  OneDaemon
  StopRight
  DoneIsComplete
  DestroyLeavesNothing
CHECK_DEADLOCK FALSE
