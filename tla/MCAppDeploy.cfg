SPECIFICATION Spec
CONSTANTS
  dev = dev
  ops = ops
  v1 = v1
  v2 = v2
  Shells <- MCShells
  Servers <- MCServers
  All <- MCAll
  Invocations <- MCInvocations
  DriverIds = {d1, d2}
  None = None
  Truncated = Truncated
  MaxJar = 2
INVARIANTS
  TypeOK
  NoStaleLaunch
  RecordNamesItsServer
PROPERTY
  OutputFilesMatch
SYMMETRY DriverSymmetry
