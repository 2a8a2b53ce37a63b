SPECIFICATION Spec
CONSTANTS
  Profiles <- AllProfiles
  MaxFaults <- FaultBound
INVARIANTS
  CleanRunSucceeds
  ServicesAfterDirs
PROPERTY
  HdfsNeverWiped
