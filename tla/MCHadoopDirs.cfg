SPECIFICATION Spec
CONSTANTS
  Profiles <- YarnOnly
  MaxFaults <- OneFault
INVARIANT DirectoriesOwned
