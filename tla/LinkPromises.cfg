CONSTANTS
  Inputs <- LinkPromiseInputs
  MaxFaults = 1
  Hash <- MCHash
  MaxLinks = 3
SPECIFICATION Spec
CHECK_DEADLOCK FALSE
INVARIANT LinkPromises
