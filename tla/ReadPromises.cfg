CONSTANTS
  Inputs <- ReadPromiseInputs
  MaxFaults = 0
  Hash <- MCHash
  MaxLinks = 3
SPECIFICATION Spec
CHECK_DEADLOCK FALSE
INVARIANT ReadPromises
