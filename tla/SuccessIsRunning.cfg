SPECIFICATION Spec
CONSTANTS
  d1 = d1  d2 = d2  d3 = d3
  Device = {d1, d2}
  Order <- TwoDevices
  NeedsCommit = {d1, d2}
  MaxRetries = 0
  MaxFaults = 0
  MaxCrashes = 0
INVARIANTS SuccessIsRunning
CHECK_DEADLOCK FALSE
