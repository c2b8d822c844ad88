SPECIFICATION Spec
CONSTANTS
  d1 = d1  d2 = d2  d3 = d3
  Device = {d1, d2}
  Order <- TwoDevices
  NeedsCommit = {}
  MaxRetries = 0
  MaxFaults = 0
  MaxCrashes = 0
INVARIANTS AtomicRestoresDevices
CHECK_DEADLOCK FALSE
