SPECIFICATION FairSpec
CONSTANTS
  d1 = d1  d2 = d2  d3 = d3
  Device = {d1, d2, d3}
  Order <- ThreeDevices
  NeedsCommit = {d3}
  MaxRetries = 0
  MaxFaults = 0
  MaxCrashes = 0
PROPERTIES EveryRowSettles
CHECK_DEADLOCK FALSE
