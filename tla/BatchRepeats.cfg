SPECIFICATION FairSpec
CONSTANTS
  d1 = d1  d2 = d2  d3 = d3
  Device = {d1}
  Order <- NamedTwice
  NeedsCommit = {}
  MaxRetries = 0
  MaxFaults = 1
  MaxCrashes = 1
INVARIANTS BackupPredatesPush SuccessIsVerified NeverStuck
PROPERTIES BatchSettles StepsRunOut
CHECK_DEADLOCK FALSE
