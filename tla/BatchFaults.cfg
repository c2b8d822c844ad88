SPECIFICATION Spec
CONSTANTS
  d1 = d1  d2 = d2  d3 = d3
  Device = {d1, d2}
  Order <- TwoDevices
  NeedsCommit = {d1}
  MaxRetries = 1
  MaxFaults = 2
  MaxCrashes = 1
INVARIANTS TypeOK StagedRollout BackupPredatesPush SuccessIsVerified VerdictMatchesRows RollbackIsAudited
PROPERTIES ReopenedOnlyByRerun KeepsPromise WorkerAsSeen
CHECK_DEADLOCK FALSE
