SPECIFICATION FairSpec
CONSTANTS
  d1 = d1  d2 = d2  b1 = b1  b2 = b2
  Device = {d1, d2}
  Request = {b1}
  MaxStamp = 2
  MaxUndos = 1
  MaxReturns = 1
INVARIANTS TypeOK NoRowIsLost DeployedIsFresh UndoMeetsEnded
PROPERTIES AcceptedSettles
CHECK_DEADLOCK FALSE
