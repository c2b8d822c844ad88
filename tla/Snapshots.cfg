CONSTANTS
  k1 = k1
  k2 = k2
  a1 = a1
  a2 = a2
  b1 = b1
  x = x
  v1 = v1
  v2 = v2
  Deployment = {k1, k2}
  Attempt = {a1, a2, b1}
  DeploymentOf <- MCDeploymentOf
  Key = {x}
  Value = {v1, v2}
  NoLine = NoLine
  Pushes <- MCPushes
  Initial <- MCInitial
  Unread = Unread
  Null = Null
  NoSnapshot = NoSnapshot
  MaxRestores = 1
  MaxFaults = 1
SPECIFICATION Spec
INVARIANTS
  TypeOK
  EarliestIsPreImage
  RowsTellChange
PROPERTY
  RestoreUndoesOwn
SYMMETRY Workers
CHECK_DEADLOCK FALSE
