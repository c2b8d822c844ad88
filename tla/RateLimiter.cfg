CONSTANTS
  k1 = k1
  k2 = k2
  Key = {k1, k2}
  StrictKey = {k2}
  Limit = 2
  StrictLimit = 1
  Window = 3
  Lag = 1
  MaxNow = 5
SPECIFICATION LimiterSpec
INVARIANT WindowBound
