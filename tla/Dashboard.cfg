CONSTANTS
  s1 = s1
  d1 = d1
  d2 = d2
  Session = {s1}
  Device = {d1, d2}
  NoDevice = NoDevice
  MaxClicks = 2
  MaxConfigs = 1
  MaxFaults = 1
  Key = {"history"}
  StrictKey = {}
  Limit = 1
  StrictLimit = 1
  Window = 2
  Lag = 0
  MaxNow = 1
SPECIFICATION Spec
INVARIANTS
  TypeOK
  DefaultsComeFirst
  FormConfiguresAll
  ShownIsTrue
PROPERTY
  ClickAnswered
CHECK_DEADLOCK FALSE
