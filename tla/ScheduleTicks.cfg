CONSTANTS
  Schedules = {s1}
  Keys = {k1}
  Commands = {c1}
  StopTargets = {}
  Limit = 3
  MaxTime = 4
  MaxVersion = 3
  Gates = {g1, g2}
  CrashableGates = {g1}
  Hour = 2
  LeaseTime = 1
  FailureLimit = 2
  None = none
SPECIFICATION Spec
SYMMETRY Interchangeable
INVARIANT JobsRunOncePerTick
INVARIANT SuccessMeansExecuted
INVARIANT AttemptsInOrder
CHECK_DEADLOCK FALSE
