CONSTANTS
  Schedules = {s1}
  Keys = {k1}
  Commands = {c1, c2}
  StopTargets = {"paused", "disabled", "archived"}
  Limit = 3
  MaxTime = 3
  MaxVersion = 3
  Gates = {g1}
  CrashableGates = {g1}
  Hour = 2
  LeaseTime = 1
  FailureLimit = 3
  None = none
SPECIFICATION Spec
SYMMETRY Interchangeable
INVARIANT ScheduleInvariant
INVARIANT StopsHold
PROPERTY ScheduleTimeMovesForward
CHECK_DEADLOCK FALSE
