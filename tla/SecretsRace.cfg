SPECIFICATION Spec
CONSTANTS
  c1 = c1
  c2 = c2
  w1 = w1
  w2 = w2
  value1 = value1
  value2 = value2
  None = None
  Callers = {c1, c2}
  Workloads = {w1, w2}
  Payloads = {value2}
  Modes = {"create", "attach", "rotate"}
  Quarantined = {w1, w2}
  Retires = TRUE
  Window = 1
  PlanLife = 0
  MaxTime = 1
  MaxPlans = 2
  MaxRecord = 6
  MaxVersions = 3
  MaxTrouble = 1
SYMMETRY Symmetry
CHECK_DEADLOCK FALSE
INVARIANT TypeOK
INVARIANT VersionsFollowTheRecord
INVARIANT ReadersAreReviewed
INVARIANT SucceededIsDone
PROPERTY WindowIsKept
