SPECIFICATION FairSpec
CONSTANTS
  c1 = c1
  c2 = c2
  w1 = w1
  w2 = w2
  value1 = value1
  value2 = value2
  None = None
  Callers = {c1}
  Workloads = {w1, w2}
  Payloads = {value1, value2}
  Modes = {"create", "attach", "rotate"}
  Quarantined = {}
  Retires = TRUE
  Window = 1
  PlanLife = 0
  MaxTime = 1
  MaxPlans = 2
  MaxRecord = 8
  MaxVersions = 3
  MaxTrouble = 1
CHECK_DEADLOCK FALSE
PROPERTY StoredIsSubmitted
PROPERTY MutationsFinish
