CONSTANTS
  Actors = {alice}
  AutoActor = bot
  Plans = {p1}
  Ops = {o1}
  Keys = {k1}
  Deliveries = {}
  FirstAdmission = adm0
  WebWorkload = TRUE
  None = none
  MaxVersion = 2
  Calls = {c1}
  CrashableCalls = {}
  Runs = {r1}
  CrashableRuns = {}
  StopTargets = {"paused", "quarantined"}
  QueueGivesUp = FALSE
  ClockLag = 0
  MaxClock = 0
  Commit <- PushedCommits
SPECIFICATION FairSpec
PROPERTY QueuedOperationsSettle
CHECK_DEADLOCK FALSE
