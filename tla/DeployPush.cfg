CONSTANTS
  Actors = {alice}
  AutoActor = bot
  Plans = {p1}
  Ops = {o1}
  Keys = {k1}
  Deliveries = {d1}
  FirstAdmission = adm0
  WebWorkload = FALSE
  None = none
  MaxVersion = 2
  Calls = {c1}
  CrashableCalls = {c1}
  Runs = {r1, r2}
  CrashableRuns = {}
  StopTargets = {}
  QueueGivesUp = FALSE
  ClockLag = 0
  MaxClock = 0
  Commit <- PushedCommits
SPECIFICATION Spec
SYMMETRY Interchangeable
INVARIANT PipelineInvariant
PROPERTY ImplementsLedger
CHECK_DEADLOCK FALSE
