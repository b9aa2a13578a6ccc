CONSTANTS
  Actors = {alice}
  AutoActor = bot
  Plans = {p1, p2}
  Ops = {o1, o2}
  Keys = {k1, k2}
  Deliveries = {d1, d2}
  FirstAdmission = adm0
  WebWorkload = TRUE
  None = none
  MaxVersion = 4
  Calls = {c1, c2}
  CrashableCalls = {c1, c2}
  Runs = {}
  CrashableRuns = {}
  StopTargets = {}
  QueueGivesUp = FALSE
  ClockLag = 0
  MaxClock = 0
  Commit <- PushedCommits
SPECIFICATION Spec
CONSTRAINT OneDoor
SYMMETRY Interchangeable
INVARIANT TypeOK
INVARIANT PlanSpentOnce
INVARIANT TaskMatchesReview
INVARIANT QueuedIsAudited
PROPERTY SourceMovesForward
CHECK_DEADLOCK FALSE
