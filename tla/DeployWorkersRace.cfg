CONSTANTS
  Actors = {alice}
  AutoActor = bot
  Plans = {p1}
  Ops = {o1}
  Keys = {k1}
  Deliveries = {}
  FirstAdmission = adm0
  WebWorkload = TRUE
  None = none
  MaxVersion = 2
  Calls = {c1}
  CrashableCalls = {c1}
  Runs = {r1, r2}
  CrashableRuns = {r1, r2}
  StopTargets = {"paused", "archived"}
  QueueGivesUp = TRUE
  ClockLag = 1
  MaxClock = 2
  Commit <- PushedCommits
SPECIFICATION Spec
CONSTRAINT TimePassesForOne
SYMMETRY Interchangeable
INVARIANT OneRunPerOperation
INVARIANT AppliedOnceAndFenced
PROPERTY HostUpIsEarned
CHECK_DEADLOCK FALSE
