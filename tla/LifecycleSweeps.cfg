CONSTANTS
  app = app
  script = script
  s1 = s1
  s2 = s2
  Sweeps = {r1, r2}
  CrashableSweeps = {r1}
  WebApps = {app}
  Scripts = {script}
  Secrets = {s1, s2}
  AttachedTo <- OwnSecrets
  InUse = {app, script}
  GoneBefore <- OneGone
  HoldSets <- NoHolds
  WarningDays = 0
  CleanupDays = 1
  GraceDays = 1
  MaxDay = 1
  MaxUserVersion = 2
  MaxVersion = 2
  MaxTrouble = 1
  None = None
SPECIFICATION Spec
INVARIANT TypeOK
INVARIANT LeaseExcludes
INVARIANT QuarantinedIsCut
INVARIANT ArchivedIsGone
PROPERTY CleanupsAreDue
CHECK_DEADLOCK FALSE
