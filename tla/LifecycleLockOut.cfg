CONSTANTS
  app = app
  script = script
  s1 = s1
  s2 = s2
  Sweeps = {r1}
  CrashableSweeps = {r1}
  WebApps = {app}
  Scripts = {script}
  Secrets = {s1, s2}
  AttachedTo <- OwnSecrets
  InUse = {app}
  GoneBefore <- NoneGone
  HoldSets <- ScriptHeld
  WarningDays = 0
  CleanupDays = 1
  GraceDays = 1
  MaxDay = 1
  MaxUserVersion = 2
  MaxVersion = 2
  MaxTrouble = 1
  None = None
SPECIFICATION FairSpec
PROPERTY LeaversAreLockedOut
CHECK_DEADLOCK FALSE
INVARIANT HeldIsKept
