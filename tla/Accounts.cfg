SPECIFICATION Spec
CONSTANTS
  p1 = p1  p2 = p2  e1 = e1  e2 = e2  app = app  schedule = schedule
  d1 = d1  d2 = d2  i1 = i1  a1 = a1  a2 = a2  g1 = g1  k1 = k1  k2 = k2
  r1 = r1  r2 = r2  c1 = c1  c2 = c2  s1 = s1  s2 = s2  v1 = v1  v2 = v2
  People = {p1, p2}
  Jobs = {d1, d2}
  MaxTime = 4
  Budgets <- MCBudgets
  MaxTrouble = 1
  LeaseDuration = 1
  MaxCollection = 1
  MaxStaleness = 1
  Admins = {p2}
  Callers = {c1, c2}
  States = {s1, s2}
  Refs = {v1, v2}
  NoRef = NoRef
  StateTtl = 1
  Runs = {i1}
  Entries = {e1, e2}
  EntryOwner <- MCEntryOwner
  Shared = Shared
  MaxBill = 2
  UserBudget = 1
  OrgCeiling = 2
  Resources = {app, schedule}
  ResourceOwner <- MCResourceOwner
  TaskTimeout = 1
  GuardMaxAge = 1
  Everyone = Everyone
  DayLength = 2
  Retention = 2
  TickDelay = 1
  Requests = {r1, r2}
  Arrivals = {a1, a2}
  Gateways = {g1}
  Keys = {k1, k2}
  App = app
  OriginWindow = 1
  SlackWindow = 1
  SlackAhead = 1
  CallTimeout = 1
  CacheTTL = 1
  FetchTimeout = 1
  DecisionTTL = 1
  BeatWindow = 1
CONSTRAINT OthersStay
SYMMETRY Interchangeable
CHECK_DEADLOCK FALSE
INVARIANTS
  TypeOK
  UsersFollowTheLastSnapshot
  CredentialFollowsInstall
  ServedOnce
PROPERTIES
  RetiredKeysExpire
  AccessIsRecent
  StopIsFinal
  CompletedRunStops
  RollupCatchesUp
