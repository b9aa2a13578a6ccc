------------------------------ MODULE Lifecycle ------------------------------
(****************************************************************************)
(* The lifecycle maintenance job (jobs/lifecycle.py): one sweep at a time   *)
(* takes a named lease, records that it started, reconciles a person's      *)
(* workloads with the state of the account (workers/lifecycle.py), carries  *)
(* out the planned warnings and cleanups, and records how it ended.  The    *)
(* sweep treats users one after the other and they share nothing but the    *)
(* job's status, so the model follows one user.                             *)
(****************************************************************************)
EXTENDS Integers, FiniteSets, MimStates

CONSTANTS
  Sweeps,          \* executions of the job that can be alive at once
  CrashableSweeps, \* those that may die anywhere, or outlive their lease
  WebApps,         \* the user's web workloads, with a public host
  Scripts,         \* the user's scheduled scripts, with a schedule
  Secrets,         \* the user's secrets
  AttachedTo,      \* the workloads a secret is bound to
  InUse,           \* the workloads that see activity
  GoneBefore,      \* sets of workloads that were archived before the start
  HoldSets,        \* what the hold document of the user may list
  WarningDays,     \* INACTIVITY_WARNING_DAYS, 23
  CleanupDays,     \* CLEANUP_DAYS, 30
  GraceDays,       \* TRANSFER_GRACE_DAYS, 7
  MaxDay, MaxUserVersion, MaxVersion,   \* bounds of what the environment does
  MaxTrouble,      \* bound of crashes and lapsed leases in a behaviour
  None

Workloads == WebApps \cup Scripts

ASSUME LifecycleParameters ==
  /\ CrashableSweeps \subseteq Sweeps
  /\ WebApps \cap Scripts = {}
  /\ AttachedTo \in [Secrets -> SUBSET Workloads]
  /\ HoldSets \subseteq SUBSET Workloads
  /\ InUse \subseteq Workloads
  /\ GoneBefore \subseteq SUBSET Workloads
  /\ WarningDays \in Nat /\ CleanupDays \in Nat /\ GraceDays \in Nat
  /\ WarningDays < CleanupDays
  /\ {MaxDay, MaxUserVersion, MaxVersion, MaxTrouble} \subseteq Nat
  /\ None \notin Sweeps

VARIABLES
  day, account,    \* the clock and the user record
  works, hosts, compute,         \* workloads, public hosts, Cloud Run
  schedules, timers,             \* schedule records and Cloud Scheduler jobs
  secrets, readers, grant,       \* secret records, IAM accessors, Slack link
  actions, notices,              \* lifecycle actions, audit events
  lease, status,                 \* the overlap lease, the run that has started last
                                 \* and has no outcome yet
  sweeps,                        \* what each execution has read, and its step
  trouble                        \* crashes and lapses so far

recordVars == << works, hosts, compute, schedules, timers, secrets, readers, grant,
                 actions, notices >>
jobVars == << lease, status >>
vars == << day, account, recordVars, jobVars, sweeps, trouble >>

Days == 0..MaxDay
LockedStates == {"suspended", "offboarded"}

UserRecord == [state : {"active"} \cup LockedStates, version : Nat, updated : Days]
WorkRecord == [state : WorkloadStates, version : Nat, updated : Days, used : Days]
ScheduleRecord == [state : ScheduleStates, version : Nat, updated : Days]
SecretRecord == [state : {"active", "locked"}, version : Nat]

(* What the status document of the job says, as far as a sweep depends on   *)
(* it: a run that has started has no outcome, and one with an outcome has   *)
(* ended.                                                                   *)
JobStatus == Sweeps \cup {None}

(* The id of an action is built from these parts (_cleanup_action_id).      *)
ActionIds == [workload : Workloads, why : {"warning", "inactive", "locked"},
              eligible : Nat, version : Nat]
ActionRecord == [id : ActionIds, reason : {"active"} \cup LockedStates, created : Days,
                 state : {"planned", "executed", "cancelled"}]
Guards == [user : UserRecord, work : WorkRecord]
Planned == [id : ActionIds, reason : {"active"} \cup LockedStates, guard : Guards]

SweepSteps == {"idle", "start", "begin", "plan", "deny", "quarantine", "host", "unbind",
               "lock", "save", "revoke", "schedule", "disable", "admin", "persist",
               "recover", "execute", "revalidate", "reread", "archive", "archived",
               "delete", "retire", "finish", "mark", "terminal", "release"}

SweepRecord ==
  [pc : SweepSteps, at : Days, lapsed : BOOLEAN,
   lock : Days \cup {None},               \* account_locked_at
   holds : SUBSET Workloads, user : UserRecord \cup {None},
   todo : SUBSET Workloads,               \* workloads, then schedules, still to visit
   work : Workloads \cup {None}, read : WorkRecord \cup {None},
   schedule : ScheduleRecord \cup {None},
   cuts : SUBSET Secrets, attached : SUBSET Secrets,
   seen : [Secrets -> SecretRecord] \cup {None},
   plan : SUBSET Planned, wanted : SUBSET ActionRecord,
   doing : Planned \cup {None}]

IdleSweep ==
  [pc |-> "idle", at |-> 0, lapsed |-> FALSE, lock |-> None,
   holds |-> {}, user |-> None, todo |-> {}, work |-> None, read |-> None,
   schedule |-> None, cuts |-> {}, attached |-> {}, seen |-> None, plan |-> {},
   wanted |-> {}, doing |-> None]

TypeOK ==
  /\ day \in Days
  /\ account \in UserRecord
  /\ works \in [Workloads -> WorkRecord]
  /\ hosts \in [WebApps -> BindingStates]
  /\ compute \in [Workloads -> BOOLEAN]
  /\ schedules \in [Scripts -> ScheduleRecord]
  /\ timers \in [Scripts -> {"enabled", "paused", "deleted"}]
  /\ secrets \in [Secrets -> SecretRecord]
  /\ readers \in [Secrets -> SUBSET Workloads]
  /\ grant \in BOOLEAN
  /\ actions \subseteq ActionRecord
  /\ \A a, b \in actions : a.id = b.id => a = b
  /\ lease \in [holder : Sweeps \cup {None}, over : BOOLEAN]
  /\ status \in JobStatus
  /\ sweeps \in [Sweeps -> SweepRecord]
  /\ trouble \in 0..MaxTrouble

(* At the start some workloads may have been archived before.               *)
InitAfter(gone) ==
  /\ day = 0
  /\ account = [state |-> "active", version |-> 1, updated |-> 0]
  /\ works = [w \in Workloads |->
                [state |-> IF w \in gone THEN "archived" ELSE "active",
                 version |-> 1, updated |-> 0, used |-> 0]]
  /\ hosts = [w \in WebApps |-> IF w \in gone THEN "retired" ELSE "active"]
  /\ compute = [w \in Workloads |-> w \notin gone]
  /\ schedules = [w \in Scripts |->
                    [state |-> IF w \in gone THEN "archived" ELSE "enabled",
                     version |-> 1, updated |-> 0]]
  /\ timers = [w \in Scripts |-> IF w \in gone THEN "deleted" ELSE "enabled"]
  /\ secrets = [s \in Secrets |-> [state |-> "active", version |-> 1]]
  /\ readers = AttachedTo
  /\ grant = TRUE
  /\ actions = {}
  /\ notices = {}
  /\ lease = [holder |-> None, over |-> FALSE]
  /\ status = None
  /\ sweeps = [r \in Sweeps |-> IdleSweep]
  /\ trouble = 0

Init == \E gone \in GoneBefore : InitAfter(gone)

Locked(user) == user.state \in LockedStates

----------------------------------------------------------------------------
(* Pure policy: services/lifecycle.py.                                      *)

ActionId(w, work, why, eligible) ==
  [workload |-> w, why |-> why, eligible |-> eligible, version |-> work.version]
Plan(w, work, user, why, eligible) ==
  [id |-> ActionId(w, work, why, eligible), reason |-> user.state,
   guard |-> [user |-> user, work |-> work]]

(* Mutated: a hold does not keep the workload of a locked account.          *)
LockedCleanupsOverHolds(user, ws, holds, lock, at) ==
  { Plan(w, ws[w], user, "locked", lock + GraceDays) :
      w \in { x \in Workloads : /\ lock # None
                                /\ lock <= at
                                /\ at >= lock + GraceDays
                                /\ ws[x].state = "quarantined" } }

(* A locked account: the cleanup of each quarantined workload once the      *)
(* grace is over.  The anchor is account_locked_at, which a later instant   *)
(* than now invalidates.                                                    *)
LockedCleanups(user, ws, holds, lock, at) ==
  { Plan(w, ws[w], user, "locked", lock + GraceDays) :
      w \in { x \in Workloads : /\ lock # None
                                /\ lock <= at
                                /\ at >= lock + GraceDays
                                /\ x \notin holds
                                /\ ws[x].state = "quarantined" } }

(* Mutated: the cleanup is planned when the warning is.                     *)
InactivityActionsEarly(user, ws, holds, at) ==
  LET idle == { x \in Workloads : /\ ws[x].state # "archived"
                                  /\ at >= ws[x].used + WarningDays } IN
  { Plan(w, ws[w], user, "inactive", ws[w].used + CleanupDays) : w \in idle \ holds }
  \cup
  { Plan(w, ws[w], user, "warning", ws[w].used + WarningDays) : w \in idle }

(* An active account: a warning after WarningDays without activity, the     *)
(* cleanup after CleanupDays.                                               *)
InactivityActions(user, ws, holds, at) ==
  { Plan(w, ws[w], user, "inactive", ws[w].used + CleanupDays) :
      w \in { x \in Workloads : /\ ws[x].state # "archived"
                                /\ at >= ws[x].used + CleanupDays
                                /\ x \notin holds } }
  \cup
  { Plan(w, ws[w], user, "warning", ws[w].used + WarningDays) :
      w \in { x \in Workloads : /\ ws[x].state # "archived"
                                /\ at >= ws[x].used + WarningDays
                                /\ at < ws[x].used + CleanupDays } }

PlannedActions(user, ws, holds, lock, at) ==
  IF Locked(user) THEN LockedCleanups(user, ws, holds, lock, at)
                  ELSE InactivityActions(user, ws, holds, at)

(* Mutated: a leaver's workloads are forgotten.                             *)
QuarantineProposalsIfSuspended(user, ws) ==
  { w \in Workloads : user.state = "suspended" /\ ws[w].state = "active" }

(* Workloads to quarantine, and scripts whose schedule is to be disabled.   *)
QuarantineProposals(user, ws) ==
  { w \in Workloads : Locked(user) /\ ws[w].state \notin {"quarantined", "archived"} }
DisableProposals(user, ss) ==
  { w \in Scripts : /\ Locked(user)
                    /\ ss[w].state \notin {"disabled", "archived", "quarantined"} }

(* _invalid_cleanup_reason: the cleanup stands only if neither the user nor *)
(* the workload moved since it was planned.                                 *)
CleanupStands(p, user, work) ==
  /\ user = p.guard.user
  /\ work = p.guard.work

----------------------------------------------------------------------------
(* Steps of a sweep                                                         *)

Put(r, fields) == sweeps' = [sweeps EXCEPT ![r] = fields]
Goto(r, step) == sweeps' = [sweeps EXCEPT ![r].pc = step]

(* The work for this user ends; anything the sweep does not handle ends it. *)
EndUser(r) ==
  Put(r, [IdleSweep EXCEPT !.pc = "terminal", !.lapsed = sweeps[r].lapsed])
FailUser(r) == EndUser(r)
(* A ValueError inside reconcile_user is not the end: the sweep looks for   *)
(* actions an earlier sweep planned (_recover_replayed_actions).            *)
Recover(r) ==
  LET s == sweeps[r] IN
  Put(r, [IdleSweep EXCEPT !.pc = "recover", !.at = s.at, !.lock = s.lock,
                           !.holds = s.holds, !.lapsed = s.lapsed])

Environment == << day, account, trouble >>

(* FirestoreNamedOverlapLease.try_acquire.  The clock of the sweep is read  *)
(* before it (jobs/lifecycle.py).                                           *)
LeaseFree == lease.holder = None \/ lease.over
Acquire(r) ==
  /\ sweeps[r].pc = "idle"
  /\ LeaseFree
  /\ lease' = [holder |-> r, over |-> FALSE]
  /\ sweeps' = [sweeps EXCEPT ![r].pc = "start"]
  /\ UNCHANGED << Environment, recordVars, status >>

(* record_maintenance_job_started: a new version with a new run id.         *)
RecordStarted(r) ==
  /\ sweeps[r].pc = "start"
  /\ status' = r
  /\ sweeps' = [sweeps EXCEPT ![r].pc = "begin", ![r].at = day]
  /\ UNCHANGED << Environment, recordVars, lease >>

(* list_users and resolve_holds: an absent hold document holds nothing.     *)
BeginUser(r) ==
  /\ sweeps[r].pc = "begin"
  /\ \E h \in HoldSets :
       Put(r, [sweeps[r] EXCEPT !.pc = "plan", !.holds = h,
                 !.lock = IF Locked(account) THEN account.updated ELSE None])
  /\ UNCHANGED << Environment, recordVars, jobVars >>

(* A hold document that has expired, is more than an hour old or does not   *)
(* list the user's workloads exactly fails the user, quarantines included.  *)
HoldsDenied(r) ==
  /\ sweeps[r].pc = "begin"
  /\ FailUser(r)
  /\ UNCHANGED << Environment, recordVars, jobVars >>

(* reconcile_user reads the user, the workloads and the schedules, and      *)
(* plans from them.  todo holds the quarantines; the schedules to disable   *)
(* are worked out from the same reading of the user.                        *)
ReadAndPlan(r) ==
  LET s == sweeps[r] IN
  /\ s.pc = "plan"
  /\ LET plan == PlannedActions(account, works, s.holds, s.lock, s.at) IN
     Put(r, [s EXCEPT
       !.pc = IF Locked(account) THEN "deny" ELSE "persist",
       !.user = account,
       !.todo = QuarantineProposals(account, works),
       !.plan = plan,
       !.wanted = { [id |-> p.id, reason |-> p.reason, created |-> s.at,
                     state |-> "planned"] : p \in plan }])
  /\ UNCHANGED << Environment, recordVars, jobVars >>

(* deny_user_sessions, notify_admin and open_transfer_window ask that the   *)
(* user still is in the state the reason names.                             *)
StillAsPlanned(r) == account.state = sweeps[r].user.state

DenySessions(r) ==
  /\ sweeps[r].pc = "deny"
  /\ IF StillAsPlanned(r)
       THEN /\ notices' = notices \cup {<< "deny", account.state >>}
            /\ Goto(r, "quarantine")
       ELSE FailUser(r) /\ UNCHANGED notices
  /\ UNCHANGED << Environment, works, hosts, compute, schedules, timers, secrets,
                  readers, grant, actions, jobVars >>

(* Mutated: the workload is saved before its secrets are cut off.           *)
NextQuarantineSavingFirst(r) ==
  LET s == sweeps[r] IN
  /\ s.pc = "quarantine"
  /\ \/ /\ s.todo = {}
        /\ Goto(r, "revoke")
     \/ \E w \in s.todo :
          Put(r, [s EXCEPT !.todo = @ \ {w}, !.pc = "save", !.work = w,
                           !.read = works[w]])
  /\ UNCHANGED << Environment, recordVars, jobVars >>

(* The next proposal, read again: a workload that is quarantined by now is  *)
(* skipped.  After the last one the Slack grant goes.                       *)
NextQuarantine(r) ==
  LET s == sweeps[r] IN
  /\ s.pc = "quarantine"
  /\ \/ /\ s.todo = {}
        /\ Goto(r, "revoke")
     \/ \E w \in s.todo :
          Put(r, IF works[w].state = "quarantined"
                   THEN [s EXCEPT !.todo = @ \ {w}]
                   ELSE [s EXCEPT !.todo = @ \ {w}, !.pc = "host", !.work = w,
                                  !.read = works[w]])
  /\ UNCHANGED << Environment, recordVars, jobVars >>

(* remove_owner_access, then the list of attached secrets.                  *)
DisableHost(r) ==
  LET s == sweeps[r]
      attached == {x \in Secrets : s.work \in AttachedTo[x]} IN
  /\ s.pc = "host"
  /\ IF works[s.work].version = s.read.version /\ StillAsPlanned(r)
       THEN /\ hosts' = IF s.work \in WebApps /\ hosts[s.work] = "active"
                          THEN [hosts EXCEPT ![s.work] = "disabled"] ELSE hosts
            /\ Put(r, [s EXCEPT !.pc = "unbind", !.cuts = attached,
                                !.attached = attached, !.seen = secrets])
       ELSE FailUser(r) /\ UNCHANGED hosts
  /\ UNCHANGED << Environment, works, compute, schedules, timers, secrets, readers,
                  grant, actions, notices, jobVars >>

(* remove_workload_bindings for one secret: the accessors must be exactly   *)
(* the attached workloads, or those without this one.                       *)
Unbindable(x, w) == readers[x] \in {AttachedTo[x], AttachedTo[x] \ {w}}

Unbind(r) ==
  LET s == sweeps[r] IN
  /\ s.pc = "unbind"
  /\ \/ /\ s.cuts = {}
        /\ Goto(r, "lock")
        /\ UNCHANGED readers
     \/ \E x \in s.cuts :
          IF works[s.work].version = s.read.version /\ Unbindable(x, s.work)
            THEN /\ readers' = [readers EXCEPT ![x] = AttachedTo[x] \ {s.work}]
                 /\ Put(r, [s EXCEPT !.cuts = @ \ {x}])
            ELSE FailUser(r) /\ UNCHANGED readers
  /\ UNCHANGED << Environment, works, hosts, compute, schedules, timers, secrets,
                  grant, actions, notices, jobVars >>

(* _lock_secret, from the list read before the bindings were removed.       *)
LockSecret(r) ==
  LET s == sweeps[r] IN
  /\ s.pc = "lock"
  /\ \/ /\ s.attached = {}
        /\ Put(r, [s EXCEPT !.pc = "save", !.seen = None])
        /\ UNCHANGED secrets
     \/ \E x \in s.attached :
          IF s.seen[x].state # "active"
            THEN Put(r, [s EXCEPT !.attached = @ \ {x}]) /\ UNCHANGED secrets
            ELSE IF secrets[x].version = s.seen[x].version
              THEN /\ secrets' = [secrets EXCEPT
                        ![x] = [state |-> "locked", version |-> @.version + 1]]
                   /\ Put(r, [s EXCEPT !.attached = @ \ {x}])
              ELSE FailUser(r) /\ UNCHANGED secrets
  /\ UNCHANGED << Environment, works, hosts, compute, schedules, timers, readers,
                  grant, actions, notices, jobVars >>

(* The save: an older clock reading than the record, or a transition that   *)
(* the table forbids, is a ValueError; a newer version is a conflict.       *)
Advance(rec, target, at) ==
  [rec EXCEPT !.state = target, !.version = @ + 1, !.updated = at]

QuarantineWorkload(r) ==
  LET s == sweeps[r] IN
  /\ s.pc = "save"
  /\ IF s.at < s.read.updated \/ "quarantined" \notin WorkloadMoves[s.read.state]
       THEN Recover(r) /\ UNCHANGED works
       ELSE IF works[s.work].version # s.read.version
         THEN FailUser(r) /\ UNCHANGED works
         ELSE /\ works' = [works EXCEPT
                    ![s.work] = Advance(s.read, "quarantined", s.at)]
              /\ Put(r, [s EXCEPT !.pc = "quarantine", !.work = None, !.read = None])
  /\ UNCHANGED << Environment, hosts, compute, schedules, timers, secrets, readers,
                  grant, actions, notices, jobVars >>

(* revoke_user_grant; the schedules come next.                              *)
RevokeGrant(r) ==
  /\ sweeps[r].pc = "revoke"
  /\ IF StillAsPlanned(r)
       THEN /\ grant' = FALSE
            /\ Put(r, [sweeps[r] EXCEPT !.pc = "schedule",
                       !.todo = DisableProposals(sweeps[r].user, schedules)])
       ELSE FailUser(r) /\ UNCHANGED grant
  /\ UNCHANGED << Environment, works, hosts, compute, schedules, timers, secrets,
                  readers, actions, notices, jobVars >>

(* apply_schedule_state pauses the Cloud Scheduler job first.               *)
PauseTimer(r) ==
  LET s == sweeps[r] IN
  /\ s.pc = "schedule"
  /\ \/ /\ s.todo = {}
        /\ Put(r, [s EXCEPT !.pc = "admin", !.work = None])
        /\ UNCHANGED timers
     \/ \E w \in s.todo :
          IF schedules[w].state = "disabled"
            THEN Put(r, [s EXCEPT !.todo = @ \ {w}]) /\ UNCHANGED timers
            ELSE IF StillAsPlanned(r)
              THEN /\ timers' = IF timers[w] = "enabled"
                                  THEN [timers EXCEPT ![w] = "paused"] ELSE timers
                   /\ Put(r, [s EXCEPT !.pc = "disable", !.work = w,
                              !.schedule = schedules[w], !.todo = @ \ {w}])
              ELSE FailUser(r) /\ UNCHANGED timers
  /\ UNCHANGED << Environment, works, hosts, compute, schedules, secrets, readers,
                  grant, actions, notices, jobVars >>

SaveSchedule(r, target, next) ==
  LET s == sweeps[r] IN
  IF s.at < s.schedule.updated \/ target \notin ScheduleMoves[s.schedule.state]
    THEN /\ IF target = "disabled" THEN Recover(r) ELSE FailUser(r)
         /\ UNCHANGED schedules
    ELSE IF schedules[s.work].version # s.schedule.version
      THEN FailUser(r) /\ UNCHANGED schedules
      ELSE /\ schedules' = [schedules EXCEPT
                 ![s.work] = Advance(s.schedule, target, s.at)]
           /\ Put(r, [s EXCEPT !.pc = next, !.schedule = None])

DisableSchedule(r) ==
  /\ sweeps[r].pc = "disable"
  /\ SaveSchedule(r, "disabled", "schedule")
  /\ UNCHANGED << Environment, works, hosts, compute, timers, secrets, readers,
                  grant, actions, notices, jobVars >>

AdminDecisions(r) ==
  /\ sweeps[r].pc = "admin"
  /\ IF StillAsPlanned(r)
       THEN /\ notices' = notices \cup ({"admin", "transfer"} \X {account.state})
            /\ Goto(r, "persist")
       ELSE FailUser(r) /\ UNCHANGED notices
  /\ UNCHANGED << Environment, works, hosts, compute, schedules, timers, secrets,
                  readers, grant, actions, jobVars >>

Stored(id) == {a \in actions : a.id = id}

(* Mutated: an action that is stored already is created once more.          *)
PersistableAgain(a) == TRUE
Persistable(a) == Stored(a.id) \subseteq {a}

(* _persist_action, one action after the other: an action that is stored    *)
(* already, and differs (it was created by an earlier sweep, or it is no    *)
(* longer planned), is a ValueError that leaves the later ones uncreated.   *)
PersistAction(r) ==
  LET s == sweeps[r] IN
  /\ s.pc = "persist"
  /\ \/ /\ s.wanted = {}
        /\ Put(r, [s EXCEPT !.pc = "execute", !.user = None])
        /\ UNCHANGED actions
     \/ \E a \in s.wanted :
          IF Persistable(a)
            THEN /\ actions' = actions \cup {a}
                 /\ Put(r, [s EXCEPT !.wanted = @ \ {a}])
            ELSE Recover(r) /\ UNCHANGED actions
  /\ UNCHANGED << Environment, works, hosts, compute, schedules, timers, secrets,
                  readers, grant, notices, jobVars >>

(* _recover_replayed_actions plans again from what is stored now, and goes  *)
(* on only if every action planned exists with the same material.           *)
RecoverActions(r) ==
  LET s == sweeps[r]
      plan == PlannedActions(account, works, s.holds, s.lock, s.at) IN
  /\ s.pc = "recover"
  /\ IF /\ plan # {}
        /\ \A p \in plan : \E a \in Stored(p.id) : a.reason = p.reason
       THEN Put(r, [s EXCEPT !.pc = "execute", !.plan = plan])
       ELSE FailUser(r)
  /\ UNCHANGED << Environment, recordVars, jobVars >>

(* execute_planned_action.  What is not planned any more is passed over; a  *)
(* plan that would come out differently now is an error                     *)
(* (_validate_wrapper_if_current).                                          *)
NextAction(r) ==
  LET s == sweeps[r] IN
  /\ s.pc = "execute"
  /\ \/ /\ s.plan = {}
        /\ EndUser(r)
     \/ \E p \in s.plan :
          LET rest == [s EXCEPT !.plan = @ \ {p}]
              again == { q \in PlannedActions(account, works, s.holds, s.lock, s.at) :
                           q.id = p.id } IN
          IF \A a \in Stored(p.id) : a.state # "planned"
            THEN Put(r, rest)
            ELSE IF p.id.why # "warning" /\ ~(again \subseteq {p})
              THEN FailUser(r)
              ELSE Put(r, [rest EXCEPT !.doing = p, !.pc =
                             IF p.id.why = "warning" THEN "finish" ELSE "revalidate"])
  /\ UNCHANGED << Environment, recordVars, jobVars >>

SetAction(id, state) ==
  actions' = { IF a.id = id THEN [a EXCEPT !.state = state] ELSE a : a \in actions }
StillPlanned(id) == \E a \in Stored(id) : a.state = "planned"

(* revalidate_cleanup_action, and the save of a cancelled action, which     *)
(* fails when another sweep has settled the action meanwhile.               *)
Revalidate(r) ==
  LET s == sweeps[r] IN
  /\ s.pc = "revalidate"
  /\ IF CleanupStands(s.doing, account, works[s.doing.id.workload])
       THEN Goto(r, "reread") /\ UNCHANGED actions
       ELSE IF StillPlanned(s.doing.id)
         THEN /\ SetAction(s.doing.id, "cancelled")
              /\ Put(r, [s EXCEPT !.pc = "execute", !.doing = None])
         ELSE FailUser(r) /\ UNCHANGED actions
  /\ UNCHANGED << Environment, works, hosts, compute, schedules, timers, secrets,
                  readers, grant, notices, jobVars >>

(* The workload is read once more, and it is this reading whose version     *)
(* goes with the deletion.                                                  *)
ReadAgain(r) ==
  LET s == sweeps[r] IN
  /\ s.pc = "reread"
  /\ Put(r, [s EXCEPT !.pc = "archive", !.work = s.doing.id.workload,
                      !.read = works[s.doing.id.workload]])
  /\ UNCHANGED << Environment, recordVars, jobVars >>

(* Reasons a schedule may be archived for: "suspended_7d_quarantined" is    *)
(* missing from _ALLOWLISTED_REASON_CODES, and an active user's workload is *)
(* archived for inactivity only.                                            *)
ReasonAllowed(p) == p.reason # "suspended" /\ account.state = p.reason

(* _archive_schedules: the Cloud Scheduler job is deleted, then the record  *)
(* is archived.                                                             *)
DeleteTimer(r) ==
  LET s == sweeps[r] IN
  /\ s.pc = "archive"
  /\ IF s.work \in WebApps \/ schedules[s.work].state = "archived"
       THEN Goto(r, "delete") /\ UNCHANGED timers
       ELSE IF ReasonAllowed(s.doing)
         THEN /\ timers' = [timers EXCEPT ![s.work] = "deleted"]
              /\ Put(r, [s EXCEPT !.pc = "archived", !.schedule = schedules[s.work]])
         ELSE FailUser(r) /\ UNCHANGED timers
  /\ UNCHANGED << Environment, works, hosts, compute, schedules, secrets, readers,
                  grant, actions, notices, jobVars >>

ArchiveSchedule(r) ==
  /\ sweeps[r].pc = "archived"
  /\ SaveSchedule(r, "archived", "delete")
  /\ UNCHANGED << Environment, works, hosts, compute, timers, secrets, readers,
                  grant, actions, notices, jobVars >>

(* What is missing already is passed over.                                  *)
EraseCompute(w) == compute' = [compute EXCEPT ![w] = FALSE]
EraseTimer(w) ==
  timers' = IF w \in Scripts THEN [timers EXCEPT ![w] = "deleted"] ELSE timers

(* delete_compute: the Cloud Run service of a web workload, or the job and  *)
(* what is left of its Cloud Scheduler job.                                 *)
Deletable(r) ==
  /\ works[sweeps[r].work].version = sweeps[r].read.version
  /\ works[sweeps[r].work].state # "archived"

(* Mutated: the deletion is skipped, as if it had been done before.         *)
DeleteComputeLater(r) ==
  /\ sweeps[r].pc = "delete"
  /\ Goto(r, "retire")
  /\ UNCHANGED << Environment, recordVars, jobVars >>

DeleteCompute(r) ==
  LET s == sweeps[r] IN
  /\ s.pc = "delete"
  /\ IF Deletable(r)
       THEN EraseCompute(s.work) /\ EraseTimer(s.work) /\ Goto(r, "retire")
       ELSE FailUser(r) /\ UNCHANGED << compute, timers >>
  /\ UNCHANGED << Environment, works, hosts, schedules, secrets, readers,
                  grant, actions, notices, jobVars >>

(* _retire_app_binding, still inside delete_compute.                        *)
RetireHost(r) ==
  LET s == sweeps[r] IN
  /\ s.pc = "retire"
  /\ hosts' = IF s.work \in WebApps THEN [hosts EXCEPT ![s.work] = "retired"] ELSE hosts
  /\ Goto(r, "mark")
  /\ UNCHANGED << Environment, works, compute, schedules, timers, secrets, readers,
                  grant, actions, notices, jobVars >>

ArchiveWorkload(r) ==
  LET s == sweeps[r] IN
  /\ s.pc = "mark"
  /\ IF s.at < s.read.updated \/ works[s.work].version # s.read.version
       THEN FailUser(r) /\ UNCHANGED works
       ELSE /\ works' = [works EXCEPT ![s.work] = Advance(s.read, "archived", s.at)]
            /\ Put(r, [s EXCEPT !.pc = "finish", !.work = None, !.read = None])
  /\ UNCHANGED << Environment, hosts, compute, schedules, timers, secrets, readers,
                  grant, actions, notices, jobVars >>

(* The action is executed; a warning tells the owner first, who must not be *)
(* locked (notify_owner).                                                   *)
FinishAction(r) ==
  LET s == sweeps[r]
      p == s.doing
      warning == p.id.why = "warning" IN
  /\ s.pc = "finish"
  /\ IF (warning /\ account.state # "active") \/ ~StillPlanned(p.id)
       THEN FailUser(r) /\ UNCHANGED actions
       ELSE /\ SetAction(p.id, "executed")
            /\ Put(r, [s EXCEPT !.pc = "execute", !.doing = None])
  /\ notices' = IF warning /\ account.state = "active"
                  THEN notices \cup {<< "owner", p.id.workload >>} ELSE notices
  /\ UNCHANGED << Environment, works, hosts, compute, schedules, timers, secrets,
                  readers, grant, jobVars >>

(* record_maintenance_job_terminal: the run that started last, and only it. *)
(* What the outcome says is left out.                                       *)
TerminalAllowed(r) == status = r

RecordTerminal(r) ==
  /\ sweeps[r].pc = "terminal"
  /\ status' = IF TerminalAllowed(r) THEN None ELSE status
  /\ Goto(r, "release")
  /\ UNCHANGED << Environment, recordVars, lease >>

(* release: a lease that another sweep holds by now is left alone.          *)
ReleasableByAnyone(r) == TRUE
Releasable(r) == lease.holder = r
Release(r) ==
  /\ sweeps[r].pc = "release"
  /\ lease' = IF Releasable(r) THEN [holder |-> None, over |-> FALSE] ELSE lease
  /\ Put(r, IdleSweep)
  /\ UNCHANGED << Environment, recordVars, status >>

Crash(r) ==
  /\ r \in CrashableSweeps
  /\ sweeps[r].pc # "idle"
  /\ trouble < MaxTrouble
  /\ trouble' = trouble + 1
  /\ Put(r, IdleSweep)
  /\ UNCHANGED << day, account, recordVars, jobVars >>

SweepStep(r) ==
  \/ RecordStarted(r) \/ BeginUser(r) \/ HoldsDenied(r) \/ ReadAndPlan(r)
  \/ DenySessions(r)
  \/ NextQuarantine(r) \/ DisableHost(r) \/ Unbind(r) \/ LockSecret(r)
  \/ QuarantineWorkload(r) \/ RevokeGrant(r) \/ PauseTimer(r) \/ DisableSchedule(r)
  \/ AdminDecisions(r) \/ PersistAction(r) \/ RecoverActions(r) \/ NextAction(r)
  \/ Revalidate(r) \/ ReadAgain(r) \/ DeleteTimer(r) \/ ArchiveSchedule(r)
  \/ DeleteCompute(r) \/ RetireHost(r) \/ ArchiveWorkload(r) \/ FinishAction(r)
  \/ RecordTerminal(r) \/ Release(r)

----------------------------------------------------------------------------
(* What happens around the sweeps                                           *)

NextDay ==
  /\ day < MaxDay
  /\ day' = day + 1
  /\ UNCHANGED << account, recordVars, jobVars, sweeps, trouble >>

(* The directory sync writes the user: a new state, or only the time of the *)
(* sync, which moves the version alone (User.reconcile_identity).           *)
UserMoves == [active     |-> {"active", "suspended", "offboarded"},
              suspended  |-> {"suspended", "active", "offboarded"},
              offboarded |-> {"offboarded"}]
SyncAccount ==
  /\ account.version < MaxUserVersion
  /\ \E target \in UserMoves[account.state] :
       account' = [state |-> target, version |-> account.version + 1,
                   updated |-> IF target = account.state THEN account.updated ELSE day]
  /\ UNCHANGED << day, recordVars, jobVars, sweeps, trouble >>

(* A visit of an app whose host is up, or a run of a script, is activity.   *)
Used(w) == IF w \in WebApps THEN hosts[w] = "active" ELSE timers[w] = "enabled"
RecordActivity ==
  /\ \E w \in InUse :
       /\ works[w].state = "active"
       /\ Used(w)
       /\ works[w].version < MaxVersion
       /\ works' = [works EXCEPT ![w] =
                      [works[w] EXCEPT !.version = @ + 1, !.updated = day, !.used = day]]
  /\ UNCHANGED << Environment, hosts, compute, schedules, timers, secrets, readers,
                  grant, actions, notices, jobVars, sweeps >>

(* The lease runs out after ten minutes: its holder has died, or, and that  *)
(* is trouble, is still at work.                                            *)
LeaseLapses ==
  /\ lease.holder # None /\ ~lease.over
  /\ lease' = [lease EXCEPT !.over = TRUE]
  /\ \/ /\ sweeps[lease.holder].pc = "idle"
        /\ UNCHANGED << sweeps, trouble >>
     \/ /\ sweeps[lease.holder].pc # "idle"
        /\ lease.holder \in CrashableSweeps
        /\ trouble < MaxTrouble
        /\ trouble' = trouble + 1
        /\ sweeps' = [sweeps EXCEPT ![lease.holder].lapsed = TRUE]
  /\ UNCHANGED << day, account, recordVars, status >>

Next ==
  \/ \E r \in Sweeps : Acquire(r) \/ SweepStep(r) \/ Crash(r)
  \/ NextDay \/ SyncAccount \/ RecordActivity \/ LeaseLapses

Spec == Init /\ [][Next]_vars

(* Cloud Scheduler keeps starting the job, a sweep that does not die keeps  *)
(* executing, the lease of a sweep that died runs out, and the hold         *)
(* document of the user is not stale in every sweep.                        *)
Fairness ==
  /\ \A r \in Sweeps : /\ WF_vars(SweepStep(r))
                        /\ SF_vars(Acquire(r)) /\ SF_vars(BeginUser(r))
  /\ WF_vars(LeaseLapses)

FairSpec == Spec /\ Fairness

----------------------------------------------------------------------------
AtWork(r) == sweeps[r].pc # "idle"

(* Two sweeps work side by side only after a lease ran out under one of     *)
(* them, and the one that did not lapse holds the lease: a sweep that is    *)
(* late never frees the lease of its successor                              *)
(* (FirestoreNamedOverlapLease.release).                                    *)
LeaseExcludes ==
  \A r \in Sweeps : AtWork(r) /\ ~sweeps[r].lapsed =>
    lease.holder = r /\ ~lease.over

(* No service, job or timer is deleted but for a cleanup that is on record  *)
(* and was due when it was recorded, whichever sweep planned it, whatever   *)
(* happened to that sweep, and whoever recovered it: no other order of      *)
(* planning, recording, replaying and deleting gets there (_persist_action, *)
(* _recover_replayed_actions, execute_planned_action).                      *)
Deletes(w) ==
  \/ compute[w] /\ ~compute'[w]
  \/ w \in Scripts /\ timers[w] # "deleted" /\ timers'[w] = "deleted"

CleanupsAreDue ==
  [][ \A w \in Workloads : Deletes(w) =>
        \E a \in actions : /\ a.id.workload = w
                           /\ a.id.why # "warning"
                           /\ a.id.eligible <= a.created
                           /\ a.created <= day ]_vars

(* A quarantined workload is cut off: its host is down, it cannot read any  *)
(* secret, and the secrets bound to it are locked, wherever sweeps failed,  *)
(* died or overlapped (the order of reconcile_user).                        *)
QuarantinedIsCut ==
  \A w \in Workloads : works[w].state = "quarantined" =>
    /\ w \in WebApps => hosts[w] # "active"
    /\ \A x \in Secrets : w \in AttachedTo[x] =>
         w \notin readers[x] /\ secrets[x].state = "locked"

(* An archived workload is gone: no service or job, no host, no schedule    *)
(* and no timer is left, and an action counts as executed only for a        *)
(* workload that is archived, or an owner who was told                      *)
(* (execute_planned_action).                                                *)
ArchivedIsGone ==
  /\ \A w \in Workloads : works[w].state = "archived" =>
       /\ ~compute[w]
       /\ w \in WebApps => hosts[w] = "retired"
       /\ w \in Scripts => schedules[w].state = "archived" /\ timers[w] = "deleted"
  /\ \A a \in actions : a.state = "executed" =>
       IF a.id.why = "warning" THEN << "owner", a.id.workload >> \in notices
                               ELSE works[a.id.workload].state = "archived"

(* A person who left is locked out in the end: every workload is            *)
(* quarantined or gone, no host is up, no schedule runs, and Slack is       *)
(* disconnected (LifecycleWorker.reconcile_user, sweep after sweep).        *)
LockedOut ==
  /\ ~grant
  /\ \A w \in Workloads :
       /\ works[w].state \in {"quarantined", "archived"}
       /\ w \in WebApps => hosts[w] # "active"
       /\ w \in Scripts => schedules[w].state \notin {"enabled", "paused"}
                             /\ timers[w] # "enabled"
LeaversAreLockedOut == (account.state = "offboarded") ~> LockedOut

(* What the hold document of every sweep lists keeps its service or job     *)
(* (FirestoreLifecycleHoldResolver, plan_user_lifecycle).                   *)
HeldIsKept ==
  \A w \in Workloads :
    (\A h \in HoldSets : w \in h) /\ compute[w] = FALSE => \E g \in GoneBefore : w \in g

==============================================================================
