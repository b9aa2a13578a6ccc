# Verification of the Madup infra manager control plane

This directory holds TLA+ models of `src/plugins/madup-infra-manager` (MIM), the
one long-lived service of the repository: a control plane that turns a repository
of an employee into a running Cloud Run service or job, watches what it costs, and
takes it down again when its owner leaves or loses interest. TLC checks the models
on small instances; TLAPS proves the main results for every value of the constants.

Paths below are relative to
`src/plugins/madup-infra-manager/control-plane/src/mim_control_plane/`
unless they start with `docs/` (then `src/docs/`) or `src/`.

## 1. Inventory

| Component | State it keeps | Operations | Talks to |
|---|---|---|---|
| State tables (`domain/states.py`) | none | which state may follow which | everybody who saves a record |
| Deployment service (`services/deployments.py`, `domain/plans.py`) | plans, operations, idempotency claims, durable tasks, audit events | `plan_deploy`, `deploy_from_plan` (first use, replay, repair), `deploy_from_github_webhook` (advance, replay, recovery) | store, source adapter, deploy queue |
| Store (`adapters/memory_store.py`, `adapters/firestore_store.py`) | every record | compare-and-set saves, multi-record transactions | all services |
| Deploy queue (`adapters/cloud_tasks.py`) | named tasks | enqueue; at-least-once delivery, names unusable after completion | deploy worker |
| Deploy worker (`workers/deploy.py`, `machine_api.py`) | the copy of the operation it holds | preflight, build, revalidate, apply, verify, publish the host, finish | store, Cloud Build, Cloud Run, public host |
| Public hosts (`services/app_hostname.py`) | one binding per web workload | create, reactivate, disable, retire | deploy worker, maintenance, edge |
| Schedules (`services/schedule_management.py`, `services/schedules.py`, `adapters/cloud_run_job_dispatch.py`) | schedules, runs, job leases | create, pause, resume, begin, complete, dispatch | Cloud Scheduler, Cloud Run jobs |
| Maintenance leases (`adapters/maintenance_state.py`, `workers/maintenance.py`) | one lease per job, usage baselines | acquire, release, run with overlap protection | lifecycle, usage, identity jobs |
| Lifecycle (`services/lifecycle.py`, `workers/lifecycle.py`, `adapters/lifecycle_effects.py`) | planned actions, user and workload states | warn, quarantine, archive, offboard | store, Cloud Run, hosts |
| Secrets (`services/secret_management.py`, `adapters/secret_manager.py`) | metadata, cloud versions, accessors | create, attach, rotate, retire, with recovery | Secret Manager, store |
| Usage and cost (`services/usage.py`, `services/quota.py`, `services/org_cost_guard.py`, `adapters/cost_enforcement.py`) | usage per entry, guard state | ingest, decide, pause | BigQuery, hosts, schedules |
| Activity totals (`services/usage.py`, `workers/usage_ingest.py`) | detailed events, daily totals | record, expire, roll up | store, dashboards |
| Identity (`workers/identity_sync.py`, `adapters/google_directory.py`, `adapters/firestore_directory.py`) | users, snapshot markers, lease | collect, apply a snapshot once | Google Workspace, every door |
| Slack OAuth (`services/slack_oauth.py`, `adapters/firestore_slack_oauth.py`) | pending states, installation, tenant pointer, vault version, links | start, callback, revoke | Slack, Secret Manager |
| Slack commands (`services/slack_ingress.py`, `security/slack.py`) | claimed signatures | verify, authorise installer and sender | identity records |
| App gateway (`services/app_gateway_authorization.py`, `src/plugins/madup-infra-manager/app-gateway-go`) | last activity of a workload | authorise a request, record activity | store, edge |
| Edge and origin proof (`src/plugins/madup-infra-manager/edge/worker`, `security/origin.py`) | claimed request ids | sign, verify, claim once | app gateway |
| API, MCP, dashboard (`api.py`, `mcp.py`, `dashboard.py`) | none | route to the services | people, agents |
| Infrastructure (`src/plugins/madup-infra-manager/infra`) | plan files | plan, review, apply | Google Cloud |
| Other plugins of the repository | none | prompts and text scripts | none |

### What is hard about it

* **Nothing is locked across a handler.** Every service reads a few records, decides,
  and writes in one or more later transactions. A deployment is at least five of
  them: plan, consume, task, audit, enqueue; then a dozen in the worker. Anything can
  commit in between, and the process may die after each.
* **At-least-once everywhere.** Clients retry with the same idempotency key, GitHub
  redelivers, Cloud Tasks delivers a task while an earlier delivery is still running,
  maintenance jobs may start twice.
* **Two indexes for one fact.** Operations are claimed per (actor, key), tasks per key;
  a workload's source is on the workload, on its admission and in the task's material.
* **No transaction spans two systems.** A secret is a record and a resource in Secret
  Manager; an installation is a record, a pointer, a vault version and a token at Slack; an
  archived workload is a service, a host, a schedule, a timer and a record.
* **Locks that run out.** The maintenance jobs hold a lease they do not renew; a run that
  outlives it goes on beside its successor.
* **Stops race starts.** Cost holds, owner lock-outs and cleanup take a workload down
  in several writes (host, service, record) while a deployment is bringing it up.
* **Clocks.** Plan expiry, leases, inactivity days and schedule grace periods are judged
  with a clock reading that may be older than the write it justifies.

### What makes each component correct

* Deployment: a reviewed plan is spent once; what is built and applied is what was
  reviewed; Cloud Run is written at most once for an operation and never for a workload
  record that moved before the last fence; everything queued was audited and ends.
* Pushes: take effect in the order they are committed in, whatever order they arrive in.
* Hosts: a host comes up only through a run that applied its operation under the fence, and
  not through one that began before the host was taken down, as far as clocks can tell.
* Schedules: the job of a workload runs at most once per tick, a success stands for a
  run that happened, attempts count once and in order, a stop holds for every later tick.
* Maintenance: a run whose lease did not run out has it alone; a late run does not free its
  successor's lease; nothing is deleted that was not due when its cleanup was recorded.
* Lifecycle: what the record calls quarantined is cut off and what it calls archived is
  gone, wherever sweeps died; a person who left is locked out in the end; what is on hold
  keeps running.
* Secrets: the record names a version that is there and enabled; nobody reads a secret
  without a reviewed plan; a success means the plan's promise is kept; an old version is
  not destroyed within its window; a retried creation or attachment ends.
* Usage: an organisation that was stopped stays stopped; a run that comes through has
  stopped all its own figures say must stop; the daily totals catch up after any failure.
* Identity: the user records are the latest snapshot's, for everybody at once.
* Slack: nothing usable is left that no record points to, unless a call died.
* Doors: of the deliveries that claim a signed request in its window one is carried out;
  nobody enters on the word of records older than the policy allows; a withdrawn signing key stops working within the cache's life.

## 2. Modules

The modules extend each other, from the records up:

    MimStates                 the closed state machines of domain/states.py
      DeployRecords           the stored records of one workload, one operator per transaction
        DeployCalls           plan_deploy, deploy_from_plan, deploy_from_github_webhook
          DeployWorkers       the deploy worker and its queue
            DeployPipeline    + everybody else who writes the same records; properties
              DeployInvariant the inductive invariant
                DeployProofs  theorems                   MCDeploy  TLC instances
                  DeployLedgerProofs  refinement of PlanLedger
    PlanLedger                the abstract promise, INSTANCEd by DeployPipeline

      ScheduleCommands        create, pause, resume and the stops of a schedule
        ScheduleGate          the hourly tick: lease, policy, dispatch, completion; properties
          ScheduleInvariant   the inductive invariant
            ScheduleProofs    theorems                   MCSchedule  TLC instances

      Lifecycle               the sweep, the lease, the account, the effects    MCLifecycle
        LifecycleProofs       inductive invariant and theorems

    Secrets                   one secret in the store and in Secret Manager     MCSecrets
      SecretsProofs           inductive invariant and theorems

    Directory                 Google Workspace, the sync job, the access policy
      SlackInstall            the shared installation and its credential
      Costs                   the bill, the guard, the pauses
        Activity              the retention and the daily totals
      Access                  the three doors      (EXTENDS SlackInstall, Costs)
        Accounts              the people side as a whole (EXTENDS Access, Activity)   MCAccounts
          DirectoryProofs     the copy of the company: invariant and theorem
            AccessProofs      the doors
              AccountsProofs  the installation, the bill, the totals; the types of everything

**DeployRecords.** Variables `workload`, `binding`, `plans`, `operations`, `claims`,
`deliveryClaims`, `tasks`, `taskKey` and `audited` are the store's collections for one
workload; `expired` is the clock as far as plan expiry goes; `spent` is a history
variable. Each operator that primes a variable is one store transaction, so the callers
interleave exactly where the code does. A plan's material hash is represented by what it
hashes: the version of the workload record and the admission, which fixes the commit.
Admission records are write-once in this code and carry no variable.

**DeployCalls.** `calls[c]` is a request in flight; `pc` names the next store call of the
handler. `DeployFromPlan` reads the plan once (expiry is judged with the request's
clock), `ReplayPlan`/`LookupTask`/`Review` are the replay and repair branches,
`CommitPlan`, `CreateTask`, `Audit`, `Enqueue` the writes in the order of the code.
`ReceivePush`, `AdvanceSource`, `ReplayAdvance`, `DenyAdvance` are the webhook.
A crashing call (`CrashCall`) leaves what it committed.

**DeployWorkers.** `runs[r]` is one delivery in progress and holds the version of the
operation it last read or wrote. `Advance` is `_advance`: a compare-and-set that either
moves the operation on or answers with what it found. `Answer` may be lost. `Apply` writes
Cloud Run (`runtime`). `Bind`/`Rebind` publish the host in the two transactions of the code:
`Bind` reads it, `Rebind` saves under compare-and-set with the one clock reading the run took
at its start, and the store refuses a stamp (`binding.at`) that is strictly older than the
stored one. Readings (`Readings`) may be `ClockLag` behind `clock`. `deployingAt`, `applies`,
`began` (when a run began) and `binding.down` (when the host was last taken down, both in true
time) are history variables.

**DeployPipeline.** Adds activity writes of the gateway, identity changes of the owner,
and the three stops (`paused` by the cost guard, `quarantined` and `archived` by the
lifecycle worker), each in the order the code writes host, service and record, and with a
clock of its own. `Tick` lets time pass up to `MaxClock`.

**ScheduleCommands.** `schedules`, `claims` and `jobs` are the schedule collection, the
claims on idempotency keys and Cloud Scheduler. `commands[c]` is a request or a maintenance
job in flight; the record is saved in one step and the scheduler called in another, in the
order of each handler (a pause saves first, a stop takes the job away first). `Moved` is
`transition_state` under the compare-and-set of `save_schedule`, `CanMove` its conditions.
Clock readings are kept: a command saves with a reading between the start of its request
and now, the lifecycle worker with the start of its job.

**ScheduleGate.** `ClockTick` sends ticks to schedules whose job is enabled; a sent tick may
be delivered any number of times, at any later moment. `gates[g]` is one delivery handled by
`execute_schedule_tick`; its steps are `ExecuteTick` (read), `AcquireLease` (transaction),
the operation's two writes, `Revalidate`, the dispatcher (`ReadLedger`, `ClaimDispatch`,
`RunJob`, `RecordSuccess`, `Reconcile`), `MarkSucceeded`/`MarkFailed` and `CompleteRun`
(transaction). Writes to the ledger and calls of Cloud Run may be carried out and answer
with an error, and a gate may die anywhere. The random lease token is represented by the
version it was stored under, which is as unique. `completed` is a history variable.

**Lifecycle.** One user of the lifecycle job: users are swept one after the other and share
only the job's status. `day` and `account` are the clock and the user record, `works`,
`hosts`, `compute`, `schedules`, `timers`, `secrets`, `readers`, `grant`, `actions`,
`notices` the records and the cloud resources a sweep touches, `lease` and `status` the
named overlap lease and the run that has started last. `sweeps[r]` is an execution; its `pc`
follows `workers/lifecycle.py`: `BeginUser` (the user, the hold document), `plan`, `deny`,
the quarantine of each workload in the order host, secret accessors, secret records, save,
then Slack, the schedules, the administrators, the planned actions (`persist`, `recover`),
and `execute_planned_action`: `Revalidate`, `ReadAgain`, `ArchiveSchedule`, `DeleteCompute`,
`RetireHost`, finish and mark. A sweep may die between any two steps, or lose its lease and
go on. The environment moves the day, the account (`SyncAccount`) and the activity.

**Secrets.** One secret. `meta` is the metadata record under compare-and-set, `cloud` the
resource in Secret Manager with its accessors and its versions, `plans` the reviewed plans,
each with the operation that consumed it, `calls[c]` a request: `Consume`, `Stage` or
`Resume`, `Ensure`, `Probe`, `Bind`, `AddVersion`, `DisableOldVersion`, `Record`,
`MarkSucceeded`, `RecordResult`, and `EnsureRetiring`/`DestroyOldVersion`/`SaveRetired` for
the retirement. Each is one transaction or one call of Secret Manager, and `Crash` may
follow any of them, the case of an answer that is lost included. The lifecycle job takes
readers away (`Unbind`).

**Directory.** `company` is Google Workspace, `users` the copy, `ledger` the snapshots that
were applied, `job[d]` an execution of the sync job: `Acquire`, `CollectUsers`,
`CollectMembers` (a second passage, the company moves in between), `ReadUsers`,
`ApplySnapshot` (one transaction), `ConfirmPersisted` after a lost answer, `Release`.
`TargetState` is the reconciliation, `Authorized` the policy of `security/authorization.py`
that every door asks. `left` and `dropped` are history variables.

**SlackInstall.** `pending` states, the `install` document, the tenant `pointer`, the
`token`s at Slack, the `vault` versions, the linked people. A `caller` installs
(`ConsumeState`, `CheckExisting`, `Exchange`, `WriteToken`, `SaveInstall`, with `DropToken`,
`RefuseGrant`, `RevokeGrant` and `DestroyGrant` after a failure or an invalid grant) or revokes (`BeginRevocation`, `Uninstall`,
`DestroyCredential`, `MarkRevoked`) and may die at each step.

**Costs.** `bill` is the export, which is corrected upwards and downwards; `usage` the
stored entries, `guard` the organisation's cost guard, `resource` the apps and schedules with
record and switch. A run of the ingest job reads, stores entry by entry, evaluates and
persists the guard, pauses what must stop in the two writes of the code, under a lease it
does not renew but a task timeout that ends it.

**Activity.** The second half of the same run: events past the retention are expired, what
is left is aggregated per day, for the organisation and per person, and every aggregate is
written over the one just read. Visits and schedule runs append events all the while.

**Access.** A request is signed by the edge worker (`SignRequest` has its routing as one
operator over what a request looks like) or by Slack (`SendCommand`), may be delivered late
and several times (`arrival`), is verified, claimed and decided at one of three doors. The
gateway keeps a copy of Cloudflare's keys (`jwks`), which overlapping fetches store out of
order. A claim expires when the code says: `OriginWindow` after the signature at the edge's
doors, `SlackWindow` after the check at Slack's (`ClaimExpires`); a delivery may hang up to
`CallTimeout` between its check and its claim, and `Claim` looks at no clock. The edge's
claims are deleted by Firestore (`DropClaim`), Slack's by the next claim (`Remembered`);
Slack's clock may be `SlackAhead` of the door's. `late` counts what was carried out on a claim
taken after its request's window (`WindowOver`) and is a history variable.

**Accounts.** The five modules over one clock. Every step is a step of one of them; only
`RecordActivity`, a request that opens an app, writes a record of another part. Each
execution draws a `budget` at the start: how often each kind of thing may happen in it.

## 3. Runs

Requests, runs, plans, operations, keys, gates, commands and deliveries are model values,
interchangeable (symmetry) in runs of safety properties. Unbounded counters are cut by named
bounds: `MaxVersion`, the version a workload record may reach through activity, pushes and
stops, and the version up to which commands touch a schedule; `MaxTime` and `MaxDay`, the
last reading of the clock, `MaxClock` the same for the hosts' stamps; `MaxUserVersion`, `MaxPlans`, `MaxRecord`, `MaxVersions` and
`MaxBill`, the moves of an account, the plans, the saves (up to which a call may begin) and
versions of a secret, the figures of a bill; `MaxTrouble`, the crashes, lost answers and
lapsed leases in one execution.

| Run | Instance | Shows |
|---|---|---|
| DeployCallsRace | 2 crashing requests, 2 plans, operations and keys, 2 pushes, `MaxVersion` 4; constraint `OneDoor` | `TypeOK`, `PlanSpentOnce`, `TaskMatchesReview`, `QueuedIsAudited` while the record drifts; `SourceMovesForward` while pushes are delivered in any order |
| DeployWorkersRace | 2 crashing deliveries of one task, pause, archive, queue giving up, clocks 1 apart (`ClockLag`) over `MaxClock` 2; constraint `TimePassesForOne` | `OneRunPerOperation`, `AppliedOnceAndFenced`, `HostUpIsEarned` |
| DeployPush | a push and a reviewed plan at once, 2 runs | `PipelineInvariant`, refinement of the ledger (`ImplementsLedger`) |
| DeploySettles | fair runs, pause, quarantine | `QueuedOperationsSettle` |
| ScheduleTicks | 1 schedule, 2 gates (one may die), 2 ticks, a command | `JobsRunOncePerTick`, `SuccessMeansExecuted`, `AttemptsInOrder` |
| ScheduleStops | 2 commands with all three stops, 1 gate that may die | `ScheduleInvariant`, `StopsHold`, `ScheduleTimeMovesForward` |
| LifecycleSweeps | 2 sweeps, one may die or outlive its lease; an app and a script with a secret each, one of them possibly archived before | `TypeOK`, `LeaseExcludes`, `QuarantinedIsCut`, `ArchivedIsGone`, `CleanupsAreDue` |
| LifecycleLockOut | fair sweeps that may die, the script on hold | `LeaversAreLockedOut`, `HeldIsKept` |
| SecretsRace | 2 crashing calls, 2 workloads, all three mutations and the retirement | `TypeOK`, `VersionsFollowTheRecord`, `ReadersAreReviewed`, `SucceededIsDone`, `WindowIsKept` |
| SecretsFinish | 1 call with fair retries, 2 values, 2 plans | `StoredIsSubmitted`, `MutationsFinish` |
| SecretsStuck (violation) | a rotation that is interrupted once | finding 1: not `RotationsFinish` |
| Accounts | 2 people, 2 sync runs, 2 deliveries, 2 callers, 1 ingest run, 2 keys; 12 scenarios of `MCBudgets`; constraint `OthersStay` | `TypeOK`, `UsersFollowTheLastSnapshot`, `CredentialFollowsInstall`, `ServedOnce`, `RetiredKeysExpire`, `AccessIsRecent`, `StopIsFinal`, `CompletedRunStops`, `RollupCatchesUp` |

Why the bounds are enough: a race needs two actors and one record; every hazard that
`PROJECT.json` attaches to a property is reached with two requests, two runs, two gates or
two sweeps; one key collision needs two keys and two plans, and the workload record has to
move once before and once after a review (`MaxVersion` 2; 4 where two pushes and a drift
meet). `OneDoor` keeps people's reviews and GitHub's pushes apart in `DeployCallsRace`, where
the record drifts twice for people; the two meet in `DeployPush`. `TimePassesForOne` lets two deliveries
race while the clocks stand still, or time pass around one delivery and a stop, which is all a
stamp can tell apart; the theorem about hosts has neither the constraint nor the bound on the
clock. The theorems of section 4
remove the bounds for nearly all safety properties.

Durations are scaled to the smallest that keep their order. An hour is two units of the
clock and a lease one (`Hour` 2, `LeaseTime` 1): there is a moment between two ticks and a
lease ends before the next tick, as five minutes do. `ScheduleTicks` has two ticks, so
`FailureLimit` is 2 there for the disablement to be reached; the code's 3 is used in the
other instance. Warning, cleanup and grace after 23, 30 and 7 days are 0, 1 and 1, so that
every deadline falls within `MaxDay` 1 and the warning comes first. A secret's window of 7
days is 1 and its plans expire after 0. In `Accounts` every window and lifetime is 1 out of
4 units, so is the lead of Slack's clock (`SlackAhead`) and the time a call may hang
(`CallTimeout`): a delivery can be checked at the end of the window and claim after it. A day
is 2. A repeat at the app gateway cannot get through here, the guard it decides by being stale
by then; the control plane and Slack, whose doors look at no guard, are where the run reaches it.

A budget of `MCBudgets` is a scenario: what it leaves at zero does not happen in it. Each
puts one component at the centre with the ones it reads from: `MCPeople` lets the company
move between the signing of a request and its decision, `MCBeats` lets a request move the
record of an app the cost guard is pausing, `MCReturns` takes a person away and back,
`MCStops` corrects the bill while the ingest job fails, `MCReplays` and `MCRepeats` deliver
one request again and again while its claim expires, at the edge's doors and at Slack's. The constraint `OthersStay` keeps
everybody but the person who asks in place where a request is checked; nobody else's record
is read for it (Slack commands, for which the administrator's is, are not cut). The components do not write each
other's records except as `MCBeats` has it, so combinations beyond these add interleavings of
steps that commute.

`CHECK_DEADLOCK FALSE` is set because the system does stop: when the plans, keys and budgets
of an instance are used up and the record (or the clock) is at its bound, nothing is left.

**Fairness.**

* `DeployPipeline!Fairness`: a run that does not die keeps executing (weak fairness of its
  steps; nothing in the worker waits on another run), Cloud Tasks keeps delivering what is
  pending (weak), and the source is not down at every single attempt (strong fairness of
  `StartBuild`: a fetch that is retried for ever is answered once). Requests, people, GitHub
  and the maintenance jobs get none. `QueuedOperationsSettle` is stated for runs that do not
  die midway: a worker that dies after the build claim leaves its operation in `building`.
* `Lifecycle!Fairness`: Cloud Scheduler keeps starting the job (strong fairness of `Acquire`:
  the lease is free again and again), a sweep that does not die keeps executing (weak), a
  lease runs out (weak), and the hold document is not stale in every sweep (strong fairness
  of `BeginUser`; a stale one fails the user, see finding 11). Days, accounts and
  activity get none; crashes are bounded by `MaxTrouble`.
* `Secrets!FairSpec`: a call that does not die runs on (weak), and the user sends a plan whose
  mutation is in flight again, with the value it was first sent with (strong fairness of
  `Retry`, the only repair the service offers). A *new* plan is never promised.

## 4. Proofs

The eight proof modules are checked by TLAPS for all constants that satisfy the assumptions
of the modules: any number of requests, runs, sweeps, people and records, and any value of
the bounds that cut the runs of TLC. No safety invariant of section 3 is inductive; each
proof has its own strengthening, which says what a handler relies on between two of its
steps.

### The deployment path

Assumed: plan, operation and key ids of people are disjoint from delivery ids
(`IdsAreDistinct`; the code prefixes webhook ids with `github:`), `None` is not a record
(`NoneIsNoRecord`), the crashing requests and runs are requests and runs.

The safety properties are not inductive. `PipelineInvariant` (`DeployInvariant`) adds what
the handlers rely on between two transactions:

* `CallFacts`: what a request knows at each step, e.g. at `create` that its operation
  exists with the material it reviewed;
* `RunFacts`: a run that has written once *holds* its operation: the record is at the very
  version it holds and in progress; at `apply` the fence version equals the task's;
* `OneHolder`: two runs never hold one operation. An `_advance` from version 1 is the
  election; every later one needs the version only the holder has;
* `OperationFacts`: version 1 if and only if queued, so a run that has not won the
  election cannot find its version again later;
* `LedgerFacts`, `DeliveryFacts`: claims, spent plans and deliveries point at what exists.

Nothing a request or run relies on is ever taken back (`RecordsGrow`), so a step of one
actor keeps the facts of the others (`CallKept`, `RunKept`); a step that leaves plans,
operations and tasks alone needs an argument about its own actor only (`LocalStep`). The
steps that write them have a lemma each.

`SourceMovesForward` rests on `DeliveryFacts`: the tasks of the pushes so far are for versions
the record has had, and the commit of the next one moves the record. `HostUpIsEarned` has an
invariant of its own, `HostStamps`: a host was taken down no later than its stamp and the
distance of the clocks, and a run about to reactivate it (`HostRead`) has a stamp no older than
the host's, as long as the host is at the version the run read. The compare-and-set does the
rest: a run whose read is overtaken fails, one that read later has compared the stamps.

| Theorem | States |
|---|---|
| `PipelineInvariantHolds` | `Spec => []PipelineInvariant` |
| `TypesHold`, `PlansAreSpentOnce`, `TasksMatchTheirReview`, `QueuedTasksAreAudited`, `OneRunWorks`, `AppliesAreFenced` | the safety properties of the runs |
| `SourceMovesOn` | the action property `SourceMovesForward` |
| `HostStampsHold` | `Spec => []HostStamps` |
| `HostsUpAreEarned` | the action property `HostUpIsEarned` |
| `PipelineImplementsLedger` | `Spec => Ledger!LedgerSpec` |

### The schedules

Assumed: the limits and the bounds are numbers, a lease is at least one unit and at most an
hour (`GateParameters`), `None` is not a record (`NoneIsNoSchedule`).

The dispatch ledger alone does not keep two gateways from starting one job: `claim` answers
a losing gateway with the winner's record, and the dispatcher takes an answer `claimed` for
its own. What keeps them apart is the lease, and the argument is about time. Every clock
reading of a gateway is the time of its tick; a lease ends `LeaseTime` after it. Call a tick
*spent* (`Spent`) when an attempt at it or at a later one was counted, or the stored lease
is for it or a later one. `ScheduleInvariant` says

* `LeaseFacts`: a stored lease is for a tick later than the last counted attempt and no
  later than the record's last change;
* `UnspentTicksAreUntouched`: no operation, ledger entry or execution exists for a tick
  that is not spent;
* `GateFacts`: a gate that was granted a lease works on a spent tick, and `TickStands` says
  what operation, ledger and executions are at each of its steps;
* `OneGatePerTick`: two gates never work on one tick;
* `CommandFacts`, `HistoryFacts`: what commands rely on, and that the last counted attempt
  is the one the record shows.

A lease is granted only for a tick that is not spent and spends it; spent ticks stay spent,
through completions, saves of commands and later leases. So a gate that is granted a lease
finds its tick untouched and itself alone on it, which gives `JobsRunOncePerTick`, and the
rest is the gate's own sequence of steps (`GateWorks`: a gate writes its own tick only).
A completion needs the token of the stored lease, whose tick is later than the last attempt:
that is `AttemptsInOrder`. `StopsHold` follows because a spent tick is never later than
the last change of the record.

| Theorem | States |
|---|---|
| `ScheduleInvariantHolds` | `Spec => []ScheduleInvariant` |
| `ScheduleTypesHold` | `TypeOK`, in the runs a conjunct of `ScheduleInvariant` |
| `JobsRunOnce`, `SuccessesWereExecuted`, `AttemptsAreInOrder`, `SchedulesStayStopped` | the safety properties of the runs |
| `SchedulesMoveForward` | the action property `ScheduleTimeMovesForward` |

### The lifecycle job

Assumed (`LifecycleParameters`): a workload is an app or a script, secrets are attached to
workloads, the warning comes before the cleanup, `None` is not a sweep.

What makes two sweeps, crashes and lapsed leases harmless is not the lease, which only keeps
the status in order; it is that nothing a sweep takes away comes back (`Progresses`): hosts
stay down, readers stay cut, locked secrets stay locked, what is archived or deleted stays so,
and a record of the same version is the same record. `LifecycleInvariant` therefore keeps, for
each step of a sweep, what it knows by itself (`SweepKnows`) and what of the world it has
established at its earlier steps (`SweepSees`: at `save` the host is down, no attached secret
is readable and all are locked; at `mark` schedule, timer, service and host are gone). A step
of another sweep or of the environment preserves both because of `Progresses` alone, and a
sweep that dies drops what it knew. The save that writes `quarantined` is under
compare-and-set, so the record it read is the record it changes. `GoneIsUnheld` carries that
no deletion was planned for a workload on the hold document the sweep read. `CleanupsAreDue`
adds `CleanupFacts`: every action on record was due when it was recorded, what a sweep wants to
record is due at its own reading of the day, and what it is carrying out is on record. Only
three steps of a sweep are not `Quiet` in this sense: it reads the day, it plans, or it takes
up the next action.

| Theorem | States |
|---|---|
| `LifecycleIsTyped` | `TypeOK` |
| `SweepsExclude` | `LeaseExcludes`: a sweep at work whose lease did not lapse is its holder |
| `QuarantineCutsOff`, `ArchiveLeavesNothing`, `HoldsAreRespected` | the safety properties of the runs |
| `CleanupsWereDue` | the action property `CleanupsAreDue` |

### The secrets

Assumed (`SecretParameters`): the modes are modes of the code, `None` is no record, a secret
may have one version at least.

A call works with the record it has read, its draft, and the draft may be behind. Each write to
the record is under compare-and-set, but a write to Secret Manager is not: a late call still
adds versions, disables one, sets accessors. `SecretsInvariant` says why it does no harm. Every
draft in flight *precedes* the record (`Precedes`): versions, times and the workloads that may
read only grow, and a rotating draft's old version has been left behind by the record, or is
about to be because the record is still rotating. `CallStands` is what a call holds at each of
its steps (at `record` of a rotation the old version is off and a newer one is there),
`VersionsStand` which versions are enabled, `PlansStand` what a plan promised once its
operation succeeded, and `RecordStands` when a retiring version was switched off, which with
`Window` gives `WindowIsKept`. `Progresses` is again what no step takes back.

`StoredIsSubmitted` needs calls that do not overlap (finding 15); calls may still die anywhere.
Its theorem therefore assumes `[]NoOverlap`, at most one call in flight at a time, and adds
`SubmittedInvariant`: a call's draft is the record (`CallIsCurrent`), every enabled version
*ahead* of the record holds the value of the mutation in flight, and there is none outside
mutations (`SubmittedKept`); a call adds a version only when none is ahead, and at `record`
the one ahead is the one it found or added.

| Theorem | States |
|---|---|
| `SecretsInvariantHolds` | `Spec => []SecretsInvariant` |
| `SecretsAreTyped` | `TypeOK` |
| `TheActiveVersionIsReadable` | `VersionsFollowTheRecord` |
| `OnlyReviewedReaders` | `ReadersAreReviewed` |
| `SuccessIsKept` | `SucceededIsDone` |
| `TheWindowIsKept` | the action property `WindowIsKept` |
| `TheSubmittedValueIsStored` | `Spec /\ []NoOverlap => StoredIsSubmitted` |

### People and accounts

Assumed: the bounds of the modules (`DirectoryBounds`, `SlackBounds`, `CostBounds`,
`ActivityBounds`, `AccessBounds`), that there is a person (`SomeoneIsManaged`), and two
settings: a task of the ingest job ends within its lease (`TaskTimeout <= LeaseDuration`, the
deployed values) and a fetch of Cloudflare's keys within the life of the cache.

Every proof is about `Accounts!Spec`, the components together. One invariant per component:

* `DirectoryInvariant`. A record that is read before the transaction is either unchanged or
  has an older version (`ReadStands`), so the compare-and-set of `ApplySnapshot` applies all
  of a snapshot or nothing; the instant of a pending snapshot is no other's, so no user is
  synced twice at one instant and a replay after a lost answer is told from a new snapshot.
  `RecordsAreRecent` carries when a person was last known to be active and a member.
* `AccessInvariant`. A claim may be forgotten while a delivery of the same request is on its
  way. `Used` is what remains: the claim is stored, or the request's window is over. A stored
  claim outlasts the window (`ClaimsKept`), so no second delivery claims within it. A delivery
  that claimed within the window works on a used request of which nothing but late deliveries
  was carried out, and no two such deliveries have one request (`ClaimedOnce`, `Holds`). `KeysKept` bounds a key in a gateway's cache by when it
  was last published, over fetches that store out of order.
* `SlackInvariant`. What is usable belongs to the active installation or is in the hands of
  exactly one call, as long as no answer was lost and no call died (`NothingIsLeftBehind`);
  a token a revocation finds good is the active installation's until it marks it.
* `CostInvariant`. Until its deadline a run has the lease and no other run does anything
  (`IngestStands`); `StopsSoFar` and `TotalsSoFar` are the two loops of a run: what has to stop
  has, or is still on the list; what a row says lies between what was recorded before the
  run and what is recorded now.

| Theorem | States |
|---|---|
| `AccountsAreTyped` | `TypeOK` |
| `SnapshotsAreFollowed` | `UsersFollowTheLastSnapshot` |
| `RequestsAreServedOnce` | `ServedOnce` |
| `CredentialsAreKept` | `CredentialFollowsInstall` |
| `WithdrawnKeysExpire`, `AdmissionIsRecent` | the action properties `RetiredKeysExpire`, `AccessIsRecent` |
| `CompletedRunsStop`, `RollupsCatchUp` | the action properties `CompletedRunStops`, `RollupCatchesUp` |
| `StopsAreFinal` | the action property `StopIsFinal` |

`StopsAreFinal` needs that a bill's sum never falls. The sum is a fold over the set of entries;
`Unfolded` and `Sums` name what the fold computes on each subset, and if a bill that grew had
a smaller sum, there would be a smallest subset on which it has (`LeastNumber`, `SumsGrow`):
the induction is on the number of entries, where the library's well-foundedness theorems need
no operator. An entry is written only over a smaller one (`StoringOnlyAdds`), and only a run
writes entries (`OnlyRunsStore`). `CostBounds` says that a bill has finitely many entries.

### Model-checked only

* `QueuedOperationsSettle`, `LeaversAreLockedOut`, `MutationsFinish`: liveness under fairness
  and `ENABLED` are out of the prover's reach. Finding 1 is a counterexample of TLC.
* `RotationsFinish` is refuted by TLC (finding 1); nothing is proved about it.

No module uses a `RECURSIVE` operator.

## 5. Findings

### With a run

1. **An interrupted rotation cannot be finished** (`SecretsStuck`,
   `adapters/secret_manager.py:651`, `services/secret_management.py:761-769`). Once the new
   version is added, `retirement_not_before` is the last save of the draft plus seven days,
   and the adapter wants it at least seven days after the reading of the *retry's* clock: the
   two constants are equal, so a retry passes only at the very instant of the save.
   `src/plugins/madup-infra-manager/control-plane/tests/test_secret_management.py:954` expects
   such a rotation to recover; its clock stands still. Two versions stay enabled, so `resolve`
   refuses every deployment with the secret.

### Settled earlier

The statements below are definitions of the modules that no configuration lists; TLC finds
each violated as soon as one does.

2. **A shared idempotency key strands a plan** (`DeployPipeline!MissingTaskIsReconstructible`,
   `adapters/memory_store.py:1595`; two people, one key). Operations are claimed per actor
   and key, durable tasks per key: the second one's plan is consumed, its operation stays
   queued, and every retry is denied its task.
3. **A host is reactivated without a fresh owner check** (`ReactivationChecksOwner`,
   `services/app_hostname.py:133`), which
   `docs/plans/2026-08-05-mim-madup-app-edge-design.md:294` asks for.
4. **A failed health check restores nothing** (`FailedCheckRestores`, `workers/deploy.py:320`):
   the branch that would needs a recorded image that no code records.
5. **The schedule limit is checked outside the transaction**
   (`ScheduleGate!ScheduleLimitHolds`, `services/schedule_management.py:197`): two requests
   end with one schedule too many.
6. **An owner at the limit loses every run** (`OwnersWithinTheLimitRun`,
   `services/schedule_management.py:565`): the check before a run counts the schedule that
   is about to run, so three schedules, the number that is allowed, deny each other.

### Seen while modelling

What the code does here is what the models do; none of these has a run of its own.

*Lifecycle.*

7. A secret attached to two workloads stops an offboarding: `remove_workload_bindings`
   (`adapters/lifecycle_effects.py:422`) takes the first workload off the IAM policy but never
   updates `attached_workload_ids`, so the second removal finds a policy it does not expect.
   `src/plugins/madup-infra-manager/README.md:54` has leavers quarantined at once. With
   `AttachedTo <- SharedSecret` (`MCLifecycle`) `LeaversAreLockedOut` fails.
8. The cleanup of a *suspended* user carries the reason `suspended_7d_quarantined`
   (`services/lifecycle.py:340`), which `adapters/lifecycle_effects.py:67` does not list.
9. The workload is revalidated with one read and deleted with another
   (`workers/lifecycle.py:302`, `:316`): one that came back to life in between is deleted
   under its new version. `docs/plans/2026-08-02-mim-control-plane-implementation.md:857` has
   deletions carry the expected version and become no-ops after reactivation.
10. A cancelled cleanup of a locked account is never planned again, a sweep that dies after
    archiving leaves its action `planned`, and one stored action that conflicts keeps all
    others of its user from being stored.
11. A stale hold document fails the whole user, the quarantine included.
12. Secrets of a workload that was archived for inactivity before its owner left stay bound
    and active. `delete_compute` deletes the service before the host is retired
    (`adapters/lifecycle_effects.py:908`), where
    `docs/plans/2026-08-05-mim-madup-app-edge-design.md:292` has the host first.

*Secrets.*

13. `finalize_secret_retirement` (`services/secret_management.py:465`) has no caller, so the
    old version is never destroyed and a secret can be rotated once.
14. A mutation in flight fails the lifecycle job's locking of the secret, and with it the
    offboarding of the owner; an owner who is quarantined between the review of a plan and
    its binding gets the readers back.
15. Two overlapping calls of one rotation, or of one creation, may leave a second enabled
    version, after which nothing can be deployed with the secret. A crash between
    `_mark_operation_succeeded` and the stored result makes every replay answer
    `secret_replay_unproven`. A rotation that was consumed but not staged and is retried after a
    competing one is reported as succeeded though its value was never stored.

*Schedules.*

16. The branch that takes up an operation found `queued`
    (`services/schedule_management.py:389`) is reached by no behaviour, because the lease of a
    tick outlives the tick's own clock reading: a tick whose gateway died is lost.

*Costs and activity.*

17. A corrected bill that *decreases* an estimate ends the run before the guard is evaluated.
    The guard goes stale after two hours and everything is denied; entries stored before the
    failure leave an older clear guard trusted until then, against the comment at
    `workers/usage_ingest.py:248`.
18. A suspended owner over budget with an active workload fails every run
    (`_require_access_removal_reason`, `adapters/lifecycle_effects.py:110`), so later users are
    not paused and the rollup is skipped. A request that moves the app's record between the
    two writes of a pause leaves the host down and the app active until the next run.
19. An event later than the run's own instant fails the whole rollup. Once the events of a
    day pass the retention, the rollup writes zeros over the day's totals, where
    `docs/plans/2026-08-02-mim-control-plane-design.md:174` has the events *reduced to* daily
    aggregates. A run that dies between expiry and upsert leaves the old totals for ever.
    `RollupCatchesUp` is therefore about days none of whose events is due to expire.

*Slack and doors.*

20. Installing again after a revocation always fails (`services/slack_oauth.py:397`, the
    versions differ); so does every installation after a crash within a revocation, and a crash
    after the exchange leaves a token no record knows. `CredentialFollowsInstall` is
    about executions without such an accident for that part.
21. The control plane's `PyJWKClient` caches single keys without expiry
    (`security/identity.py:98`, `cache_keys=True`); `RetiredKeysExpire` is about the gateway.
22. A request may be carried out twice. The check of a signature's age and the claim of its id
    are not atomic, the claim looks at no clock, and claims are forgotten.
    *Edge and app gateway*: the claim's `expires_at` is the signing time plus the window
    (`security/origin.py:145`, `services/app_gateway_authorization.py:146-152`). A delivery that
    is checked within the window and hangs past `expires_at` finds no claim once Firestore's TTL
    has removed the first one's, and `claim_origin_request`
    (`adapters/firestore_store.py:2506`) creates another.
    `src/plugins/madup-infra-manager/docs/operations.md:179-182` says that the TTL only tidies up
    and that the create-only transaction is what blocks a replay. (TTL deletions usually take
    hours; the model lets one come at any moment after `expires_at`.)
    *Slack*: a signature is accepted from five minutes behind to five minutes ahead of the door's
    clock (`security/slack.py:151`), its claim expires five minutes after the check
    (`security/slack.py:190-194`), and a claim drops what expired before it or at that very
    moment. A signature from a clock that is ahead therefore outlives its claim and can be
    replayed without any call hanging; so can any at the exact end of the window.
    `ServedOnce` counts exactly these (`late`): what it and its theorem exclude is a second
    delivery *within* the window. `served[r] <= 1` is violated at the control plane and at
    Slack's door in the instance of `Accounts`.

*Hosts.*

23. A host that was taken down can come back through a run that began before. The reactivation
    is guarded by a compare-and-set on a read that comes after the hold, and by a stamp that must
    not be strictly older (`services/app_hostname.py:137-144`,
    `adapters/memory_store.py:1741-1746`): a run whose reading equals the hold's, or a hold whose
    clock is behind the run's, leaves the host up. `HostUpIsEarned` has the distance of the clocks
    as its bound, and the bound is tight: with `binding.down < runs[r].began + ClockLag` TLC finds
    it violated. Finding 3 is the check that would make the clocks irrelevant.

## 6. Not modelled, and why

* Rendering, classification and the payloads of Cloud Build, Cloud Run and Cloud Scheduler:
  pure functions, represented by their verdicts.
* HMACs, JWTs and hashes: represented by what they identify.
* `services/repair.py` and `workers/reconcile.py`: a policy that plans and writes nothing,
  and the comparison of two payloads.
* `api.py`, `mcp.py`, the dashboard, `runtime.py`: routing and wiring; their state is in the
  modules of the services.
* The text commands behind the Slack door, the bodies the app gateway proxies and its cache
  of metadata tokens.
* The builder and the infrastructure scripts: shell in front of Google Cloud. Two of their
  settings are assumptions: the task timeout of a job (`infra/release/apply.sh:315`; with a
  timeout beyond the lease `StopIsFinal` would not hold) and the time to live of claims.
* The other plugins of the repository: prompts and text scripts without durable state.
* In the schedules: `plan_schedule`, which stores a plan and changes no schedule. Policies
  (owner, workload, costs) are one flag that changes at any time, `permitted`.
* In the deployment path: what a client does with an uncaught error. A version conflict on
  the host, which the worker does not catch (`workers/deploy.py:291`), ends the run with the
  operation in `verifying` and the task in the queue (`Rebind`), like a crash.
* In the lifecycle: a schedule that is created while its workload is cleaned up, and the
  quality of a status (degraded or not): a run's outcome is that it ended.
* In the secrets: the review behind a plan (workloads, owner, guard) is the choice of the
  plan's workloads; the plan is its own idempotency key; creating the resource and its
  accessors is one step; the four saves that end an operation are one. `StoredIsSubmitted`
  is checked with one caller and proved for callers that do not overlap (finding 15).
* In the doors: `AppOpen` reads the host's state from `resource.on`, which in this part stands
  for the service and its host together; the states of a binding are in `DeployPipeline` and
  `Lifecycle`.
* In the people side: one month of the bill, one kind of resource for apps and schedules,
  the several reads of an app decision as one step (`DecideApp`). Gateways start with
  current keys. Sync runs overlap more freely than their task timeout allows.
  `SlackOAuthService` is tested but not wired in `runtime.py`; it is modelled as its code
  has it.

## 7. Plan

What is left, in the order of what can go wrong:

1. `Secrets` against an abstract secret that is created, attached and rotated at once: a
   refinement, for the calls that do not overlap.
2. `Lifecycle` with the deployment worker: `DeployPipeline` has the stops as single
   maintenance actions; the sweep's own steps would replace them.
3. The reconcile job, and a schedule created while its workload is cleaned up.

Liveness (the properties of section 4, and a rotation that ends once finding 1 is settled)
stays with TLC.
