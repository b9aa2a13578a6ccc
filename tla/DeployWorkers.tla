---------------------------- MODULE DeployWorkers ----------------------------
(****************************************************************************)
(* The private deploy worker, workers/deploy.py, behind /internal/deploy    *)
(* (machine_api.py).  A run is one delivery of a queued task: the queue may *)
(* deliver a task again while an earlier run of it is still going, an       *)
(* answer may be lost, and a run may die between any two steps.  A run      *)
(* holds the version of the operation it last read or wrote and advances    *)
(* the operation by compare-and-set.                                        *)
(****************************************************************************)
EXTENDS DeployCalls

CONSTANTS
  Runs,             \* deliveries that can be in progress at once
  CrashableRuns,    \* the deliveries whose process may die midway
  ClockLag          \* how far the clocks of two machines may be apart

ASSUME CrashableRunsAreRuns == CrashableRuns \subseteq Runs

ASSUME ClockLagIsBounded == ClockLag \in Nat

VARIABLES
  runs,             \* the state of each delivery in progress
  runtime,          \* the operation whose image Cloud Run carries, or None
  deployingAt,      \* history: workload version when an operation began to deploy
  applies,          \* history: how often each operation was applied
  clock             \* the time by the fastest clock of all machines

runVars == << runs, runtime, deployingAt, applies >>

RunSteps == {"idle", "preflight", "fetch", "build", "built", "deploying",
             "revalidate", "apply", "verifying", "health", "bind", "rebind",
             "finish"}

RunRecord ==
  [pc      : RunSteps,
   op      : OpIds \cup {None},
   version : Nat,                         \* the copy of the operation held
   start   : Nat,                         \* now: its clock when it began
   began   : Nat,                         \* history: the time when it began
   host    : Nat,                         \* the host's version last read
   target  : OperationStates \cup {None}] \* the outcome being written

IdleRun == [pc |-> "idle", op |-> None, version |-> 0, start |-> 0,
            began |-> 0, host |-> 0, target |-> None]

RunsTypeOK ==
  /\ runs \in [Runs -> RunRecord]
  /\ runtime \in OpIds \cup {None}
  /\ deployingAt \in [OpIds -> Nat]
  /\ applies \in [OpIds -> Nat]
  /\ clock \in Nat

RunsInit ==
  /\ runs = [r \in Runs |-> IdleRun]
  /\ runtime = None
  /\ deployingAt = [o \in OpIds |-> 0]
  /\ applies = [o \in OpIds |-> 0]
  /\ clock = 0

(* What a machine may read on its clock.                                    *)
Readings == {t \in 0..clock : clock <= t + ClockLag}

At(r, step) == runs[r].pc = step

Proceed(r, step) == runs' = [runs EXCEPT ![r].pc = step]

Conclude(r, target) ==
  runs' = [runs EXCEPT ![r].pc = "finish", ![r].target = target]

EndRun(r) == runs' = [runs EXCEPT ![r] = IdleRun]

(* The run is answered with a 200 and the queue drops the task, unless the  *)
(* answer is lost on its way.                                               *)
Answer(r) ==
  /\ EndRun(r)
  /\ \/ queue' = [queue EXCEPT ![tasks[runs[r].op].key].pending = FALSE]
     \/ UNCHANGED queue

(* Mutated: only the state of the workload is checked again.                *)
TaskStandsByState(o) ==
  tasks[o] # None /\ workload.state \in SafeWorkloadStates

(* The checks shared by the preflight and both revalidations: everything    *)
(* the task was queued for is still true of the stored records.             *)
TaskStands(o) ==
  /\ workload.version = tasks[o].material.version
  /\ workload.state \in SafeWorkloadStates
  /\ workload.admission = tasks[o].material.admission

otherThanQueue == << recordVars, calls >>

----------------------------------------------------------------------------
(* The queue delivers a pending task; the worker loads it by operation id.  *)
(* The clock is read once, for the whole run.  An operation that is         *)
(* terminal or in progress is answered at once, and that answer takes the   *)
(* task off the queue.                                                      *)
Deliver(r, k) ==
  /\ At(r, "idle")
  /\ queue[k] # None
  /\ queue[k].pending
  /\ LET o == queue[k].op
     IN IF operations[o].state = "queued"
          THEN /\ \E now \in Readings :
                    runs' = [runs EXCEPT ![r] =
                               [IdleRun EXCEPT !.pc = "preflight", !.op = o,
                                               !.version = operations[o].version,
                                               !.start = now, !.began = clock]]
               /\ UNCHANGED queue
          ELSE /\ queue' = [queue EXCEPT ![k].pending = FALSE]
               /\ UNCHANGED runs
  /\ UNCHANGED << otherThanQueue, runtime, deployingAt, applies >>

(* _preflight_denial: any drift quarantines the operation before a build.   *)
Preflight(r) ==
  LET o == runs[r].op
  IN /\ At(r, "preflight")
     /\ IF TaskStands(o) /\ runs[r].version = tasks[o].opVersion
          THEN Proceed(r, "fetch")
          ELSE Conclude(r, "quarantined")
     /\ UNCHANGED << otherThanQueue, queue, runtime, deployingAt, applies >>

(* The snapshot is fetched again.  An outage answers 503: the task stays    *)
(* queued.  A snapshot that is not the attested one quarantines.            *)
FetchUnavailable(r) ==
  /\ At(r, "fetch")
  /\ EndRun(r)
  /\ UNCHANGED << otherThanQueue, queue, runtime, deployingAt, applies >>

FetchDenied(r) ==
  /\ At(r, "fetch")
  /\ Conclude(r, "quarantined")
  /\ UNCHANGED << otherThanQueue, queue, runtime, deployingAt, applies >>

(* Mutated: _advance overwrites the operation, whatever its version.        *)
AdvanceBlindly(r, target, next) ==
  /\ operations' = [operations EXCEPT ![runs[r].op].state = target,
                                      ![runs[r].op].version = runs[r].version + 1]
  /\ runs' = [runs EXCEPT ![r].pc = next, ![r].version = @ + 1]
  /\ UNCHANGED queue

(* _advance: write the next state if the operation is still at the version  *)
(* held, and go on with the new copy; otherwise report what is there.       *)
Advance(r, target, next) ==
  LET o == runs[r].op
      v == runs[r].version
  IN IF OperationCurrent(o, v)
       THEN /\ SaveOperation(o, v, target)
            /\ runs' = [runs EXCEPT ![r].pc = next, ![r].version = v + 1]
            /\ UNCHANGED queue
       ELSE /\ Answer(r)
            /\ UNCHANGED operations

otherThanOperations ==
  << workload, ownerActive, binding, plans, expired, claims, deliveryClaims,
     tasks, taskKey, audited, spent, calls >>

StartBuild(r) ==
  /\ At(r, "fetch")
  /\ Advance(r, "building", "build")
  /\ UNCHANGED << otherThanOperations, runtime, deployingAt, applies >>

(* Mutated: a failing service leaves the operation as it is.                *)
BuildLeavingFailure(r) ==
  /\ At(r, "build")
  /\ \/ Proceed(r, "built")
     \/ Conclude(r, "quarantined")
     \/ EndRun(r)
  /\ UNCHANGED << otherThanQueue, queue, runtime, deployingAt, applies >>

(* Build, image retention, identity, secrets, rendering and the signed      *)
(* artifact: none of them writes a record of this model.  A broken trust    *)
(* check quarantines, a failing service fails the operation.                *)
Build(r) ==
  /\ At(r, "build")
  /\ \/ Proceed(r, "built")
     \/ Conclude(r, "quarantined")
     \/ Conclude(r, "failed")
  /\ UNCHANGED << otherThanQueue, queue, runtime, deployingAt, applies >>

(* _revalidate_before_runtime: the operation is still this run's, and the   *)
(* task still stands.                                                       *)
Revalidate(r, expected, next) ==
  LET o == runs[r].op
  IN /\ IF operations[o].state = expected /\ OperationCurrent(o, runs[r].version)
          THEN /\ IF TaskStands(o) THEN Proceed(r, next)
                                   ELSE Conclude(r, "quarantined")
               /\ UNCHANGED queue
          ELSE Answer(r)
     /\ UNCHANGED << otherThanQueue, runtime, deployingAt, applies >>

RevalidateBuilt(r) ==
  At(r, "built") /\ Revalidate(r, "building", "deploying")

StartDeploying(r) ==
  LET o == runs[r].op
  IN /\ At(r, "deploying")
     /\ Advance(r, "deploying", "revalidate")
     /\ deployingAt' = IF OperationCurrent(o, runs[r].version)
                         THEN [deployingAt EXCEPT ![o] = workload.version]
                         ELSE deployingAt
     /\ UNCHANGED << otherThanOperations, runtime, applies >>

(* Mutated: the runtime is written without the second revalidation.         *)
RevalidateDeployingSkipped(r) ==
  /\ At(r, "revalidate")
  /\ Proceed(r, "apply")
  /\ UNCHANGED << otherThanQueue, queue, runtime, deployingAt, applies >>

RevalidateDeploying(r) ==
  At(r, "revalidate") /\ Revalidate(r, "deploying", "apply")

(* CloudRunRuntimeAdapter.apply writes the service and then its invoker     *)
(* policy.  It may fail before or after the service was written.            *)
Apply(r) ==
  LET o == runs[r].op
      Write == /\ runtime' = o
               /\ applies' = [applies EXCEPT ![o] = @ + 1]
  IN /\ At(r, "apply")
     /\ \/ Write /\ Proceed(r, "verifying")
        \/ Write /\ Conclude(r, "failed")
        \/ UNCHANGED << runtime, applies >> /\ Conclude(r, "failed")
     /\ UNCHANGED << otherThanQueue, queue, deployingAt >>

StartVerifying(r) ==
  /\ At(r, "verifying")
  /\ Advance(r, "verifying", "health")
  /\ UNCHANGED << otherThanOperations, runtime, deployingAt, applies >>

(* verify_health reads the service back: it can only pass while Cloud Run   *)
(* carries an image of this material.  No record ever holds a last healthy  *)
(* image (nothing in src/ writes last_healthy_image_digest), so a failed    *)
(* check fails the operation and has nothing to roll back to.               *)
Carries(o) ==
  runtime # None /\ tasks[runtime].material = tasks[o].material

Health(r) ==
  /\ At(r, "health")
  /\ \/ Carries(runs[r].op) /\ Proceed(r, "bind")
     \/ Conclude(r, "failed")
  /\ UNCHANGED << otherThanQueue, queue, runtime, deployingAt, applies >>

otherThanBinding ==
  << workload, ownerActive, plans, expired, operations, claims, deliveryClaims,
     tasks, taskKey, audited, spent, calls >>

(* The clock of the run against the stamp of the host it has read           *)
(* (transition_state): only a strictly older one is refused.                *)
Behind(r) == runs[r].start < binding.at

(* _persist_app_hostname_binding: create the host, accept an active one,    *)
(* quarantine on a retired one, and on one that was disabled by a later     *)
(* stamp than the run's; any other disabled one is read here and            *)
(* reactivated in a second transaction.  The route may be missing.          *)
Bind(r) ==
  /\ At(r, "bind")
  /\ \/ /\ WebWorkload
        /\ Conclude(r, "failed")
        /\ UNCHANGED binding
     \/ /\ WebWorkload
        /\ binding = None
        /\ binding' = NewHost(runs[r].start)
        /\ Conclude(r, "succeeded")
     \/ /\ WebWorkload => binding # None /\ binding.state = "active"
        /\ Conclude(r, "succeeded")
        /\ UNCHANGED binding
     \/ /\ WebWorkload
        /\ binding # None
        /\ binding.state = "retired" \/ (binding.state = "disabled" /\ Behind(r))
        /\ Conclude(r, "quarantined")
        /\ UNCHANGED binding
     \/ /\ WebWorkload
        /\ binding # None
        /\ binding.state = "disabled"
        /\ ~Behind(r)
        /\ runs' = [runs EXCEPT ![r].pc = "rebind", ![r].host = binding.version]
        /\ UNCHANGED binding
  /\ UNCHANGED << otherThanBinding, queue, runtime, deployingAt, applies >>

(* The host is reactivated if nobody wrote it since it was read, and        *)
(* stamped with the clock of the run.  A conflict of versions is not caught *)
(* by the worker: the request ends with a 500, the task stays queued.       *)
Rebind(r) ==
  /\ At(r, "rebind")
  /\ IF binding # None /\ binding.version = runs[r].host
       THEN /\ SaveBinding(runs[r].host, "active", runs[r].start)
            /\ Conclude(r, "succeeded")
       ELSE /\ EndRun(r)
            /\ UNCHANGED binding
  /\ UNCHANGED << otherThanBinding, queue, runtime, deployingAt, applies >>

(* _finish: write the outcome if the operation is still at the version      *)
(* held; either way the run is answered.                                    *)
Finish(r) ==
  LET o == runs[r].op
  IN /\ At(r, "finish")
     /\ IF OperationCurrent(o, runs[r].version)
          THEN SaveOperation(o, runs[r].version, runs[r].target)
          ELSE UNCHANGED operations
     /\ Answer(r)
     /\ UNCHANGED << otherThanOperations, runtime, deployingAt, applies >>

CrashRun(r) ==
  /\ r \in CrashableRuns
  /\ ~At(r, "idle")
  /\ EndRun(r)
  /\ UNCHANGED << otherThanQueue, queue, runtime, deployingAt, applies >>

(* A step a run takes by itself.                                            *)
RunStep(r) ==
  \/ Preflight(r) \/ FetchDenied(r) \/ StartBuild(r) \/ Build(r)
  \/ RevalidateBuilt(r) \/ StartDeploying(r) \/ RevalidateDeploying(r)
  \/ Apply(r) \/ StartVerifying(r) \/ Health(r) \/ Bind(r) \/ Rebind(r)
  \/ Finish(r)

RunsNext ==
  \E r \in Runs :
    \/ \E k \in KeyIds : Deliver(r, k)
    \/ RunStep(r)
    \/ FetchUnavailable(r)
    \/ CrashRun(r)

==============================================================================
