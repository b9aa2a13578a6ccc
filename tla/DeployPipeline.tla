--------------------------- MODULE DeployPipeline ---------------------------
(****************************************************************************)
(* The deployment path of one workload as a whole: the public calls that    *)
(* turn reviewed plans into queued operations (DeployCalls), the private    *)
(* worker that carries them out (DeployWorkers), and everybody else who     *)
(* writes the same records meanwhile: the app gateway recording activity,   *)
(* the cost guard pausing, the lifecycle worker quarantining and archiving, *)
(* identity sync suspending the owner.                                      *)
(****************************************************************************)
EXTENDS DeployWorkers

CONSTANTS
  StopTargets,     \* which of the three stops below may happen
  QueueGivesUp,    \* may the queue drop a task after its last attempt?
  MaxClock         \* bound on the time that passes

ASSUME StopTargetsAreStops ==
  StopTargets \subseteq {"paused", "quarantined", "archived"}

ASSUME QueueGivesUpIsChosen == QueueGivesUp \in BOOLEAN

ASSUME TimeIsBounded == MaxClock \in Nat

VARIABLE stop            \* the maintenance job that is stopping the workload

vars == << recordVars, callVars, runVars, stop, clock >>

StopRecord ==
  [pc      : {"idle", "disable", "delete", "retire", "save"},
   target  : StopTargets \cup {None},
   version : Nat]

IdleStop == [pc |-> "idle", target |-> None, version |-> 0]

TypeOK ==
  /\ RecordsTypeOK
  /\ CallsTypeOK
  /\ RunsTypeOK
  /\ stop \in StopRecord

Init == RecordsInit /\ CallsInit /\ RunsInit /\ stop = IdleStop

----------------------------------------------------------------------------
EndStop == stop' = IdleStop

otherThanWorkload ==
  << ownerActive, binding, plans, expired, operations, claims, deliveryClaims,
     tasks, taskKey, audited, spent, callVars, runVars >>

(* A request through the app gateway, or a scheduled run, refreshes the     *)
(* activity of an active workload: one more version of the record.          *)
RecordActivity ==
  /\ workload.state = "active"
  /\ workload.version < MaxVersion
  /\ workload' = [workload EXCEPT !.version = @ + 1]
  /\ UNCHANGED << otherThanWorkload, stop, clock >>

(* Identity sync locks or restores the owner.                               *)
ChangeOwner ==
  /\ ownerActive' = ~ownerActive
  /\ UNCHANGED << workload, binding, plans, expired, operations, claims,
                  deliveryClaims, tasks, taskKey, audited, spent, callVars,
                  runVars, stop, clock >>

Tick ==
  /\ clock < MaxClock
  /\ clock' = clock + 1
  /\ UNCHANGED << recordVars, callVars, runVars, stop >>

(* A cost hold pauses an active workload, the lifecycle worker quarantines  *)
(* the workload of an inactive owner: both take the public host down before *)
(* they write the workload.  Cleanup archives the workload: it deletes the  *)
(* service, then retires the host, then writes the workload.                *)
BeginStop(target) ==
  /\ stop.pc = "idle"
  /\ target \in StopTargets
  /\ target \in WorkloadMoves[workload.state]
  /\ workload.version < MaxVersion
  /\ target = "paused" => workload.state = "active"
  /\ target = "quarantined" => ~ownerActive
  /\ stop' = [pc |-> IF target = "archived" THEN "delete" ELSE "disable",
              target |-> target, version |-> workload.version]
  /\ UNCHANGED << recordVars, callVars, runVars, clock >>

(* Mutated: the host keeps the stamp of its last deployment.                *)
DisableHostUnstamped ==
  /\ stop.pc = "disable"
  /\ workload.version = stop.version
  /\ binding' = IF binding # None /\ binding.state = "active"
                  THEN [binding EXCEPT !.state = "disabled", !.version = @ + 1,
                                       !.down = clock]
                  ELSE binding
  /\ stop' = [stop EXCEPT !.pc = "save"]
  /\ UNCHANGED << workload, ownerActive, plans, expired, operations, claims,
                  deliveryClaims, tasks, taskKey, audited, spent, callVars,
                  runVars, clock >>

(* remove_owner_access denies a stale version; a host that is absent,       *)
(* disabled or retired is left as it is.  The stamp is the clock of the     *)
(* job, which is denied if the host's own stamp is ahead of it.             *)
DisableHost ==
  /\ stop.pc = "disable"
  /\ workload.version = stop.version
  /\ IF binding # None /\ binding.state = "active"
       THEN \E now \in Readings :
              /\ binding.at <= now
              /\ binding' = [binding EXCEPT !.state = "disabled", !.version = @ + 1,
                                            !.at = now, !.down = clock]
       ELSE UNCHANGED binding
  /\ stop' = [stop EXCEPT !.pc = "save"]
  /\ UNCHANGED << workload, ownerActive, plans, expired, operations, claims,
                  deliveryClaims, tasks, taskKey, audited, spent, callVars,
                  runVars, clock >>

(* delete_compute denies a stale version too.                               *)
DeleteService ==
  /\ stop.pc = "delete"
  /\ workload.version = stop.version
  /\ runtime' = None
  /\ stop' = [stop EXCEPT !.pc = "retire"]
  /\ UNCHANGED << recordVars, callVars, runs, deployingAt, applies, clock >>

(* A clock behind the host's stamp is a denial here too (AbandonStop); the  *)
(* stamp of a retired host is never compared again, and left as it is.      *)
RetireHost ==
  /\ stop.pc = "retire"
  /\ binding' = IF binding # None /\ binding.state # "retired"
                  THEN [binding EXCEPT !.state = "retired", !.version = @ + 1]
                  ELSE binding
  /\ stop' = [stop EXCEPT !.pc = "save"]
  /\ UNCHANGED << workload, ownerActive, plans, expired, operations, claims,
                  deliveryClaims, tasks, taskKey, audited, spent, callVars,
                  runVars, clock >>

SaveStopped ==
  /\ stop.pc = "save"
  /\ SaveWorkload(stop.version, stop.target)
  /\ EndStop
  /\ UNCHANGED << otherThanWorkload, clock >>

(* A stale version at any step ends the job, and so does a crash; what it   *)
(* has done by then stays done.                                             *)
AbandonStop ==
  /\ stop.pc # "idle"
  /\ EndStop
  /\ UNCHANGED << recordVars, callVars, runVars, clock >>

StopNext ==
  \/ \E target \in StopTargets : BeginStop(target)
  \/ DisableHost \/ DeleteService \/ RetireHost \/ SaveStopped
  \/ AbandonStop

EnvironmentNext ==
  \/ RecordActivity
  \/ ChangeOwner
  \/ Tick

(* The queue gives a task up after its last attempt.                        *)
ExhaustTask(k) ==
  /\ QueueGivesUp
  /\ queue[k] # None
  /\ queue[k].pending
  /\ queue' = [queue EXCEPT ![k].pending = FALSE]
  /\ UNCHANGED << recordVars, calls, runVars, stop, clock >>

Next ==
  \/ CallsNext /\ UNCHANGED << runVars, stop, clock >>
  \/ RunsNext /\ UNCHANGED << stop, clock >>
  \/ EnvironmentNext
  \/ StopNext
  \/ \E k \in KeyIds : ExhaustTask(k)

Spec == Init /\ [][Next]_vars

----------------------------------------------------------------------------
(* Fairness.  A live run keeps executing, the queue keeps delivering what   *)
(* is pending, and the source is not down for ever (a fetch that keeps      *)
(* being retried is eventually answered).                                   *)
Fairness ==
  \A r \in Runs :
    /\ WF_vars(RunStep(r) /\ UNCHANGED << stop, clock >>)
    /\ WF_vars(\E k \in KeyIds : Deliver(r, k) /\ UNCHANGED << stop, clock >>)
    /\ SF_vars(StartBuild(r) /\ UNCHANGED << stop, clock >>)

FairSpec == Spec /\ Fairness

----------------------------------------------------------------------------
Exists(o) == operations[o] # None

(* A reviewed plan is spent on one operation only, by its own actor and for *)
(* its own material, and no operation exists without a plan: two requests   *)
(* racing to consume one plan under different keys, a replay, and a repair  *)
(* all end with one operation (consume_deployment_plan_with_operation).     *)
PlanSpentOnce ==
  /\ \A p \in PlanIds :
       (spent[p] # None) <=> (plans[p] # None /\ plans[p].state = "consumed")
  /\ \A p, q \in PlanIds : spent[p] = spent[q] /\ spent[p] # None => p = q
  /\ \A o \in OpIds : Exists(o) =>
       \E p \in PlanIds : /\ spent[p] = o
                          /\ plans[p].actor = operations[o].actor
                          /\ plans[p].material = operations[o].material

(* Pushes take effect in the order they are committed in: when the source   *)
(* moves to a push, its task is for a newer version of the workload than    *)
(* the task of every push before it, none of which is rewritten, so that no *)
(* task of an older push stands again.  Two deliveries reviewed against the *)
(* same record, a delivery repeated after a newer push, and a call that     *)
(* comes late with what it reviewed must not break it                       *)
(* (apply_github_auto_deploy_once, Workload.advance_source).                *)
SourceMovesForward ==
  [][ \A d \in Deliveries :
        workload.admission # d /\ workload'.admission = d =>
          \A e \in deliveryClaims :
            /\ tasks'[e] = tasks[e]
            /\ tasks[e].material.version < tasks'[d].material.version ]_vars

(* The two task indexes agree with each other and with the operation, and a *)
(* queued task carries the material its plan was reviewed for, although it  *)
(* is built from a later read than the plan and written after the operation *)
(* (create_deploy_task_once, the repair branch of deploy_from_plan).        *)
TaskMatchesReview ==
  /\ \A o \in OpIds : tasks[o] # None =>
       /\ Exists(o)
       /\ tasks[o].material = operations[o].material
       /\ tasks[o].key = operations[o].key
       /\ taskKey[tasks[o].key] = o
  /\ \A k \in KeyIds : taskKey[k] # None =>
       tasks[taskKey[k]] # None /\ tasks[taskKey[k]].key = k

(* Whatever the queue may deliver is durable, belongs to the key that named *)
(* the task, and was audited before it could be delivered.                  *)
QueuedIsAudited ==
  \A k \in KeyIds : queue[k] # None =>
    taskKey[k] = queue[k].op /\ queue[k].op \in audited

(* At most one run works on an operation past the build claim, however      *)
(* often the queue delivers its task (the compare-and-set of _advance).     *)
WorkingSteps == RunSteps \ {"idle", "preflight", "fetch", "finish"}

OneRunPerOperation ==
  \A r, s \in Runs :
    /\ runs[r].pc \in WorkingSteps
    /\ runs[s].pc \in WorkingSteps
    /\ runs[r].op = runs[s].op
    => r = s

(* An operation is written to Cloud Run at most once, and only if nothing   *)
(* had changed the workload record since the review when the operation      *)
(* became "deploying": a pause, a quarantine, a newer push that committed   *)
(* before that point is never overridden (_revalidate_before_runtime).      *)
AppliedOnceAndFenced ==
  \A o \in OpIds : applies[o] > 0 =>
    /\ applies[o] = 1
    /\ deployingAt[o] = operations[o].material.version

(* A host comes up, or back up after it was taken down, only through a run  *)
(* that has written its operation to Cloud Run once, under the fence, and   *)
(* that began no longer than the clocks may be apart before the host was    *)
(* last taken down: a run that was under way when a hold or a sweep took    *)
(* the host down cannot undo that later (create_active_binding,             *)
(* transition_state, the compare-and-set of save_app_hostname_binding).     *)
HostUpIsEarned ==
  [][ binding' # binding /\ binding'.state = "active" =>
        \E r \in Runs : LET o == runs[r].op IN
          /\ runs[r].pc \in {"bind", "rebind"}
          /\ applies[o] = 1
          /\ deployingAt[o] = operations[o].material.version
          /\ binding # None => binding.down <= runs[r].began + ClockLag ]_vars

(* The pipeline implements the ledger of plans.                             *)
Outcome(o) ==
  IF ~Exists(o) \/ operations[o].state \notin TerminalOperationStates THEN "open"
  ELSE IF operations[o].state = "succeeded" THEN "success" ELSE "other"

Ledger == INSTANCE PlanLedger WITH
  reviewed <- {p \in PlanIds : plans[p] # None},
  ledger   <- spent,
  applied  <- {o \in OpIds : applies[o] > 0},
  outcome  <- [o \in OpIds |-> Outcome(o)]

ImplementsLedger == Ledger!LedgerSpec

(* Every operation whose task the queue will deliver comes to an end, as    *)
(* long as runs do not die midway and the queue does not give up.           *)
Settled(o) == Exists(o) /\ operations[o].state \in TerminalOperationStates

QueuedOperationsSettle ==
  \A k \in KeyIds :
    (queue[k] # None /\ queue[k].pending) ~> (queue[k] # None /\ Settled(queue[k].op))

----------------------------------------------------------------------------
(* Statements of the documents that the code does not keep.                 *)

(* "The plan and operation commit precedes task persistence.  A retry must  *)
(* be able to reconstruct that missing durable task."                       *)
(* services/deployments.py:286.                                             *)
MissingTaskIsReconstructible ==
  \A o \in OpIds : Exists(o) /\ operations[o].state = "queued" /\ tasks[o] = None =>
    ~TaskConflicts(o, operations[o].key, operations[o].material)

(* "A restore/redeploy may return a disabled binding to ACTIVE only after a *)
(* healthy verified deployment and fresh user, group, ownership, and cost   *)
(* checks."  docs/plans/2026-08-05-mim-madup-app-edge-design.md:294.        *)
ReactivationChecksOwner ==
  [][ (/\ binding # None /\ binding.state = "disabled"
       /\ binding'.state = "active")
      => ownerActive ]_vars

(* "A failed check restores the last healthy revision."                     *)
(* docs/plans/2026-08-02-mim-control-plane-design.md:239.                   *)
FailedCheckRestores ==
  [][ \A o \in OpIds :
        /\ Exists(o) /\ operations[o].state = "verifying"
        /\ operations'[o].state = "failed"
        /\ \E h \in OpIds : Exists(h) /\ operations[h].state = "succeeded"
        => runtime' # o ]_vars

==============================================================================
