---------------------------- MODULE DeployRecords ----------------------------
(****************************************************************************)
(* The durable records of the deployment path of one workload, and the      *)
(* transactions of the store that write them (adapters/memory_store.py is   *)
(* the reference store, adapters/firestore_store.py the production one).    *)
(* Every operator below that primes a variable is ONE transaction: it is    *)
(* atomic, and the callers in DeployCalls and DeployWorkers interleave      *)
(* between transactions only.                                               *)
(*                                                                          *)
(* A reviewed plan is bound to the material of its review.  The code stores *)
(* a hash of that material; here the material itself stands for its hash:   *)
(* the version of the workload record and the repository admission, which   *)
(* fixes the source commit.  An admission record is never rewritten once    *)
(* created (save_repository_admission has no caller in src/), so its state  *)
(* and version need no variable.                                            *)
(****************************************************************************)
EXTENDS Naturals, FiniteSets, MimStates

CONSTANTS
  Actors,            \* people who may deploy the workload: its owner, admins
  AutoActor,         \* the actor of automatic deployments from GitHub
  Plans,             \* ids for plans issued by plan_deploy
  Ops,               \* ids for operations created by deploy_from_plan
  Keys,              \* idempotency keys people choose
  Deliveries,        \* GitHub delivery ids; a delivery scopes its own ids
  FirstAdmission,    \* the admission the workload is registered with
  Commit,            \* the commit of each admission
  WebWorkload,       \* TRUE for a workload served behind a public host
  None,              \* "no such record"
  MaxVersion         \* bound on the versions of the workload record

PlanIds    == Plans \cup Deliveries
OpIds      == Ops \cup Deliveries
KeyIds     == Keys \cup Deliveries
ActorIds   == Actors \cup {AutoActor}
Admissions == Deliveries \cup {FirstAdmission}

ASSUME IdsAreDistinct ==
  /\ Plans \cap Deliveries = {}
  /\ Ops \cap Deliveries = {}
  /\ Keys \cap Deliveries = {}      \* a person's key never starts "github:"
  /\ AutoActor \notin Actors
  /\ FirstAdmission \notin Deliveries
  /\ None \notin PlanIds \cup OpIds \cup KeyIds

ASSUME WorkloadParameters ==
  /\ WebWorkload \in BOOLEAN
  /\ MaxVersion \in Nat \ {0}

VARIABLES
  workload,         \* the workload record
  ownerActive,      \* is the workload's owner an active user?
  binding,          \* the public host of the workload, or None
  plans,            \* deployment plans by id
  expired,          \* plans whose expires_at has passed
  operations,       \* operations by id
  claims,           \* actor, then idempotency key -> operation
  deliveryClaims,   \* GitHub deliveries whose outcome is committed
  tasks,            \* durable deploy tasks by operation
  taskKey,          \* idempotency key -> operation, the other task index
  audited,          \* operations with an audit event
  spent             \* history: the operation each plan was consumed for

recordVars == << workload, ownerActive, binding, plans, expired, operations,
                 claims, deliveryClaims, tasks, taskKey, audited, spent >>

----------------------------------------------------------------------------
Material == [version : Nat \ {0}, admission : Admissions]

PlanRecord ==
  [state : {"issued", "consumed"}, actor : ActorIds, material : Material]

OperationRecord ==
  [state    : OperationStates,
   version  : Nat \ {0},
   actor    : ActorIds,
   key      : KeyIds,
   material : Material]

TaskRecord == [material : Material, opVersion : Nat \ {0}, key : KeyIds]

WorkloadRecord ==
  [version : Nat \ {0}, state : WorkloadStates, admission : Admissions]

BindingRecord ==
  [state   : BindingStates,
   version : Nat \ {0},
   at      : Nat,      \* updated_at, by the clock of whoever wrote it last
   down    : Nat]      \* history: when it was last taken down

NewHost(at) == [state |-> "active", version |-> 1, at |-> at, down |-> 0]

RecordsTypeOK ==
  /\ workload \in WorkloadRecord
  /\ ownerActive \in BOOLEAN
  /\ binding \in BindingRecord \cup {None}
  /\ plans \in [PlanIds -> PlanRecord \cup {None}]
  /\ expired \subseteq PlanIds
  /\ operations \in [OpIds -> OperationRecord \cup {None}]
  /\ claims \in [ActorIds -> [KeyIds -> OpIds \cup {None}]]
  /\ deliveryClaims \subseteq Deliveries
  /\ tasks \in [OpIds -> TaskRecord \cup {None}]
  /\ taskKey \in [KeyIds -> OpIds \cup {None}]
  /\ audited \subseteq OpIds
  /\ spent \in [PlanIds -> OpIds \cup {None}]

(* A registered, active workload, its owner active, nothing deployed by     *)
(* this control plane yet or a host already serving an earlier deployment.  *)
RecordsInit ==
  /\ workload = [version |-> 1, state |-> "active",
                 admission |-> FirstAdmission]
  /\ ownerActive = TRUE
  /\ binding \in IF WebWorkload
                   THEN {None, NewHost(0)}
                   ELSE {None}
  /\ plans = [p \in PlanIds |-> None]
  /\ expired = {}
  /\ operations = [o \in OpIds |-> None]
  /\ claims = [a \in ActorIds |-> [k \in KeyIds |-> None]]
  /\ deliveryClaims = {}
  /\ tasks = [o \in OpIds |-> None]
  /\ taskKey = [k \in KeyIds |-> None]
  /\ audited = {}
  /\ spent = [p \in PlanIds |-> None]

----------------------------------------------------------------------------
(* The material a review of the workload as it is now would produce.        *)
CurrentMaterial ==
  [version |-> workload.version, admission |-> workload.admission]

(* _review: the owner is active, the workload in a safe state, and its      *)
(* admission admitted with the workload's own commit.                       *)
Deployable == ownerActive /\ workload.state \in SafeWorkloadStates

(* Mutated: the first version of an operation is off by one.                *)
NewOperationAtZero(a, k, m) ==
  [state |-> "queued", version |-> 0, actor |-> a, key |-> k, material |-> m]

NewOperation(a, k, m) ==
  [state |-> "queued", version |-> 1, actor |-> a, key |-> k, material |-> m]

NewTask(o, k, m) == [material |-> m, opVersion |-> 1, key |-> k]

(* consume_deployment_plan_with_operation finds the key already claimed:    *)
(* the claimed operation is answered if the plan is consumed and the        *)
(* operation was created for the same material.                             *)
ClaimReplays(p, a, k) ==
  /\ claims[a][k] # None
  /\ operations[claims[a][k]].material = plans[p].material
  /\ plans[p].state = "consumed"

(* Mutated: a plan that is already consumed can be consumed again.          *)
FirstConsumptionAnyState(p, a, k) == claims[a][k] = None

(* ... or the key is free and the plan is consumed for a new operation o:   *)
(* plan, operation and claim are written together or not at all.            *)
FirstConsumption(p, a, k) ==
  claims[a][k] = None /\ plans[p].state = "issued"

ConsumePlan(p, a, k, o) ==
  /\ FirstConsumption(p, a, k)
  /\ operations[o] = None
  /\ plans' = [plans EXCEPT ![p].state = "consumed"]
  /\ operations' = [operations EXCEPT ![o] = NewOperation(a, k, plans[p].material)]
  /\ claims' = [claims EXCEPT ![a][k] = o]
  /\ spent' = [spent EXCEPT ![p] = o]

(* create_deploy_task_once refuses a key already indexed for another        *)
(* operation, and an operation already queued with other material.          *)
TaskConflicts(o, k, m) ==
  \/ taskKey[k] \notin {None, o}
  \/ tasks[o] # None /\ tasks[o] # NewTask(o, k, m)

(* It is idempotent otherwise.                                              *)
CreateTaskOnce(o, k, m) ==
  /\ ~TaskConflicts(o, k, m)
  /\ tasks' = [tasks EXCEPT ![o] = NewTask(o, k, m)]
  /\ taskKey' = [taskKey EXCEPT ![k] = o]

(* Mutated: the workload may have moved since the delivery was reviewed.    *)
AutoDeployCommitsUnfenced(d, v) ==
  /\ d \notin deliveryClaims
  /\ v \in Nat
  /\ Deployable
  /\ Commit[d] # Commit[workload.admission]
  /\ claims[AutoActor][d] = None
  /\ taskKey[d] = None

(* apply_github_auto_deploy_once: admission, workload, plan, operation,     *)
(* claim, task, both task indexes and the delivery claim in one             *)
(* transaction, against the version of the workload the delivery was        *)
(* reviewed at.                                                             *)
AutoDeployCommits(d, v) ==
  /\ d \notin deliveryClaims
  /\ workload.version = v
  /\ Deployable
  /\ Commit[d] # Commit[workload.admission]
  /\ claims[AutoActor][d] = None
  /\ taskKey[d] = None

(* A delivery whose claim exists answers with what was committed for it.    *)
DeliveryReplays(d, m) == d \in deliveryClaims /\ tasks[d].material = m

AutoDeployMaterial(d, v) == [version |-> v + 1, admission |-> d]

ApplyAutoDeploy(d, v) ==
  /\ AutoDeployCommits(d, v)
  /\ workload' = [workload EXCEPT !.version = v + 1, !.admission = d]
  /\ plans' = [plans EXCEPT ![d] = [state |-> "consumed", actor |-> AutoActor,
                                    material |-> AutoDeployMaterial(d, v)]]
  /\ operations' = [operations EXCEPT
                      ![d] = NewOperation(AutoActor, d, AutoDeployMaterial(d, v))]
  /\ claims' = [claims EXCEPT ![AutoActor][d] = d]
  /\ tasks' = [tasks EXCEPT ![d] = NewTask(d, d, AutoDeployMaterial(d, v))]
  /\ taskKey' = [taskKey EXCEPT ![d] = d]
  /\ deliveryClaims' = deliveryClaims \cup {d}
  /\ spent' = [spent EXCEPT ![d] = d]

(* Mutated: save_operation without the version check.                       *)
OperationCurrentUnchecked(o, v) == v > 0

(* save_operation: compare-and-set on the version, and only along the       *)
(* operation table.                                                         *)
OperationCurrent(o, v) ==
  operations[o].version = v

SaveOperation(o, v, target) ==
  /\ OperationCurrent(o, v)
  /\ target \in OperationMoves[operations[o].state]
  /\ operations' = [operations EXCEPT ![o].state = target, ![o].version = v + 1]

(* save_workload: compare-and-set as well.                                  *)
SaveWorkload(v, target) ==
  /\ workload.version = v
  /\ target \in WorkloadMoves[workload.state]
  /\ workload' = [workload EXCEPT !.state = target, !.version = v + 1]

(* save_app_hostname_binding: compare-and-set, along the table, and never   *)
(* back in time.  An equal stamp passes.                                    *)
SaveBinding(v, target, at) ==
  /\ binding.version = v
  /\ target \in BindingMoves[binding.state]
  /\ binding.at <= at
  /\ binding' = [binding EXCEPT !.state = target, !.version = v + 1, !.at = at]

==============================================================================
