----------------------------- MODULE DeployCalls -----------------------------
(****************************************************************************)
(* The public side of a deployment, services/deployments.py: plan_deploy,   *)
(* deploy_from_plan and deploy_from_github_webhook.  A call is one request  *)
(* in flight; it reads, writes and enqueues in separate steps, and may die  *)
(* between any two of them.  Clients retry a call with the same plan and    *)
(* the same idempotency key, GitHub redelivers a push under the same        *)
(* delivery id.                                                             *)
(****************************************************************************)
EXTENDS DeployRecords

CONSTANTS
  Calls,            \* requests that can be in flight at once
  CrashableCalls    \* the requests whose process may die midway

ASSUME CrashableCallsAreCalls == CrashableCalls \subseteq Calls

VARIABLES
  calls,            \* what each request in flight has read, and where it is
  queue             \* Cloud Tasks, by task name (a hash of the key)

callVars == << calls, queue >>

CallSteps == {"idle", "replay", "lookup", "review", "commit", "create",
              "audit", "enqueue", "advance"}

CallRecord ==
  [pc       : CallSteps,
   plan     : PlanIds \cup {None},
   key      : KeyIds \cup {None},
   op       : OpIds \cup {None},
   material : Material \cup {None},   \* what the call reviewed
   repair   : BOOLEAN,                \* a consumed plan without a durable task
   send     : BOOLEAN]                \* enqueue once audited?

IdleCall == [pc |-> "idle", plan |-> None, key |-> None, op |-> None,
             material |-> None, repair |-> FALSE, send |-> FALSE]

(* A task of the queue names an operation.  Once answered or exhausted it   *)
(* is no longer pending, and its name stays unusable for a while.           *)
QueueRecord == [op : OpIds, pending : BOOLEAN]

CallsTypeOK ==
  /\ calls \in [Calls -> CallRecord]
  /\ queue \in [KeyIds -> QueueRecord \cup {None}]

CallsInit ==
  /\ calls = [c \in Calls |-> IdleCall]
  /\ queue = [k \in KeyIds |-> None]

(* The actor of a call is the actor of its plan: anybody else is denied     *)
(* before anything is written.                                              *)
CallActor(c) ==
  IF calls[c].plan \in Deliveries THEN AutoActor ELSE plans[calls[c].plan].actor

Goto(c, step) == calls' = [calls EXCEPT ![c].pc = step]
EndCall(c)    == calls' = [calls EXCEPT ![c] = IdleCall]

----------------------------------------------------------------------------
(* plan_deploy: review the workload and store an issued plan for what was   *)
(* seen.  The quota and cost policies may refuse; then nothing is stored.   *)
PlanDeploy(a, p) ==
  /\ plans[p] = None
  /\ Deployable
  /\ plans' = [plans EXCEPT ![p] = [state |-> "issued", actor |-> a,
                                    material |-> CurrentMaterial]]
  /\ UNCHANGED << workload, ownerActive, binding, expired, operations, claims,
                  deliveryClaims, tasks, taskKey, audited, spent, callVars >>

(* Time passes the plan's expires_at.                                       *)
PlanExpires(p) ==
  /\ plans[p] # None
  /\ p \notin expired
  /\ expired' = expired \cup {p}
  /\ UNCHANGED << workload, ownerActive, binding, plans, operations, claims,
                  deliveryClaims, tasks, taskKey, audited, spent, callVars >>

(* deploy_from_plan reads the plan once.  Expiry is judged by the clock the *)
(* request started with, so it is judged here: an expired plan that is not  *)
(* consumed is denied with nothing written.                                 *)
DeployFromPlan(c, p, k) ==
  /\ calls[c].pc = "idle"
  /\ plans[p] # None
  /\ plans[p].state = "consumed" \/ p \notin expired
  /\ calls' = [calls EXCEPT ![c] =
       [IdleCall EXCEPT !.plan = p, !.key = k,
          !.pc = IF plans[p].state = "consumed" THEN "replay" ELSE "review"]]
  /\ UNCHANGED << recordVars, queue >>

(* The plan was consumed before: only the key that consumed it may go on.   *)
(* The state of the operation is remembered from this read.                 *)
ReplayPlan(c) ==
  LET p == calls[c].plan
      o == claims[CallActor(c)][calls[c].key]
  IN /\ calls[c].pc = "replay"
     /\ IF ClaimReplays(p, CallActor(c), calls[c].key)
          THEN calls' = [calls EXCEPT ![c].op = o, ![c].pc = "lookup",
                           ![c].send = operations[o].state = "queued"]
          ELSE EndCall(c)
     /\ UNCHANGED << recordVars, queue >>

(* Mutated: a replay hands the durable task over without auditing it first. *)
LookupTaskUnaudited(c) ==
  /\ calls[c].pc = "lookup"
  /\ IF tasks[calls[c].op] # None
       THEN Goto(c, "enqueue")
       ELSE calls' = [calls EXCEPT ![c].repair = TRUE, ![c].pc = "review"]
  /\ UNCHANGED << recordVars, queue >>

(* A consumed plan whose durable task is missing is repaired.               *)
LookupTask(c) ==
  /\ calls[c].pc = "lookup"
  /\ IF tasks[calls[c].op] # None
       THEN Goto(c, "audit")
       ELSE calls' = [calls EXCEPT ![c].repair = TRUE, ![c].pc = "review"]
  /\ UNCHANGED << recordVars, queue >>

(* Mutated: the reviewed material is not compared with the plan's hash.     *)
ReviewAnyMaterial(c) ==
  /\ calls[c].pc = "review"
  /\ Deployable
  /\ calls' = [calls EXCEPT ![c].material = CurrentMaterial, ![c].pc = "commit"]
  /\ UNCHANGED << recordVars, queue >>

(* _review reads the workload, its owner and its admission afresh; the plan *)
(* must have been issued for exactly this material.  Policy, quota or a     *)
(* source outage may deny the call here as well.                            *)
Review(c) ==
  /\ calls[c].pc = "review"
  /\ Deployable
  /\ plans[calls[c].plan].material = CurrentMaterial
  /\ calls' = [calls EXCEPT ![c].material = CurrentMaterial, ![c].pc = "commit"]
  /\ UNCHANGED << recordVars, queue >>

DenyReview(c) ==
  /\ calls[c].pc = "review"
  /\ EndCall(c)
  /\ UNCHANGED << recordVars, queue >>

(* The store consumes the plan for a new operation, or answers the one the  *)
(* key was already used for, or denies the call.                            *)
CommitPlan(c, o) ==
  LET a == CallActor(c)
  IN /\ calls[c].pc = "commit"
     /\ ConsumePlan(calls[c].plan, a, calls[c].key, o)
     /\ calls' = [calls EXCEPT ![c].op = o, ![c].pc = "create"]
     /\ UNCHANGED << workload, ownerActive, binding, expired, deliveryClaims,
                     tasks, taskKey, audited, queue >>

CommitReplay(c) ==
  LET a == CallActor(c)
  IN /\ calls[c].pc = "commit"
     /\ ~FirstConsumption(calls[c].plan, a, calls[c].key)
     /\ IF ClaimReplays(calls[c].plan, a, calls[c].key)
          THEN calls' = [calls EXCEPT ![c].op = claims[a][calls[c].key],
                                      ![c].pc = "create"]
          ELSE EndCall(c)
     /\ UNCHANGED << recordVars, queue >>

(* The durable task is a second transaction, built from what was reviewed.  *)
CreateTask(c) ==
  LET call == calls[c]
  IN /\ call.pc = "create"
     /\ CreateTaskOnce(call.op, call.key, call.material)
     /\ calls' = [calls EXCEPT ![c].send = TRUE, ![c].pc = "audit"]
     /\ UNCHANGED << workload, ownerActive, binding, plans, expired, operations,
                     claims, deliveryClaims, audited, spent, queue >>

DenyTask(c) ==
  /\ calls[c].pc = "create"
  /\ TaskConflicts(calls[c].op, calls[c].key, calls[c].material)
  /\ EndCall(c)
  /\ UNCHANGED << recordVars, queue >>

(* _append_audit_once; a replay of an operation already past "queued" ends  *)
(* here, anything else is handed to the queue.                              *)
Audit(c) ==
  /\ calls[c].pc = "audit"
  /\ audited' = audited \cup {calls[c].op}
  /\ IF calls[c].send THEN Goto(c, "enqueue") ELSE EndCall(c)
  /\ UNCHANGED << workload, ownerActive, binding, plans, expired, operations,
                  claims, deliveryClaims, tasks, taskKey, spent, queue >>

(* CloudTasksDeploymentQueue.enqueue: a fresh name creates the task; a name *)
(* in use is accepted if it is the same delivery and is an error otherwise, *)
(* which changes nothing either way.                                        *)
Enqueue(c) ==
  LET call == calls[c]
  IN /\ call.pc = "enqueue"
     /\ queue' = [queue EXCEPT ![call.key] =
                    IF @ = None THEN [op |-> call.op, pending |-> TRUE] ELSE @]
     /\ EndCall(c)
     /\ UNCHANGED recordVars

(* The process of the call dies, or the queue refuses it.  Nothing that was *)
(* committed is undone.                                                     *)
CrashCall(c) ==
  /\ c \in CrashableCalls
  /\ calls[c].pc # "idle"
  /\ EndCall(c)
  /\ UNCHANGED << recordVars, queue >>

----------------------------------------------------------------------------
(* deploy_from_github_webhook.  A delivery whose admission the workload     *)
(* already carries is a recovery; it must find the operation and the task   *)
(* of that delivery unchanged.  Any other delivery must bring a new commit. *)
RecoversDelivery(d) ==
  /\ workload.admission = d
  /\ operations[d].state = "queued"
       => tasks[d].material.version = workload.version

ReceivePush(c, d) ==
  /\ calls[c].pc = "idle"
  /\ Deployable
  /\ \/ /\ RecoversDelivery(d)
        /\ calls' = [calls EXCEPT ![c] =
             [IdleCall EXCEPT !.plan = d, !.key = d, !.op = d, !.pc = "audit",
                !.send = operations[d].state = "queued"]]
     \/ /\ workload.admission # d
        /\ Commit[d] # Commit[workload.admission]
        /\ workload.version < MaxVersion
        /\ calls' = [calls EXCEPT ![c] =
             [IdleCall EXCEPT !.plan = d, !.key = d, !.pc = "advance",
                !.material = AutoDeployMaterial(d, workload.version)]]
  /\ UNCHANGED << recordVars, queue >>

(* The source advances if the workload is as it was reviewed.               *)
AdvanceSource(c) ==
  LET d == calls[c].plan
      v == calls[c].material.version - 1
  IN /\ calls[c].pc = "advance"
     /\ ApplyAutoDeploy(d, v)
     /\ calls' = [calls EXCEPT ![c].op = d, ![c].send = TRUE, ![c].pc = "audit"]
     /\ UNCHANGED << ownerActive, binding, expired, audited, queue >>

(* Another call committed the delivery meanwhile.  Its outcome is answered  *)
(* if it was reviewed alike.                                                *)
ReplayAdvance(c) ==
  LET d == calls[c].plan
  IN /\ calls[c].pc = "advance"
     /\ DeliveryReplays(d, calls[c].material)
     /\ calls' = [calls EXCEPT ![c].op = d, ![c].pc = "audit",
                               ![c].send = operations[d].state = "queued"]
     /\ UNCHANGED << recordVars, queue >>

(* The commit is refused if the workload moved on since the review, or if   *)
(* the delivery was committed for other material.                           *)
DenyAdvance(c) ==
  LET d == calls[c].plan
  IN /\ calls[c].pc = "advance"
     /\ ~AutoDeployCommits(d, calls[c].material.version - 1)
     /\ ~DeliveryReplays(d, calls[c].material)
     /\ EndCall(c)
     /\ UNCHANGED << recordVars, queue >>

----------------------------------------------------------------------------
CallStep(c) ==
  \/ ReplayPlan(c) \/ LookupTask(c)
  \/ Review(c) \/ DenyReview(c)
  \/ (\E o \in Ops : CommitPlan(c, o)) \/ CommitReplay(c)
  \/ CreateTask(c) \/ DenyTask(c)
  \/ Audit(c) \/ Enqueue(c)
  \/ AdvanceSource(c) \/ ReplayAdvance(c) \/ DenyAdvance(c)

CallsNext ==
  \/ \E a \in Actors, p \in Plans : PlanDeploy(a, p)
  \/ \E p \in Plans : PlanExpires(p)
  \/ \E c \in Calls :
       \/ \E p \in Plans, k \in Keys : DeployFromPlan(c, p, k)
       \/ \E d \in Deliveries : ReceivePush(c, d)
       \/ CallStep(c)
       \/ CrashCall(c)

==============================================================================
