--------------------------- MODULE DeployInvariant ---------------------------
(****************************************************************************)
(* What holds of every reachable state of DeployPipeline and is preserved   *)
(* by every step of it: the strengthening of the safety properties that     *)
(* DeployProofs proves, and that TLC checks here on small instances.        *)
(****************************************************************************)
EXTENDS DeployPipeline

(* Nothing that is stored equals "no such record".                          *)
ASSUME NoneIsNoRecord ==
  None \notin PlanRecord \cup OperationRecord \cup TaskRecord \cup BindingRecord
               \cup QueueRecord \cup Material

(* The operations.  Only a queued operation is at version 1, and nothing is *)
(* written to Cloud Run before an operation leaves the queue.               *)
OperationFacts ==
  \A o \in OpIds : Exists(o) =>
    /\ operations[o].state # "planned"
    /\ operations[o].state = "queued" <=> operations[o].version = 1
    /\ operations[o].state = "queued" => applies[o] = 0
    /\ operations[o].material.version <= workload.version

(* The plans and the claims.  The operation of a claim, and the operation a *)
(* plan was spent on, exist.                                                *)
LedgerFacts ==
  /\ \A p \in PlanIds : plans[p] # None =>
       plans[p].material.version <= workload.version
  /\ \A p \in PlanIds : spent[p] # None => Exists(spent[p])
  /\ \A a \in ActorIds, k \in KeyIds : claims[a][k] # None =>
       Exists(claims[a][k]) /\ operations[claims[a][k]].key = k
  /\ \A o \in OpIds : ~Exists(o) => applies[o] = 0

(* A delivery is committed as a whole or not at all.                        *)
DeliveryFacts ==
  /\ workload.admission \in deliveryClaims \cup {FirstAdmission}
  /\ \A d \in deliveryClaims : tasks[d] # None /\ tasks[d].key = d
  /\ \A d \in Deliveries \ deliveryClaims : plans[d] = None /\ ~Exists(d)

(* What a request has established by the time it reaches each step.         *)
CallFacts(c) ==
  LET call == calls[c]
  IN /\ call.pc # "idle" => call.plan \in PlanIds /\ call.key \in KeyIds
     /\ call.pc \in {"replay", "lookup", "review", "commit", "create"} =>
          call.plan \in Plans /\ plans[call.plan] # None
     /\ call.pc \in {"lookup", "create"} =>
          /\ call.op \in OpIds
          /\ Exists(call.op)
          /\ operations[call.op].key = call.key
     /\ call.pc \in {"commit", "create"} =>
          /\ call.material \in Material
          /\ call.material = plans[call.plan].material
     /\ call.pc = "create" => operations[call.op].material = call.material
     /\ call.pc \in {"audit", "enqueue"} =>
          /\ call.op \in OpIds
          /\ tasks[call.op] # None
          /\ tasks[call.op].key = call.key
     /\ call.pc = "enqueue" => call.op \in audited
     /\ call.pc = "advance" =>
          call.plan \in Deliveries /\ call.key = call.plan /\ call.material \in Material

(* A run that made a write of its own holds the operation.                  *)
Holds(r) == runs[r].pc # "idle" /\ runs[r].version >= 2

(* What a run has established by the time it reaches each step.             *)
RunFacts(r) ==
  LET run == runs[r]
      o   == run.op
  IN /\ run.pc # "idle" =>
          /\ o \in OpIds
          /\ tasks[o] # None
          /\ queue[tasks[o].key] # None
          /\ run.version >= 1
     /\ run.pc \in {"preflight", "fetch"} => run.version = 1
     /\ run.pc \in WorkingSteps => run.version >= 2
     /\ Holds(r) => /\ operations[o].version = run.version
                    /\ operations[o].state \in InProgressOperationStates
     /\ run.pc \in {"build", "built", "deploying", "revalidate", "apply"} =>
          applies[o] = 0
     /\ run.pc = "revalidate" => /\ tasks[o].material.version <= deployingAt[o]
                                 /\ deployingAt[o] <= workload.version
     /\ run.pc = "apply" => deployingAt[o] = tasks[o].material.version
     /\ run.pc \in {"verifying", "health", "bind", "rebind"} => applies[o] > 0
     /\ run.pc = "finish" => /\ run.target \in TerminalOperationStates
                             /\ run.target = "succeeded" => applies[o] > 0

OneHolder ==
  \A r, s \in Runs : Holds(r) /\ Holds(s) /\ runs[r].op = runs[s].op => r = s

(* The inductive invariant of the deployment path: what the records, the    *)
(* requests and the runs agree on between any two steps of any of them      *)
(* (domain/plans.py, services/deployments.py and workers/deploy.py).        *)
PipelineInvariant ==
  /\ TypeOK
  /\ PlanSpentOnce
  /\ TaskMatchesReview
  /\ QueuedIsAudited
  /\ AppliedOnceAndFenced
  /\ OperationFacts
  /\ LedgerFacts
  /\ DeliveryFacts
  /\ \A c \in Calls : CallFacts(c)
  /\ \A r \in Runs : RunFacts(r)
  /\ OneHolder

(* A run that is about to reactivate the host: as long as the host is the   *)
(* one it read, the host's stamp is no newer than the run's.                *)
HostRead(run) ==
  /\ binding # None
  /\ run.host <= binding.version
  /\ run.host = binding.version => binding.at <= run.start

(* What the stamps say of the times: a host was taken down no later than    *)
(* its stamp and the distance of the clocks, and no run started by its own  *)
(* clock after it began (remove_owner_access, create_active_binding).     *)
HostStamps ==
  /\ binding # None => binding.down <= binding.at + ClockLag
  /\ \A r \in Runs : /\ runs[r].start <= runs[r].began
                     /\ runs[r].pc = "rebind" => HostRead(runs[r])

==============================================================================
