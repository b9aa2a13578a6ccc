---------------------------- MODULE DeployProofs ----------------------------
(****************************************************************************)
(* Proofs about the deployment path.                                        *)
(****************************************************************************)
EXTENDS DeployInvariant, TLAPS

(* The operation table stays within the states, and never leads back to     *)
(* "queued" from a state a stored operation can be in.                      *)
LEMMA OperationMovesClosed ==
  \A s \in OperationStates : OperationMoves[s] \subseteq OperationStates
BY DEF OperationStates, OperationMoves

LEMMA OperationMovesForward ==
  \A s \in OperationStates \ {"planned"} :
    OperationMoves[s] \subseteq OperationStates \ {"planned", "queued"}
BY DEF OperationStates, OperationMoves

LEMMA WorkloadMovesClosed ==
  \A s \in WorkloadStates : WorkloadMoves[s] \subseteq WorkloadStates
BY DEF WorkloadStates, WorkloadMoves

LEMMA BindingMovesClosed ==
  \A s \in BindingStates : BindingMoves[s] \subseteq BindingStates
BY DEF BindingStates, BindingMoves

LEMMA Initially == ASSUME Init PROVE PipelineInvariant
<1>1. TypeOK
  BY IdsAreDistinct, WorkloadParameters DEF Init, RecordsInit, CallsInit, RunsInit, TypeOK, RecordsTypeOK, CallsTypeOK, RunsTypeOK,
    WorkloadRecord, BindingRecord, NewHost, CallRecord, IdleCall, RunRecord, IdleRun, StopRecord, IdleStop, WorkloadStates, WorkloadMoves, BindingStates, BindingMoves, Admissions,
    PlanIds, OpIds, KeyIds, ActorIds, CallSteps, RunSteps
<1>2. PlanSpentOnce
  BY IdsAreDistinct DEF Init, RecordsInit, PlanSpentOnce, Exists
<1>3. TaskMatchesReview /\ QueuedIsAudited
  BY DEF Init, RecordsInit, CallsInit, TaskMatchesReview, QueuedIsAudited
<1>4. AppliedOnceAndFenced /\ OperationFacts /\ LedgerFacts /\ DeliveryFacts
  BY DEF Init, RecordsInit, RunsInit, AppliedOnceAndFenced, OperationFacts, LedgerFacts, DeliveryFacts, Exists, PlanIds, OpIds
<1>5. \A c \in Calls : CallFacts(c)
  BY DEF Init, CallsInit, CallFacts, IdleCall
<1>6. (\A r \in Runs : RunFacts(r)) /\ OneHolder
  BY DEF Init, RunsInit, RunFacts, IdleRun, OneHolder, Holds, WorkingSteps
<1> QED BY <1>1, <1>2, <1>3, <1>4, <1>5, <1>6 DEF PipelineInvariant

(* Whoever makes a request with a plan is the actor of that plan.           *)
LEMMA CallActorTyped ==
  ASSUME PipelineInvariant, NEW c \in Calls,
         calls[c].pc \in {"replay", "lookup", "review", "commit", "create"}
  PROVE  /\ calls[c].plan \in Plans
         /\ calls[c].key \in KeyIds
         /\ plans[calls[c].plan] \in PlanRecord
         /\ CallActor(c) = plans[calls[c].plan].actor
         /\ CallActor(c) \in ActorIds
<1>1. calls[c].plan \in Plans /\ plans[calls[c].plan] # None /\ calls[c].key \in KeyIds
  BY DEF PipelineInvariant, CallFacts
<1>2. plans[calls[c].plan] \in PlanRecord
  BY <1>1 DEF PipelineInvariant, TypeOK, RecordsTypeOK, PlanIds
<1>3. calls[c].plan \notin Deliveries
  BY <1>1, IdsAreDistinct
<1> QED BY <1>1, <1>2, <1>3 DEF CallActor, PlanRecord

(* Setting a field of a call.                                               *)
LEMMA CallUpdated ==
  ASSUME NEW call \in CallRecord, NEW s \in CallSteps
  PROVE  /\ [call EXCEPT !.pc = s] \in CallRecord
         /\ \A m \in Material : [call EXCEPT !.material = m, !.pc = s] \in CallRecord
         /\ \A b \in BOOLEAN : /\ [call EXCEPT !.repair = b, !.pc = s] \in CallRecord
                               /\ [call EXCEPT !.send = b, !.pc = s] \in CallRecord
         /\ \A o \in OpIds : [call EXCEPT !.op = o, !.pc = s] \in CallRecord
BY DEF CallRecord

(* The calls stay well typed.                                               *)
LEMMA CallsTyped ==
  ASSUME PipelineInvariant, NEW c \in Calls,
         \/ \E p \in Plans, k \in Keys : DeployFromPlan(c, p, k)
         \/ \E d \in Deliveries : ReceivePush(c, d)
         \/ CallStep(c)
         \/ CrashCall(c)
  PROVE  calls' \in [Calls -> CallRecord]
<1>0. calls \in [Calls -> CallRecord] /\ IdleCall \in CallRecord
  BY DEF PipelineInvariant, TypeOK, CallsTypeOK, IdleCall, CallRecord, CallSteps
<1>00. RecordsTypeOK /\ CallFacts(c)
  BY DEF PipelineInvariant, TypeOK
<1>1. ASSUME NEW p \in Plans, NEW k \in Keys, DeployFromPlan(c, p, k)
      PROVE  calls' \in [Calls -> CallRecord]
  BY <1>0, <1>1 DEF DeployFromPlan, IdleCall, CallRecord, CallSteps, PlanIds, KeyIds
<1>2. ASSUME NEW d \in Deliveries, ReceivePush(c, d)
      PROVE  calls' \in [Calls -> CallRecord]
  <2>1. AutoDeployMaterial(d, workload.version) \in Material
    BY <1>00 DEF AutoDeployMaterial, Material, Admissions, RecordsTypeOK, WorkloadRecord
  <2>2. d \in PlanIds /\ d \in KeyIds /\ d \in OpIds
    BY DEF PlanIds, KeyIds, OpIds
  <2>3. ASSUME NEW b \in BOOLEAN
        PROVE  [IdleCall EXCEPT !.plan = d, !.key = d, !.op = d, !.pc = "audit",
                                !.send = b] \in CallRecord
    BY <1>0, <2>2 DEF IdleCall, CallRecord, CallSteps
  <2>4. [IdleCall EXCEPT !.plan = d, !.key = d, !.pc = "advance",
           !.material = AutoDeployMaterial(d, workload.version)] \in CallRecord
    BY <1>0, <2>1, <2>2 DEF IdleCall, CallRecord, CallSteps
  <2>5. \/ \E b \in BOOLEAN : calls' = [calls EXCEPT ![c] =
             [IdleCall EXCEPT !.plan = d, !.key = d, !.op = d, !.pc = "audit",
                !.send = b]]
        \/ calls' = [calls EXCEPT ![c] =
             [IdleCall EXCEPT !.plan = d, !.key = d, !.pc = "advance",
                !.material = AutoDeployMaterial(d, workload.version)]]
    BY <1>2 DEF ReceivePush
  <2> QED BY <1>0, <2>3, <2>4, <2>5
<1>3. ASSUME NEW s \in CallSteps
      PROVE  [calls EXCEPT ![c].pc = s] \in [Calls -> CallRecord]
  BY <1>0 DEF CallRecord
<1>4. [calls EXCEPT ![c] = IdleCall] \in [Calls -> CallRecord]
  BY <1>0
<1>5. CASE ReplayPlan(c)
  <2>1. claims[CallActor(c)][calls[c].key] \in OpIds \cup {None}
    BY <1>00, <1>5, CallActorTyped DEF ReplayPlan, RecordsTypeOK
  <2> QED BY <1>0, <1>5, <2>1, <1>4 DEF ReplayPlan, EndCall, CallRecord, CallSteps
<1>6. CASE LookupTask(c)
  BY <1>0, <1>6, <1>3 DEF LookupTask, Goto, CallRecord, CallSteps
<1>7. CASE Review(c)
  <2>1. CurrentMaterial \in Material
    BY <1>00 DEF CurrentMaterial, Material, RecordsTypeOK, WorkloadRecord
  <2>2. calls' = [calls EXCEPT ![c].material = CurrentMaterial, ![c].pc = "commit"]
    BY <1>7 DEF Review
  <2>3. [calls[c] EXCEPT !.material = CurrentMaterial, !.pc = "commit"] \in CallRecord
    BY <1>0, <2>1, CallUpdated DEF CallSteps
  <2> QED BY <1>0, <2>2, <2>3
<1>8. CASE DenyReview(c) \/ DenyTask(c) \/ DenyAdvance(c) \/ Enqueue(c) \/ CrashCall(c)
  BY <1>8, <1>4 DEF DenyReview, DenyTask, DenyAdvance, Enqueue, CrashCall, EndCall
<1>9. ASSUME NEW o \in Ops, CommitPlan(c, o) PROVE calls' \in [Calls -> CallRecord]
  BY <1>0, <1>9 DEF CommitPlan, CallRecord, CallSteps, OpIds
<1>10. CASE CommitReplay(c)
  <2>1. claims[CallActor(c)][calls[c].key] \in OpIds \cup {None}
    BY <1>00, <1>10, CallActorTyped DEF CommitReplay, RecordsTypeOK
  <2> QED BY <1>0, <1>10, <2>1, <1>4 DEF CommitReplay, EndCall, CallRecord, CallSteps
<1>11. CASE CreateTask(c)
  <2>1. calls' = [calls EXCEPT ![c].send = TRUE, ![c].pc = "audit"]
    BY <1>11 DEF CreateTask
  <2>2. [calls[c] EXCEPT !.send = TRUE, !.pc = "audit"] \in CallRecord
    BY <1>0, CallUpdated DEF CallSteps
  <2> QED BY <1>0, <2>1, <2>2
<1>12. CASE Audit(c)
  BY <1>12, <1>3, <1>4 DEF Audit, Goto, EndCall, CallSteps
<1>13. CASE AdvanceSource(c) \/ ReplayAdvance(c)
  BY <1>0, <1>00, <1>13 DEF AdvanceSource, ReplayAdvance, CallFacts, CallRecord, CallSteps, OpIds
<1> QED
  BY <1>1, <1>2, <1>5, <1>6, <1>7, <1>8, <1>9, <1>10, <1>11, <1>12, <1>13 DEF CallStep

----------------------------------------------------------------------------
(* Nothing a request or a run relies on is ever taken back.                 *)
RecordsGrow ==
  /\ \A o \in OpIds : Exists(o) =>
       /\ operations'[o] # None
       /\ operations'[o].key = operations[o].key
       /\ operations'[o].material = operations[o].material
  /\ \A o \in OpIds : tasks[o] # None => tasks'[o] = tasks[o]
  /\ \A p \in PlanIds : plans[p] # None =>
       plans'[p] # None /\ plans'[p].material = plans[p].material
  /\ \A k \in KeyIds : queue[k] # None => queue'[k] # None
  /\ audited \subseteq audited'
  /\ workload.version <= workload'.version

(* What a request that does not move has established stays true.            *)
LEMMA CallKept ==
  ASSUME NEW c \in Calls, CallFacts(c), RecordsGrow, calls'[c] = calls[c]
  PROVE  CallFacts(c)'
<1> DEFINE call == calls[c]
<1>1. call.pc \in {"replay", "lookup", "review", "commit", "create"} =>
        call.plan \in Plans /\ call.plan \in PlanIds /\ plans'[call.plan] # None
          /\ plans'[call.plan].material = plans[call.plan].material
  BY DEF CallFacts, RecordsGrow, PlanIds
<1>2. call.pc \in {"lookup", "create"} =>
        /\ operations'[call.op] # None
        /\ operations'[call.op].key = operations[call.op].key
        /\ operations'[call.op].material = operations[call.op].material
  BY DEF CallFacts, RecordsGrow
<1>3. call.pc \in {"audit", "enqueue"} => tasks'[call.op] = tasks[call.op]
  BY DEF CallFacts, RecordsGrow
<1>4. call.pc = "enqueue" => call.op \in audited'
  BY DEF CallFacts, RecordsGrow
<1> QED BY <1>1, <1>2, <1>3, <1>4 DEF CallFacts, Exists

(* What a run that does not move has established stays true, as long as     *)
(* nobody else writes the operation it holds.                               *)
Undisturbed(r) ==
  /\ Holds(r) => /\ operations'[runs[r].op] = operations[runs[r].op]
                 /\ applies'[runs[r].op] = applies[runs[r].op]
                 /\ deployingAt'[runs[r].op] = deployingAt[runs[r].op]
  /\ \A o \in OpIds : applies[o] > 0 => applies'[o] > 0

LEMMA RunKept ==
  ASSUME NEW r \in Runs, TypeOK, TypeOK', RunFacts(r), RecordsGrow, Undisturbed(r),
         runs'[r] = runs[r]
  PROVE  RunFacts(r)'
<1> DEFINE run == runs[r]
           o   == runs[r].op
<1>1. run.pc # "idle" => /\ o \in OpIds
                         /\ tasks'[o] = tasks[o] /\ tasks'[o] # None
                         /\ tasks[o].key \in KeyIds
                         /\ queue'[tasks'[o].key] # None
  <2>1. run.pc # "idle" => o \in OpIds /\ tasks[o] # None /\ queue[tasks[o].key] # None
    BY DEF RunFacts
  <2>2. run.pc # "idle" => tasks[o].key \in KeyIds
    BY <2>1 DEF TypeOK, RecordsTypeOK, TaskRecord
  <2> QED BY <2>1, <2>2 DEF RecordsGrow
<1>2. Holds(r)' <=> Holds(r)
  BY DEF Holds
<1>3. Holds(r) => /\ operations'[o].version = run.version
                  /\ operations'[o].state \in InProgressOperationStates
  BY DEF RunFacts, Undisturbed
<1>4. run.pc \in WorkingSteps => Holds(r)
  BY DEF RunFacts, Holds, WorkingSteps
<1>5. run.pc \in {"build", "built", "deploying", "revalidate", "apply"} => applies'[o] = 0
  BY <1>4 DEF RunFacts, Undisturbed, WorkingSteps, RunSteps
<1>6. run.pc = "revalidate" => /\ tasks'[o].material.version <= deployingAt'[o]
                               /\ deployingAt'[o] <= workload'.version
  <2> SUFFICES ASSUME run.pc = "revalidate"
               PROVE  /\ tasks'[o].material.version <= deployingAt'[o]
                      /\ deployingAt'[o] <= workload'.version
    OBVIOUS
  <2>1. Holds(r)
    BY <1>4 DEF WorkingSteps, RunSteps
  <2>2. /\ deployingAt'[o] = deployingAt[o]
        /\ tasks'[o] = tasks[o]
        /\ tasks[o].material.version <= deployingAt[o]
        /\ deployingAt[o] <= workload.version
        /\ workload.version <= workload'.version
    BY <1>1, <2>1 DEF RunFacts, Undisturbed, RecordsGrow
  <2>3. deployingAt[o] \in Nat /\ workload.version \in Nat /\ workload'.version \in Nat
    BY <1>1 DEF TypeOK, RunsTypeOK, RecordsTypeOK, WorkloadRecord
  <2> QED BY <2>2, <2>3
<1>7. run.pc = "apply" => deployingAt'[o] = tasks'[o].material.version
  BY <1>1, <1>4 DEF RunFacts, Undisturbed, WorkingSteps, RunSteps
<1>8. run.pc \in {"verifying", "health", "bind", "rebind"} => applies'[o] > 0
  BY <1>1 DEF RunFacts, Undisturbed
<1>9. run.pc = "finish" => /\ run.target \in TerminalOperationStates
                           /\ run.target = "succeeded" => applies'[o] > 0
  BY <1>1 DEF RunFacts, Undisturbed
<1>10. /\ run.pc # "idle" => run.version >= 1
       /\ run.pc \in {"preflight", "fetch"} => run.version = 1
       /\ run.pc \in WorkingSteps => run.version >= 2
  BY DEF RunFacts
<1> QED
  BY <1>1, <1>2, <1>3, <1>5, <1>6, <1>7, <1>8, <1>9, <1>10 DEF RunFacts

(* A step that leaves the plans, the operations and the tasks alone.        *)
LEMMA LocalStep ==
  ASSUME PipelineInvariant, TypeOK', QueuedIsAudited',
         UNCHANGED << plans, operations, claims, deliveryClaims, tasks, taskKey,
                      spent, deployingAt, applies >>,
         audited \subseteq audited',
         workload'.admission = workload.admission,
         workload.version <= workload'.version,
         \A k \in KeyIds : queue[k] # None => queue'[k] # None,
         \A c \in Calls : calls'[c] = calls[c] \/ CallFacts(c)',
         \A r \in Runs : \/ runs'[r] = runs[r]
                         \/ /\ RunFacts(r)'
                            /\ Holds(r)' => Holds(r) /\ runs'[r].op = runs[r].op
  PROVE  PipelineInvariant'
<1>1. RecordsGrow
  BY DEF RecordsGrow, Exists
<1>2. \A r \in Runs : Undisturbed(r)
  BY DEF Undisturbed
<1>3. \A c \in Calls : CallFacts(c)'
  BY <1>1, CallKept DEF PipelineInvariant
<1>4. \A r \in Runs : RunFacts(r)'
  BY <1>1, <1>2, RunKept DEF PipelineInvariant
<1>5. OneHolder'
  <2>1. \A r \in Runs : Holds(r)' => Holds(r) /\ runs'[r].op = runs[r].op
    BY DEF Holds
  <2> QED BY <2>1 DEF PipelineInvariant, OneHolder
<1>6. PlanSpentOnce' /\ TaskMatchesReview' /\ AppliedOnceAndFenced'
  BY DEF PipelineInvariant, PlanSpentOnce, TaskMatchesReview, AppliedOnceAndFenced, Exists
<1>7. OperationFacts'
  <2>1. ASSUME NEW o \in OpIds, Exists(o)
        PROVE  operations[o].material.version <= workload'.version
    <3>1. operations[o].material.version \in Nat
      BY <2>1 DEF Exists, PipelineInvariant, TypeOK, RecordsTypeOK, OperationRecord, Material
    <3>2. workload.version \in Nat /\ workload'.version \in Nat
      BY DEF PipelineInvariant, TypeOK, RecordsTypeOK, WorkloadRecord
    <3> QED BY <2>1, <3>1, <3>2 DEF PipelineInvariant, OperationFacts
  <2> QED BY <2>1 DEF PipelineInvariant, OperationFacts, Exists
<1>8. LedgerFacts'
  <2>1. ASSUME NEW p \in PlanIds, plans[p] # None
        PROVE  plans[p].material.version <= workload'.version
    <3>1. plans[p].material.version \in Nat
      BY <2>1 DEF PipelineInvariant, TypeOK, RecordsTypeOK, PlanRecord, Material
    <3>2. workload.version \in Nat /\ workload'.version \in Nat
      BY DEF PipelineInvariant, TypeOK, RecordsTypeOK, WorkloadRecord
    <3> QED BY <2>1, <3>1, <3>2 DEF PipelineInvariant, LedgerFacts
  <2> QED BY <2>1 DEF PipelineInvariant, LedgerFacts, Exists
<1>9. DeliveryFacts'
  BY DEF PipelineInvariant, DeliveryFacts, Exists
<1> QED
  BY <1>3, <1>4, <1>5, <1>6, <1>7, <1>8, <1>9 DEF PipelineInvariant

----------------------------------------------------------------------------
(* A request that only remembers what it read.                              *)
LEMMA ReadingRequest ==
  ASSUME PipelineInvariant, NEW c \in Calls,
         \/ \E p \in Plans, k \in Keys : DeployFromPlan(c, p, k)
         \/ \E d \in Deliveries : ReceivePush(c, d)
         \/ CallStep(c)
         \/ CrashCall(c),
         UNCHANGED << recordVars, queue, runVars, stop, clock >>,
         \A d \in Calls \ {c} : calls'[d] = calls[d],
         CallFacts(c)'
  PROVE  PipelineInvariant'
<1>1. calls' \in [Calls -> CallRecord]
  BY CallsTyped
<1>2. TypeOK'
  BY <1>1 DEF PipelineInvariant, TypeOK, RecordsTypeOK, CallsTypeOK, RunsTypeOK,
              recordVars, runVars
<1>3. QueuedIsAudited'
  BY DEF PipelineInvariant, QueuedIsAudited, recordVars
<1>4. workload.version <= workload'.version
  BY DEF PipelineInvariant, TypeOK, RecordsTypeOK, WorkloadRecord, recordVars
<1> QED BY <1>2, <1>3, <1>4, LocalStep DEF recordVars, runVars

(* An idle request has established nothing.                                 *)
LEMMA EndedCall ==
  ASSUME PipelineInvariant, NEW c \in Calls, EndCall(c)
  PROVE  CallFacts(c)' /\ \A d \in Calls \ {c} : calls'[d] = calls[d]
<1>1. calls \in [Calls -> CallRecord]
  BY DEF PipelineInvariant, TypeOK, CallsTypeOK
<1>2. calls'[c] = IdleCall
  BY <1>1 DEF EndCall
<1> QED BY <1>1, <1>2 DEF EndCall, CallFacts, IdleCall

(* The operation a claim answers with carries the key of the claim.         *)
LEMMA ClaimAnswers ==
  ASSUME PipelineInvariant, NEW c \in Calls,
         calls[c].pc \in {"replay", "commit"},
         ClaimReplays(calls[c].plan, CallActor(c), calls[c].key)
  PROVE  LET o == claims[CallActor(c)][calls[c].key]
         IN /\ o \in OpIds
            /\ Exists(o)
            /\ operations[o].key = calls[c].key
            /\ operations[o].material = plans[calls[c].plan].material
<1>1. CallActor(c) \in ActorIds /\ calls[c].key \in KeyIds
  BY CallActorTyped
<1>2. claims[CallActor(c)][calls[c].key] \in OpIds
  BY <1>1 DEF ClaimReplays, PipelineInvariant, TypeOK, RecordsTypeOK
<1> QED BY <1>1, <1>2 DEF ClaimReplays, PipelineInvariant, LedgerFacts

LEMMA PlanRequestReads ==
  ASSUME PipelineInvariant, UNCHANGED << runVars, stop, clock >>, NEW c \in Calls,
         \/ \E p \in Plans, k \in Keys : DeployFromPlan(c, p, k)
         \/ ReplayPlan(c) \/ LookupTask(c) \/ Review(c) \/ DenyReview(c)
         \/ CommitReplay(c) \/ DenyTask(c) \/ DenyAdvance(c) \/ CrashCall(c)
  PROVE  PipelineInvariant'
<1>0. calls \in [Calls -> CallRecord] /\ calls[c] \in CallRecord /\ CallFacts(c)
  BY DEF PipelineInvariant, TypeOK, CallsTypeOK
<1>1. UNCHANGED << recordVars, queue >>
  BY DEF DeployFromPlan, ReplayPlan, LookupTask, Review, DenyReview, CommitReplay,
         DenyTask, DenyAdvance, CrashCall
<1>2. ASSUME CallFacts(c)', \A d \in Calls \ {c} : calls'[d] = calls[d]
      PROVE  PipelineInvariant'
  BY <1>1, <1>2, ReadingRequest DEF CallStep
<1>3. ASSUME NEW p \in Plans, NEW k \in Keys, DeployFromPlan(c, p, k)
      PROVE  PipelineInvariant'
  <2>1. /\ calls'[c].pc \in {"replay", "review"}
        /\ calls'[c].plan = p /\ calls'[c].key = k
        /\ \A d \in Calls \ {c} : calls'[d] = calls[d]
        /\ plans'[p] # None
    BY <1>0, <1>3 DEF DeployFromPlan, IdleCall, recordVars
  <2>2. CallFacts(c)'
    BY <2>1 DEF CallFacts, PlanIds, KeyIds
  <2> QED BY <1>2, <2>1, <2>2
<1>4. CASE EndCall(c)
  BY <1>2, <1>4, EndedCall
<1>5. CASE ReplayPlan(c) /\ ~EndCall(c)
  <2> DEFINE o == claims[CallActor(c)][calls[c].key]
  <2>1. /\ calls[c].pc = "replay"
        /\ ClaimReplays(calls[c].plan, CallActor(c), calls[c].key)
        /\ calls' = [calls EXCEPT ![c].op = o, ![c].pc = "lookup",
                                  ![c].send = operations[o].state = "queued"]
    BY <1>5 DEF ReplayPlan
  <2>2. /\ calls'[c].pc = "lookup" /\ calls'[c].op = o
        /\ calls'[c].plan = calls[c].plan /\ calls'[c].key = calls[c].key
        /\ \A d \in Calls \ {c} : calls'[d] = calls[d]
    BY <1>0, <2>1 DEF CallRecord
  <2>3. o \in OpIds /\ Exists(o) /\ operations[o].key = calls[c].key
    BY <2>1, ClaimAnswers
  <2>4. /\ calls[c].plan \in Plans /\ plans[calls[c].plan] # None
        /\ calls[c].plan \in PlanIds /\ calls[c].key \in KeyIds
    BY <1>0, <2>1 DEF CallFacts
  <2>5. CallFacts(c)'
    BY <1>1, <2>2, <2>3, <2>4 DEF CallFacts, Exists, recordVars
  <2> QED BY <1>2, <2>2, <2>5
<1>6. CASE LookupTask(c) /\ tasks[calls[c].op] # None
  <2>1. calls[c].pc = "lookup" /\ calls' = [calls EXCEPT ![c].pc = "audit"]
    BY <1>6 DEF LookupTask, Goto
  <2>2. /\ calls'[c].pc = "audit" /\ calls'[c].op = calls[c].op
        /\ calls'[c].plan = calls[c].plan /\ calls'[c].key = calls[c].key
        /\ \A d \in Calls \ {c} : calls'[d] = calls[d]
    BY <1>0, <2>1 DEF CallRecord
  <2>3. /\ calls[c].op \in OpIds /\ tasks[calls[c].op].key = calls[c].key
        /\ calls[c].plan \in PlanIds /\ calls[c].key \in KeyIds
    BY <1>0, <1>6, <2>1 DEF CallFacts, PipelineInvariant, TaskMatchesReview
  <2>4. CallFacts(c)'
    BY <1>1, <1>6, <2>2, <2>3 DEF CallFacts, recordVars
  <2> QED BY <1>2, <2>2, <2>4
<1>7. CASE LookupTask(c) /\ tasks[calls[c].op] = None
  <2>1. /\ calls[c].pc = "lookup"
        /\ calls' = [calls EXCEPT ![c].repair = TRUE, ![c].pc = "review"]
    BY <1>7 DEF LookupTask
  <2>2. /\ calls'[c].pc = "review"
        /\ calls'[c].plan = calls[c].plan /\ calls'[c].key = calls[c].key
        /\ \A d \in Calls \ {c} : calls'[d] = calls[d]
    BY <1>0, <2>1 DEF CallRecord
  <2>3. CallFacts(c)'
    BY <1>0, <1>1, <2>1, <2>2 DEF CallFacts, recordVars
  <2> QED BY <1>2, <2>2, <2>3
<1>8. CASE Review(c)
  <2>1. /\ calls[c].pc = "review"
        /\ plans[calls[c].plan].material = CurrentMaterial
        /\ calls' = [calls EXCEPT ![c].material = CurrentMaterial, ![c].pc = "commit"]
    BY <1>8 DEF Review
  <2>2. /\ calls'[c].pc = "commit" /\ calls'[c].material = CurrentMaterial
        /\ calls'[c].plan = calls[c].plan /\ calls'[c].key = calls[c].key
        /\ \A d \in Calls \ {c} : calls'[d] = calls[d]
    BY <1>0, <2>1 DEF CallRecord
  <2>3. CurrentMaterial \in Material
    BY DEF CurrentMaterial, Material, PipelineInvariant, TypeOK, RecordsTypeOK,
           WorkloadRecord
  <2>4. CallFacts(c)'
    BY <1>0, <1>1, <2>1, <2>2, <2>3 DEF CallFacts, recordVars
  <2> QED BY <1>2, <2>2, <2>4
<1>9. CASE CommitReplay(c) /\ ~EndCall(c)
  <2> DEFINE o == claims[CallActor(c)][calls[c].key]
  <2>1. /\ calls[c].pc = "commit"
        /\ ClaimReplays(calls[c].plan, CallActor(c), calls[c].key)
        /\ calls' = [calls EXCEPT ![c].op = o, ![c].pc = "create"]
    BY <1>9 DEF CommitReplay
  <2>2. /\ calls'[c].pc = "create" /\ calls'[c].op = o
        /\ calls'[c].plan = calls[c].plan /\ calls'[c].key = calls[c].key
        /\ calls'[c].material = calls[c].material
        /\ \A d \in Calls \ {c} : calls'[d] = calls[d]
    BY <1>0, <2>1 DEF CallRecord
  <2>3. /\ o \in OpIds /\ Exists(o) /\ operations[o].key = calls[c].key
        /\ operations[o].material = plans[calls[c].plan].material
    BY <2>1, ClaimAnswers
  <2>4. CallFacts(c)'
    <3>1. /\ calls[c].plan \in Plans /\ calls[c].plan \in PlanIds
          /\ calls[c].key \in KeyIds /\ plans[calls[c].plan] # None
          /\ calls[c].material \in Material
          /\ calls[c].material = plans[calls[c].plan].material
      BY <1>0, <2>1 DEF CallFacts
    <3>2. plans' = plans /\ operations' = operations
      BY <1>1 DEF recordVars
    <3>3. operations'[o] # None
      BY <2>3, <3>2 DEF Exists
    <3> HIDE DEF o
    <3> QED BY <2>2, <2>3, <3>1, <3>2, <3>3 DEF CallFacts, Exists
  <2> QED BY <1>2, <2>2, <2>4
<1>10. CASE DenyReview(c) \/ DenyTask(c) \/ DenyAdvance(c) \/ CrashCall(c)
  BY <1>4, <1>10 DEF DenyReview, DenyTask, DenyAdvance, CrashCall
<1> QED
  BY <1>3, <1>4, <1>5, <1>6, <1>7, <1>8, <1>9, <1>10

(* The outcome of a delivery that was committed before.                     *)
LEMMA PushReads ==
  ASSUME PipelineInvariant, UNCHANGED << runVars, stop, clock >>, NEW c \in Calls,
         (\E d \in Deliveries : ReceivePush(c, d)) \/ ReplayAdvance(c)
  PROVE  PipelineInvariant'
<1>0. calls \in [Calls -> CallRecord] /\ calls[c] \in CallRecord /\ CallFacts(c)
  BY DEF PipelineInvariant, TypeOK, CallsTypeOK
<1>1. UNCHANGED << recordVars, queue >>
  BY DEF ReceivePush, ReplayAdvance
<1>2. ASSUME CallFacts(c)', \A d \in Calls \ {c} : calls'[d] = calls[d]
      PROVE  PipelineInvariant'
  BY <1>1, <1>2, ReadingRequest DEF CallStep
<1>3. ASSUME NEW d \in deliveryClaims,
             calls'[c].pc = "audit", calls'[c].op = d,
             calls'[c].plan = d, calls'[c].key = d
      PROVE  CallFacts(c)'
  <2>1. d \in Deliveries /\ d \in OpIds /\ d \in PlanIds /\ d \in KeyIds
    BY DEF PipelineInvariant, TypeOK, RecordsTypeOK, OpIds, PlanIds, KeyIds
  <2>2. tasks[d] # None /\ tasks[d].key = d
    BY DEF PipelineInvariant, DeliveryFacts
  <2> QED BY <1>1, <1>3, <2>1, <2>2 DEF CallFacts, recordVars
<1>4. ASSUME NEW d \in Deliveries, ReceivePush(c, d), RecoversDelivery(d),
             calls' = [calls EXCEPT ![c] =
               [IdleCall EXCEPT !.plan = d, !.key = d, !.op = d, !.pc = "audit",
                  !.send = operations[d].state = "queued"]]
      PROVE  PipelineInvariant'
  <2>1. d \in deliveryClaims
    BY <1>4, IdsAreDistinct DEF RecoversDelivery, PipelineInvariant, DeliveryFacts
  <2>2. /\ calls'[c].pc = "audit" /\ calls'[c].op = d
        /\ calls'[c].plan = d /\ calls'[c].key = d
        /\ \A e \in Calls \ {c} : calls'[e] = calls[e]
    BY <1>0, <1>4 DEF IdleCall
  <2> QED BY <1>2, <1>3, <2>1, <2>2
<1>5. ASSUME NEW d \in Deliveries,
             calls' = [calls EXCEPT ![c] =
               [IdleCall EXCEPT !.plan = d, !.key = d, !.pc = "advance",
                  !.material = AutoDeployMaterial(d, workload.version)]]
      PROVE  PipelineInvariant'
  <2>1. /\ calls'[c].pc = "advance" /\ calls'[c].plan = d /\ calls'[c].key = d
        /\ calls'[c].material = AutoDeployMaterial(d, workload.version)
        /\ \A e \in Calls \ {c} : calls'[e] = calls[e]
    BY <1>0, <1>5 DEF IdleCall
  <2>2. AutoDeployMaterial(d, workload.version) \in Material
    BY DEF AutoDeployMaterial, Material, Admissions, PipelineInvariant, TypeOK,
           RecordsTypeOK, WorkloadRecord
  <2>3. CallFacts(c)'
    BY <2>1, <2>2 DEF CallFacts, PlanIds, KeyIds
  <2> QED BY <1>2, <2>1, <2>3
<1>6. CASE ReplayAdvance(c)
  <2> DEFINE d == calls[c].plan
  <2>1. /\ calls[c].pc = "advance" /\ d \in deliveryClaims
        /\ calls' = [calls EXCEPT ![c].op = d, ![c].pc = "audit",
                                  ![c].send = operations[d].state = "queued"]
    BY <1>6 DEF ReplayAdvance, DeliveryReplays
  <2>2. /\ calls'[c].pc = "audit" /\ calls'[c].op = d
        /\ calls'[c].plan = d /\ calls'[c].key = calls[c].key
        /\ \A e \in Calls \ {c} : calls'[e] = calls[e]
    BY <1>0, <2>1 DEF CallRecord
  <2>3. calls[c].key = d
    BY <1>0, <2>1 DEF CallFacts
  <2> QED BY <1>2, <1>3, <2>1, <2>2, <2>3
<1> QED BY <1>4, <1>5, <1>6 DEF ReceivePush

(* Audit and enqueue: the two writes of a request outside the plans, the    *)
(* operations and the tasks.                                                *)
LEMMA AuditStep ==
  ASSUME PipelineInvariant, UNCHANGED << runVars, stop, clock >>, NEW c \in Calls, Audit(c)
  PROVE  PipelineInvariant'
<1>0. /\ calls \in [Calls -> CallRecord] /\ calls[c] \in CallRecord /\ CallFacts(c)
      /\ calls[c].pc = "audit" /\ calls[c].op \in OpIds
  BY DEF PipelineInvariant, TypeOK, CallsTypeOK, Audit, CallFacts
<1>1. audited' = audited \cup {calls[c].op}
  BY DEF Audit
<1>2. calls' \in [Calls -> CallRecord]
  BY CallsTyped DEF CallStep
<1>3. TypeOK'
  BY <1>0, <1>1, <1>2 DEF Audit, PipelineInvariant, TypeOK, RecordsTypeOK, CallsTypeOK,
                          RunsTypeOK, runVars
<1>4. QueuedIsAudited'
  BY <1>1 DEF Audit, PipelineInvariant, QueuedIsAudited
<1>5. CallFacts(c)' /\ \A d \in Calls \ {c} : calls'[d] = calls[d]
  <2>1. CASE EndCall(c)
    BY <2>1, EndedCall
  <2>2. CASE calls' = [calls EXCEPT ![c].pc = "enqueue"]
    <3>1. /\ calls'[c].pc = "enqueue" /\ calls'[c].op = calls[c].op
          /\ calls'[c].plan = calls[c].plan /\ calls'[c].key = calls[c].key
          /\ \A d \in Calls \ {c} : calls'[d] = calls[d]
      BY <1>0, <2>2 DEF CallRecord
    <3> QED BY <1>0, <1>1, <3>1 DEF CallFacts, Audit
  <2> QED BY <2>1, <2>2 DEF Audit, Goto
<1>6. workload.version <= workload'.version
  BY DEF Audit, PipelineInvariant, TypeOK, RecordsTypeOK, WorkloadRecord
<1> QED BY <1>1, <1>3, <1>4, <1>5, <1>6, LocalStep DEF Audit, runVars

LEMMA EnqueueStep ==
  ASSUME PipelineInvariant, UNCHANGED << runVars, stop, clock >>, NEW c \in Calls, Enqueue(c)
  PROVE  PipelineInvariant'
<1> DEFINE k == calls[c].key
           o == calls[c].op
<1>0. /\ calls[c].pc = "enqueue" /\ CallFacts(c)
      /\ EndCall(c) /\ UNCHANGED recordVars
      /\ queue \in [KeyIds -> QueueRecord \cup {None}]
      /\ queue' = [queue EXCEPT ![k] =
                     IF queue[k] = None THEN [op |-> o, pending |-> TRUE] ELSE queue[k]]
  BY DEF PipelineInvariant, TypeOK, CallsTypeOK, Enqueue
<1>1. /\ k \in KeyIds /\ o \in OpIds /\ o \in audited
      /\ tasks[o] # None /\ tasks[o].key = k
  BY <1>0 DEF CallFacts
<1>2. taskKey[k] = o
  BY <1>1 DEF PipelineInvariant, TaskMatchesReview
<1>3. [op |-> o, pending |-> TRUE] \in QueueRecord
  BY <1>1 DEF QueueRecord
<1>4. queue' \in [KeyIds -> QueueRecord \cup {None}]
  BY <1>0, <1>1, <1>3
<1>5. calls' \in [Calls -> CallRecord]
  BY CallsTyped DEF CallStep
<1>6. TypeOK'
  BY <1>0, <1>4, <1>5 DEF PipelineInvariant, TypeOK, RecordsTypeOK, CallsTypeOK,
                          RunsTypeOK, runVars, recordVars
<1>7. ASSUME NEW j \in KeyIds, queue'[j] # None
      PROVE  taskKey'[j] = queue'[j].op /\ queue'[j].op \in audited'
  <2>1. CASE j = k /\ queue[k] = None
    <3>1. queue'[j] = [op |-> o, pending |-> TRUE]
      BY <1>0, <1>1, <2>1
    <3> QED BY <1>0, <1>1, <1>2, <2>1, <3>1 DEF recordVars
  <2>2. CASE ~(j = k /\ queue[k] = None)
    <3>1. queue'[j] = queue[j]
      BY <1>0, <1>1, <2>2
    <3> QED BY <1>0, <1>7, <3>1 DEF PipelineInvariant, QueuedIsAudited, recordVars
  <2> QED BY <2>1, <2>2
<1>8. QueuedIsAudited'
  BY <1>7 DEF QueuedIsAudited
<1>9. \A j \in KeyIds : queue[j] # None => queue'[j] # None
  BY <1>0, <1>1
<1>10. CallFacts(c)' /\ \A d \in Calls \ {c} : calls'[d] = calls[d]
  BY <1>0, EndedCall
<1>11. workload.version <= workload'.version
  BY <1>0 DEF PipelineInvariant, TypeOK, RecordsTypeOK, WorkloadRecord, recordVars
<1> QED
  BY <1>0, <1>6, <1>8, <1>9, <1>10, <1>11, LocalStep DEF runVars, recordVars

----------------------------------------------------------------------------
(* The requests that write plans, operations or tasks leave the runs alone. *)
LEMMA RunsUndisturbed ==
  ASSUME PipelineInvariant, TypeOK', RecordsGrow, UNCHANGED runVars,
         \A o \in OpIds : Exists(o) => operations'[o] = operations[o]
  PROVE  (\A r \in Runs : RunFacts(r)') /\ OneHolder'
<1>1. \A r \in Runs : runs[r].pc # "idle" => Exists(runs[r].op)
  BY DEF PipelineInvariant, RunFacts, TaskMatchesReview
<1>2. \A r \in Runs : runs[r].pc # "idle" => runs[r].op \in OpIds
  BY DEF PipelineInvariant, RunFacts
<1>3. \A r \in Runs : Undisturbed(r)
  BY <1>1, <1>2 DEF Undisturbed, Holds, runVars
<1>4. \A r \in Runs : RunFacts(r)'
  BY <1>3, RunKept DEF PipelineInvariant, runVars
<1>5. OneHolder'
  BY DEF PipelineInvariant, OneHolder, Holds, runVars
<1> QED BY <1>4, <1>5

LEMMA PlanDeployStep ==
  ASSUME PipelineInvariant, UNCHANGED << runVars, stop, clock >>,
         NEW a \in Actors, NEW p \in Plans, PlanDeploy(a, p)
  PROVE  PipelineInvariant'
<1> DEFINE plan == [state |-> "issued", actor |-> a, material |-> CurrentMaterial]
<1>0. /\ plans[p] = None /\ p \in PlanIds /\ p \notin Deliveries
      /\ plans \in [PlanIds -> PlanRecord \cup {None}]
      /\ plans' = [plans EXCEPT ![p] = plan]
      /\ UNCHANGED << workload, operations, claims, deliveryClaims, tasks, taskKey,
                      audited, spent, calls, queue, runVars >>
      /\ workload.version \in Nat
  BY IdsAreDistinct DEF PlanDeploy, PipelineInvariant, TypeOK, RecordsTypeOK, PlanIds,
                        callVars, WorkloadRecord
<1>1. plan \in PlanRecord /\ plan # None
  <2>1. CurrentMaterial \in Material
    BY DEF CurrentMaterial, Material, PipelineInvariant, TypeOK, RecordsTypeOK,
           WorkloadRecord
  <2>2. plan \in PlanRecord
    BY <2>1 DEF PlanRecord, ActorIds
  <2> QED BY <2>2, NoneIsNoRecord
<1>2. /\ plans' \in [PlanIds -> PlanRecord \cup {None}]
      /\ plans'[p] = plan
      /\ \A q \in PlanIds \ {p} : plans'[q] = plans[q]
  BY <1>0, <1>1
<1>3. TypeOK'
  BY <1>0, <1>2 DEF PlanDeploy, PipelineInvariant, TypeOK, RecordsTypeOK, CallsTypeOK,
                    RunsTypeOK, runVars, callVars
<1>4. RecordsGrow
  BY <1>0, <1>2 DEF RecordsGrow, Exists
<1>5. (\A r \in Runs : RunFacts(r)') /\ OneHolder'
  BY <1>0, <1>3, <1>4, RunsUndisturbed
<1>6. \A c \in Calls : CallFacts(c)'
  BY <1>0, <1>4, CallKept DEF PipelineInvariant
<1>7. PlanSpentOnce'
  <2>1. spent[p] = None
    BY <1>0 DEF PipelineInvariant, PlanSpentOnce
  <2>2. ASSUME NEW o \in OpIds, Exists(o)'
        PROVE  \E q \in PlanIds : /\ spent'[q] = o
                                  /\ plans'[q].actor = operations'[o].actor
                                  /\ plans'[q].material = operations'[o].material
    <3>1. PICK q \in PlanIds : /\ spent[q] = o
                               /\ plans[q].actor = operations[o].actor
                               /\ plans[q].material = operations[o].material
      BY <1>0, <2>2 DEF PipelineInvariant, PlanSpentOnce, Exists
    <3>2. q # p
      BY <2>1, <3>1, IdsAreDistinct DEF OpIds
    <3> QED BY <1>0, <1>2, <3>1, <3>2
  <2>3. \A q \in PlanIds : (spent'[q] # None) <=> (plans'[q] # None /\ plans'[q].state = "consumed")
    BY <1>0, <1>1, <1>2, <2>1 DEF PipelineInvariant, PlanSpentOnce
  <2> QED BY <1>0, <2>2, <2>3 DEF PipelineInvariant, PlanSpentOnce
<1>8. TaskMatchesReview' /\ QueuedIsAudited' /\ AppliedOnceAndFenced' /\ OperationFacts'
  BY <1>0 DEF PipelineInvariant, TaskMatchesReview, QueuedIsAudited, AppliedOnceAndFenced,
              OperationFacts, Exists, runVars
<1>9. LedgerFacts'
  <2>1. plan.material.version <= workload.version
    BY <1>0 DEF CurrentMaterial
  <2> QED BY <1>0, <1>2, <2>1 DEF PipelineInvariant, LedgerFacts, Exists, runVars
<1>10. DeliveryFacts'
  BY <1>0, <1>2 DEF PipelineInvariant, DeliveryFacts, Exists, PlanIds
<1> QED
  BY <1>3, <1>5, <1>6, <1>7, <1>8, <1>9, <1>10 DEF PipelineInvariant

LEMMA CreateTaskStep ==
  ASSUME PipelineInvariant, UNCHANGED << runVars, stop, clock >>, NEW c \in Calls, CreateTask(c)
  PROVE  PipelineInvariant'
<1> DEFINE o == calls[c].op
           k == calls[c].key
           t == NewTask(o, k, calls[c].material)
<1>0. /\ calls \in [Calls -> CallRecord] /\ calls[c] \in CallRecord
      /\ CallFacts(c) /\ calls[c].pc = "create"
      /\ ~TaskConflicts(o, k, calls[c].material)
      /\ tasks \in [OpIds -> TaskRecord \cup {None}]
      /\ taskKey \in [KeyIds -> OpIds \cup {None}]
      /\ tasks' = [tasks EXCEPT ![o] = t]
      /\ taskKey' = [taskKey EXCEPT ![k] = o]
      /\ calls' = [calls EXCEPT ![c].send = TRUE, ![c].pc = "audit"]
      /\ UNCHANGED << workload, plans, operations, claims, deliveryClaims, audited,
                      spent, queue, runVars >>
      /\ workload.version \in Nat
  BY DEF CreateTask, CreateTaskOnce, PipelineInvariant, TypeOK, RecordsTypeOK,
         CallsTypeOK, WorkloadRecord
<1>1. /\ o \in OpIds /\ k \in KeyIds /\ Exists(o)
      /\ operations[o].key = k /\ operations[o].material = calls[c].material
      /\ calls[c].material \in Material /\ calls[c].plan \in PlanIds
  BY <1>0 DEF CallFacts
<1>2. /\ t \in TaskRecord /\ t # None
      /\ t.key = k /\ t.material = operations[o].material
  <2>1. t \in TaskRecord
    BY <1>1 DEF NewTask, TaskRecord
  <2> QED BY <1>1, <2>1, NoneIsNoRecord DEF NewTask
<1>3. /\ tasks[o] \in {None, t} /\ taskKey[k] \in {None, o}
  BY <1>0 DEF TaskConflicts
<1>4. /\ tasks' \in [OpIds -> TaskRecord \cup {None}]
      /\ taskKey' \in [KeyIds -> OpIds \cup {None}]
      /\ tasks'[o] = t /\ \A x \in OpIds \ {o} : tasks'[x] = tasks[x]
      /\ taskKey'[k] = o /\ \A j \in KeyIds \ {k} : taskKey'[j] = taskKey[j]
  BY <1>0, <1>1, <1>2
<1>5. calls' \in [Calls -> CallRecord]
  BY CallsTyped DEF CallStep
<1>6. TypeOK'
  BY <1>0, <1>4, <1>5 DEF CreateTask, PipelineInvariant, TypeOK, RecordsTypeOK,
                          CallsTypeOK, RunsTypeOK, runVars
<1>7. RecordsGrow
  BY <1>0, <1>3, <1>4 DEF RecordsGrow, Exists
<1>8. (\A r \in Runs : RunFacts(r)') /\ OneHolder'
  BY <1>0, <1>6, <1>7, RunsUndisturbed
<1>9. \A d \in Calls : CallFacts(d)'
  <2>1. /\ calls'[c].pc = "audit" /\ calls'[c].op = o
        /\ calls'[c].plan = calls[c].plan /\ calls'[c].key = k
        /\ \A d \in Calls \ {c} : calls'[d] = calls[d]
    BY <1>0 DEF CallRecord
  <2>2. CallFacts(c)'
    BY <1>1, <1>2, <1>4, <2>1 DEF CallFacts
  <2> QED BY <1>7, <2>1, <2>2, CallKept DEF PipelineInvariant
<1>10. TaskMatchesReview'
  <2>1. ASSUME NEW x \in OpIds, tasks'[x] # None
        PROVE  /\ Exists(x)' /\ tasks'[x].material = operations'[x].material
               /\ tasks'[x].key = operations'[x].key /\ taskKey'[tasks'[x].key] = x
    <3>1. CASE x = o
      BY <1>0, <1>1, <1>2, <1>4, <3>1 DEF Exists
    <3>2. CASE x # o
      <4>1. /\ tasks'[x] = tasks[x]
            /\ Exists(x) /\ tasks[x].material = operations[x].material
            /\ tasks[x].key = operations[x].key /\ taskKey[tasks[x].key] = x
        BY <1>4, <2>1, <3>2 DEF PipelineInvariant, TaskMatchesReview
      <4>2. tasks[x].key \in KeyIds
        BY <2>1, <4>1 DEF PipelineInvariant, TypeOK, RecordsTypeOK, TaskRecord
      <4>3. tasks[x].key # k
        BY <1>3, <3>2, <4>1, IdsAreDistinct DEF OpIds
      <4> QED BY <1>0, <1>4, <4>1, <4>2, <4>3 DEF Exists
    <3> QED BY <3>1, <3>2
  <2>2. ASSUME NEW j \in KeyIds, taskKey'[j] # None
        PROVE  tasks'[taskKey'[j]] # None /\ tasks'[taskKey'[j]].key = j
    <3>1. CASE j = k
      BY <1>2, <1>4, <3>1
    <3>2. CASE j # k
      <4>1. /\ taskKey'[j] = taskKey[j] /\ taskKey[j] \in OpIds
            /\ tasks[taskKey[j]] # None /\ tasks[taskKey[j]].key = j
        BY <1>0, <1>4, <2>2, <3>2 DEF PipelineInvariant, TaskMatchesReview
      <4>2. taskKey[j] # o
        BY <1>2, <1>3, <3>2, <4>1
      <4> QED BY <1>4, <4>1, <4>2
    <3> QED BY <3>1, <3>2
  <2> QED BY <2>1, <2>2 DEF TaskMatchesReview
<1>11. QueuedIsAudited'
  <2>1. ASSUME NEW j \in KeyIds, queue[j] # None
        PROVE  taskKey'[j] = taskKey[j] /\ taskKey[j] = queue[j].op /\ queue[j].op \in audited
    <3>1. taskKey[j] = queue[j].op /\ queue[j].op \in audited
      BY <2>1 DEF PipelineInvariant, QueuedIsAudited
    <3>2. taskKey[j] # None
      BY <2>1, <3>1, IdsAreDistinct DEF PipelineInvariant, TypeOK, CallsTypeOK, QueueRecord
    <3> QED BY <1>3, <1>4, <3>1, <3>2
  <2> QED BY <1>0, <2>1 DEF QueuedIsAudited
<1>12. PlanSpentOnce' /\ AppliedOnceAndFenced' /\ OperationFacts' /\ LedgerFacts'
  BY <1>0 DEF PipelineInvariant, PlanSpentOnce, AppliedOnceAndFenced, OperationFacts,
              LedgerFacts, Exists, runVars
<1>13. DeliveryFacts'
  <2>1. \A d \in deliveryClaims : d \in OpIds
    BY DEF PipelineInvariant, TypeOK, RecordsTypeOK, OpIds
  <2>2. \A d \in deliveryClaims : tasks'[d] = tasks[d]
    BY <1>3, <1>4, <2>1 DEF PipelineInvariant, DeliveryFacts
  <2> QED BY <1>0, <2>2 DEF PipelineInvariant, DeliveryFacts, Exists
<1> QED
  BY <1>6, <1>8, <1>9, <1>10, <1>11, <1>12, <1>13 DEF PipelineInvariant

(* A new operation in place of none.                                        *)
LEMMA NewOperationTyped ==
  ASSUME NEW a \in ActorIds, NEW k \in KeyIds, NEW m \in Material
  PROVE  /\ NewOperation(a, k, m) \in OperationRecord
         /\ NewOperation(a, k, m) # None
         /\ NewOperation(a, k, m).state = "queued"
         /\ NewOperation(a, k, m).version = 1
         /\ NewOperation(a, k, m).actor = a
         /\ NewOperation(a, k, m).key = k
         /\ NewOperation(a, k, m).material = m
<1>1. NewOperation(a, k, m) \in OperationRecord
  BY DEF NewOperation, OperationRecord, OperationStates, OperationMoves
<1> QED BY <1>1, NoneIsNoRecord DEF NewOperation

(* Spending plan p on a new operation o keeps the books of the plans.       *)
LEMMA SpendingKeepsBooks ==
  ASSUME PlanSpentOnce, NEW p \in PlanIds, NEW o \in OpIds,
         spent \in [PlanIds -> OpIds \cup {None}],
         \A q \in PlanIds : spent[q] # None => Exists(spent[q]),
         ~Exists(o), spent[p] = None,
         plans'[p] # None, plans'[p].state = "consumed",
         \A q \in PlanIds \ {p} : plans'[q] = plans[q],
         \A q \in PlanIds : plans[q] # None =>
           plans'[q].actor = plans[q].actor /\ plans'[q].material = plans[q].material,
         spent' = [spent EXCEPT ![p] = o],
         \A x \in OpIds \ {o} : operations'[x] = operations[x],
         operations'[o].actor = plans'[p].actor,
         operations'[o].material = plans'[p].material
  PROVE  PlanSpentOnce'
<1>0. spent'[p] = o /\ \A q \in PlanIds \ {p} : spent'[q] = spent[q]
  OBVIOUS
<1>1. o # None
  BY IdsAreDistinct
<1>2. \A q \in PlanIds : spent[q] # o
  BY <1>1
<1>3. \A q \in PlanIds : (spent'[q] # None) <=> (plans'[q] # None /\ plans'[q].state = "consumed")
  BY <1>0, <1>1 DEF PlanSpentOnce
<1>4. \A q, r \in PlanIds : spent'[q] = spent'[r] /\ spent'[q] # None => q = r
  BY <1>0, <1>2 DEF PlanSpentOnce
<1>5. ASSUME NEW x \in OpIds, Exists(x)'
      PROVE  \E q \in PlanIds : /\ spent'[q] = x
                                /\ plans'[q].actor = operations'[x].actor
                                /\ plans'[q].material = operations'[x].material
  <2>1. CASE x = o
    BY <1>0, <2>1
  <2>2. CASE x # o
    <3>1. PICK q \in PlanIds : /\ spent[q] = x
                               /\ plans[q].actor = operations[x].actor
                               /\ plans[q].material = operations[x].material
      BY <1>5, <2>2 DEF PlanSpentOnce, Exists
    <3>2. q # p /\ spent[q] # None
      BY <3>1, IdsAreDistinct
    <3>3. plans[q] # None
      BY <3>2 DEF PlanSpentOnce
    <3> QED BY <1>0, <2>2, <3>1, <3>2, <3>3
  <2> QED BY <2>1, <2>2
<1> QED BY <1>3, <1>4, <1>5 DEF PlanSpentOnce

(* A new operation is queued and nothing was applied for it.                *)
LEMMA QueuedOperationFacts ==
  ASSUME PipelineInvariant, TypeOK', NEW o \in OpIds, ~Exists(o),
         operations'[o] # None,
         operations'[o].state = "queued", operations'[o].version = 1,
         operations'[o].material.version <= workload'.version,
         \A x \in OpIds \ {o} : operations'[x] = operations[x],
         UNCHANGED << applies, deployingAt >>,
         workload.version <= workload'.version
  PROVE  /\ AppliedOnceAndFenced' /\ OperationFacts'
         /\ \A x \in OpIds : ~Exists(x)' => applies'[x] = 0
<1>1. applies[o] = 0
  BY DEF PipelineInvariant, LedgerFacts
<1>2. AppliedOnceAndFenced'
  <2>1. ASSUME NEW x \in OpIds, applies[x] > 0
        PROVE  applies[x] = 1 /\ deployingAt[x] = operations'[x].material.version
    <3>1. x # o
      BY <1>1, <2>1
    <3> QED BY <2>1, <3>1 DEF PipelineInvariant, AppliedOnceAndFenced
  <2> QED BY <2>1 DEF AppliedOnceAndFenced
<1>3. ASSUME NEW x \in OpIds, Exists(x)'
      PROVE  /\ operations'[x].state # "planned"
             /\ operations'[x].state = "queued" <=> operations'[x].version = 1
             /\ operations'[x].state = "queued" => applies'[x] = 0
             /\ operations'[x].material.version <= workload'.version
  <2>1. CASE x = o
    BY <1>1, <2>1
  <2>2. CASE x # o
    <3>1. operations'[x] = operations[x] /\ Exists(x)
      BY <1>3, <2>2 DEF Exists
    <3>2. operations[x].material.version \in Nat
      BY <3>1 DEF PipelineInvariant, TypeOK, RecordsTypeOK, Exists, OperationRecord, Material
    <3>3. workload.version \in Nat /\ workload'.version \in Nat
      BY DEF PipelineInvariant, TypeOK, RecordsTypeOK, WorkloadRecord
    <3>4. operations[x].material.version <= workload.version
      BY <3>1 DEF PipelineInvariant, OperationFacts
    <3> QED BY <3>1, <3>2, <3>3, <3>4 DEF PipelineInvariant, OperationFacts
  <2> QED BY <2>1, <2>2
<1>4. \A x \in OpIds : ~Exists(x)' => applies'[x] = 0
  BY <1>1 DEF PipelineInvariant, LedgerFacts, Exists
<1> QED BY <1>2, <1>3, <1>4 DEF OperationFacts

LEMMA CommitPlanStep ==
  ASSUME PipelineInvariant, UNCHANGED << runVars, stop, clock >>,
         NEW c \in Calls, NEW o \in Ops, CommitPlan(c, o)
  PROVE  PipelineInvariant'
<1> DEFINE p == calls[c].plan
           k == calls[c].key
           a == CallActor(c)
           op == NewOperation(a, k, plans[p].material)
<1>0. /\ calls \in [Calls -> CallRecord] /\ calls[c] \in CallRecord
      /\ CallFacts(c) /\ calls[c].pc = "commit"
      /\ operations[o] = None /\ claims[a][k] = None /\ plans[p].state = "issued"
      /\ plans' = [plans EXCEPT ![p].state = "consumed"]
      /\ operations' = [operations EXCEPT ![o] = op]
      /\ claims' = [claims EXCEPT ![a][k] = o]
      /\ spent' = [spent EXCEPT ![p] = o]
      /\ calls' = [calls EXCEPT ![c].op = o, ![c].pc = "create"]
      /\ UNCHANGED << workload, ownerActive, binding, expired, deliveryClaims, tasks,
                      taskKey, audited, queue, runVars, stop, clock >>
  BY DEF CommitPlan, ConsumePlan, FirstConsumption, PipelineInvariant, TypeOK, CallsTypeOK
<1>1. /\ p \in Plans /\ p \in PlanIds /\ p \notin Deliveries
      /\ k \in KeyIds /\ a \in ActorIds /\ a = plans[p].actor
      /\ o \in OpIds /\ o \notin Deliveries
      /\ plans[p] \in PlanRecord /\ plans[p] # None
      /\ calls[c].material = plans[p].material
  BY <1>0, CallActorTyped, IdsAreDistinct, NoneIsNoRecord DEF CallFacts, PlanIds, OpIds
<1>2. /\ plans \in [PlanIds -> PlanRecord \cup {None}]
      /\ operations \in [OpIds -> OperationRecord \cup {None}]
      /\ claims \in [ActorIds -> [KeyIds -> OpIds \cup {None}]]
      /\ spent \in [PlanIds -> OpIds \cup {None}]
      /\ workload.version \in Nat
      /\ plans[p].material \in Material
      /\ plans[p].material.version <= workload.version
  BY <1>1 DEF PipelineInvariant, TypeOK, RecordsTypeOK, WorkloadRecord, PlanRecord,
              LedgerFacts
<1>3. /\ op \in OperationRecord /\ op # None /\ op.state = "queued" /\ op.version = 1
      /\ op.actor = a /\ op.key = k /\ op.material = plans[p].material
  BY <1>1, <1>2, NewOperationTyped
<1>4. /\ operations' \in [OpIds -> OperationRecord \cup {None}]
      /\ operations'[o] = op /\ \A x \in OpIds \ {o} : operations'[x] = operations[x]
  BY <1>0, <1>1, <1>2, <1>3
<1>5. /\ plans' \in [PlanIds -> PlanRecord \cup {None}]
      /\ plans'[p] \in PlanRecord /\ plans'[p] # None /\ plans'[p].state = "consumed"
      /\ plans'[p].actor = plans[p].actor /\ plans'[p].material = plans[p].material
      /\ \A q \in PlanIds \ {p} : plans'[q] = plans[q]
  <2>1. plans' = [plans EXCEPT ![p] = [plans[p] EXCEPT !.state = "consumed"]]
    BY <1>0
  <2>2. /\ [plans[p] EXCEPT !.state = "consumed"] \in PlanRecord
        /\ [plans[p] EXCEPT !.state = "consumed"].state = "consumed"
        /\ [plans[p] EXCEPT !.state = "consumed"].actor = plans[p].actor
        /\ [plans[p] EXCEPT !.state = "consumed"].material = plans[p].material
    BY <1>1 DEF PlanRecord
  <2> QED BY <1>1, <1>2, <2>1, <2>2, NoneIsNoRecord
<1>6. /\ claims' \in [ActorIds -> [KeyIds -> OpIds \cup {None}]]
      /\ claims'[a][k] = o
      /\ \A b \in ActorIds, j \in KeyIds : b # a \/ j # k => claims'[b][j] = claims[b][j]
  BY <1>0, <1>1, <1>2
<1>7. spent' \in [PlanIds -> OpIds \cup {None}]
  BY <1>0, <1>1, <1>2
<1>8. calls' \in [Calls -> CallRecord]
  BY CallsTyped DEF CallStep
<1>9. TypeOK'
  BY <1>0, <1>4, <1>5, <1>6, <1>7, <1>8 DEF PipelineInvariant, TypeOK, RecordsTypeOK,
     CallsTypeOK, RunsTypeOK, runVars
<1>10. RecordsGrow
  <2>1. \A x \in OpIds : Exists(x) => operations'[x] = operations[x]
    BY <1>0, <1>4 DEF Exists
  <2>2. \A x \in OpIds : Exists(x) =>
           /\ operations'[x] # None
           /\ operations'[x].key = operations[x].key
           /\ operations'[x].material = operations[x].material
    BY <2>1 DEF Exists
  <2>3. \A q \in PlanIds : plans[q] # None =>
           plans'[q] # None /\ plans'[q].material = plans[q].material
    BY <1>5
  <2>4. UNCHANGED <<tasks, queue, audited, workload>>
    BY <1>0
  <2>5. workload.version <= workload'.version
    BY <1>2, <2>4
  <2> QED BY <2>2, <2>3, <2>4, <2>5 DEF RecordsGrow
<1>11. (\A r \in Runs : RunFacts(r)') /\ OneHolder'
  BY <1>0, <1>4, <1>9, <1>10, RunsUndisturbed DEF Exists
<1>12. \A d \in Calls : CallFacts(d)'
  <2>1. /\ calls'[c].pc = "create" /\ calls'[c].op = o
        /\ calls'[c].plan = p /\ calls'[c].key = k
        /\ calls'[c].material = calls[c].material
        /\ \A d \in Calls \ {c} : calls'[d] = calls[d]
    BY <1>0 DEF CallRecord
  <2>2. CallFacts(c)'
    <3>1. /\ plans'[p] # None /\ plans'[p].material = calls[c].material
          /\ calls[c].material \in Material
      BY <1>1, <1>2, <1>5
    <3>2. /\ operations'[o] # None /\ operations'[o].key = k
          /\ operations'[o].material = calls[c].material
      BY <1>1, <1>3, <1>4
    <3>3. Exists(o)'
      BY <3>2 DEF Exists
    <3> QED BY <1>1, <2>1, <3>1, <3>2, <3>3 DEF CallFacts
  <2> QED BY <1>10, <2>1, <2>2, CallKept DEF PipelineInvariant
<1>13. spent[p] = None /\ ~Exists(o)
  BY <1>0, <1>1 DEF PipelineInvariant, PlanSpentOnce, Exists
<1>14. PlanSpentOnce'
  <2>1. \A q \in PlanIds : spent[q] # None => Exists(spent[q])
    BY DEF PipelineInvariant, LedgerFacts
  <2>2. PlanSpentOnce
    BY DEF PipelineInvariant
  <2>3. \A q \in PlanIds : plans[q] # None =>
           plans'[q].actor = plans[q].actor /\ plans'[q].material = plans[q].material
    BY <1>5
  <2>4. operations'[o].actor = plans'[p].actor /\ operations'[o].material = plans'[p].material
    BY <1>1, <1>3, <1>4, <1>5
  <2>5. spent' = [spent EXCEPT ![p] = o] /\ spent \in [PlanIds -> OpIds \cup {None}]
        /\ p \in PlanIds /\ o \in OpIds
    BY <1>0, <1>1, <1>2
  <2>6. /\ plans'[p] # None /\ plans'[p].state = "consumed"
        /\ \A q \in PlanIds \ {p} : plans'[q] = plans[q]
        /\ \A x \in OpIds \ {o} : operations'[x] = operations[x]
    BY <1>4, <1>5
  <2> HIDE DEF p
  <2> QED BY <1>13, <2>1, <2>2, <2>3, <2>4, <2>5, <2>6, SpendingKeepsBooks
<1>15. tasks[o] = None
  BY <1>1, <1>13 DEF PipelineInvariant, TaskMatchesReview
<1>16. TaskMatchesReview' /\ QueuedIsAudited'
  BY <1>0, <1>4, <1>15 DEF PipelineInvariant, TaskMatchesReview, QueuedIsAudited, Exists
<1>17. /\ workload.version <= workload'.version
       /\ operations'[o].material.version <= workload'.version
       /\ UNCHANGED << applies, deployingAt >>
  BY <1>0, <1>2, <1>3, <1>4 DEF runVars
<1>18. /\ AppliedOnceAndFenced' /\ OperationFacts'
       /\ \A x \in OpIds : ~Exists(x)' => applies'[x] = 0
  BY <1>1, <1>3, <1>4, <1>9, <1>13, <1>17, QueuedOperationFacts
<1>19. LedgerFacts'
  <2>1. \A q \in PlanIds : plans'[q] # None => plans'[q].material.version <= workload'.version
    BY <1>0, <1>2, <1>5 DEF PipelineInvariant, LedgerFacts
  <2>2. \A q \in PlanIds : spent'[q] # None => operations'[spent'[q]] # None
    <3>1. \A q \in PlanIds \ {p} : spent'[q] = spent[q]
      BY <1>0, <1>1, <1>2
    <3>2. \A q \in PlanIds : spent[q] # None => spent[q] \in OpIds
      BY <1>2
    <3>3. \A q \in PlanIds : spent[q] # None => operations'[spent[q]] # None
      BY <1>4, <1>13, <3>2 DEF PipelineInvariant, LedgerFacts, Exists
    <3> QED BY <1>0, <1>1, <1>2, <1>3, <1>4, <3>1, <3>3
  <2>3. ASSUME NEW b \in ActorIds, NEW j \in KeyIds, claims'[b][j] # None
        PROVE  operations'[claims'[b][j]] # None /\ operations'[claims'[b][j]].key = j
    <3>1. CASE b = a /\ j = k
      BY <1>3, <1>4, <1>6, <3>1 DEF Exists
    <3>2. CASE ~(b = a /\ j = k)
      <4>1. /\ claims'[b][j] = claims[b][j] /\ claims[b][j] \in OpIds
            /\ Exists(claims[b][j]) /\ operations[claims[b][j]].key = j
        BY <1>2, <1>6, <2>3, <3>2 DEF PipelineInvariant, LedgerFacts
      <4> QED BY <1>4, <1>13, <4>1 DEF Exists
    <3> QED BY <3>1, <3>2
  <2> QED BY <1>18, <2>1, <2>2, <2>3 DEF LedgerFacts, Exists
<1>20. DeliveryFacts'
  BY <1>0, <1>1, <1>4, <1>5 DEF PipelineInvariant, DeliveryFacts, Exists, PlanIds, OpIds
<1> QED
  BY <1>9, <1>11, <1>12, <1>14, <1>16, <1>18, <1>19, <1>20 DEF PipelineInvariant

LEMMA AdvanceSourceStep ==
  ASSUME PipelineInvariant, UNCHANGED << runVars, stop, clock >>,
         NEW c \in Calls, AdvanceSource(c)
  PROVE  PipelineInvariant'
<1> DEFINE d == calls[c].plan
           v == workload.version
           m == AutoDeployMaterial(d, v)
           op == NewOperation(AutoActor, d, m)
           plan == [state |-> "consumed", actor |-> AutoActor, material |-> m]
           t == NewTask(d, d, m)
<1>0. /\ calls \in [Calls -> CallRecord] /\ calls[c] \in CallRecord
      /\ calls[c].pc = "advance" /\ CallFacts(c)
      /\ workload \in WorkloadRecord /\ v \in Nat \ {0}
  BY DEF AdvanceSource, PipelineInvariant, TypeOK, CallsTypeOK, RecordsTypeOK,
         WorkloadRecord
<1>1. /\ d \in Deliveries /\ d \in PlanIds /\ d \in OpIds /\ d \in KeyIds
      /\ AutoActor \in ActorIds /\ calls[c].key = d
  BY <1>0 DEF CallFacts, PlanIds, OpIds, KeyIds, ActorIds
<1>2. ApplyAutoDeploy(d, v)
  <2>1. ApplyAutoDeploy(d, calls[c].material.version - 1)
    BY DEF AdvanceSource
  <2> QED BY <2>1 DEF ApplyAutoDeploy, AutoDeployCommits
<1>3. /\ d \notin deliveryClaims /\ taskKey[d] = None
      /\ workload' = [workload EXCEPT !.version = v + 1, !.admission = d]
      /\ plans' = [plans EXCEPT ![d] = plan]
      /\ operations' = [operations EXCEPT ![d] = op]
      /\ claims' = [claims EXCEPT ![AutoActor][d] = d]
      /\ tasks' = [tasks EXCEPT ![d] = t]
      /\ taskKey' = [taskKey EXCEPT ![d] = d]
      /\ deliveryClaims' = deliveryClaims \cup {d}
      /\ spent' = [spent EXCEPT ![d] = d]
  BY <1>2 DEF ApplyAutoDeploy, AutoDeployCommits
<1>4. /\ calls' = [calls EXCEPT ![c].op = d, ![c].send = TRUE, ![c].pc = "audit"]
      /\ UNCHANGED << ownerActive, binding, expired, audited, queue, runVars, stop, clock >>
  BY DEF AdvanceSource
<1>5. /\ plans[d] = None /\ ~Exists(d) /\ spent[d] = None /\ tasks[d] = None
  <2>1. plans[d] = None /\ ~Exists(d)
    BY <1>1, <1>3 DEF PipelineInvariant, DeliveryFacts
  <2> QED BY <1>1, <2>1 DEF PipelineInvariant, PlanSpentOnce, TaskMatchesReview
<1>6. /\ m \in Material /\ m.version = v + 1
      /\ plan \in PlanRecord /\ plan # None
      /\ t \in TaskRecord /\ t # None /\ t.key = d /\ t.material = m
  <2>1. m \in Material /\ m.version = v + 1
    BY <1>0, <1>1 DEF AutoDeployMaterial, Material, Admissions
  <2>2. plan \in PlanRecord
    BY <1>1, <2>1 DEF PlanRecord
  <2>3. t \in TaskRecord /\ t.key = d /\ t.material = m
    BY <1>1, <2>1 DEF NewTask, TaskRecord
  <2> QED BY <2>1, <2>2, <2>3, NoneIsNoRecord
<1>7. /\ op \in OperationRecord /\ op # None /\ op.state = "queued" /\ op.version = 1
      /\ op.actor = AutoActor /\ op.key = d /\ op.material = m
  BY <1>1, <1>6, NewOperationTyped
<1>8. /\ plans \in [PlanIds -> PlanRecord \cup {None}]
      /\ operations \in [OpIds -> OperationRecord \cup {None}]
      /\ claims \in [ActorIds -> [KeyIds -> OpIds \cup {None}]]
      /\ tasks \in [OpIds -> TaskRecord \cup {None}]
      /\ taskKey \in [KeyIds -> OpIds \cup {None}]
      /\ spent \in [PlanIds -> OpIds \cup {None}]
      /\ deliveryClaims \subseteq Deliveries
      /\ queue \in [KeyIds -> QueueRecord \cup {None}]
  BY DEF PipelineInvariant, TypeOK, RecordsTypeOK, CallsTypeOK
<1>9. /\ workload' \in WorkloadRecord /\ workload'.version = v + 1
      /\ workload'.admission = d
  <2>1. v + 1 \in Nat \ {0} /\ d \in Admissions
    BY <1>0, <1>1 DEF Admissions
  <2>2. workload \in WorkloadRecord
    BY <1>0
  <2>3. workload' = [workload EXCEPT !.version = v + 1, !.admission = d]
    BY <1>3
  <2> HIDE DEF v, d
  <2>4. workload' \in WorkloadRecord
    BY <2>1, <2>2, <2>3 DEF WorkloadRecord
  <2>5. workload'.version = v + 1
    BY <2>1, <2>2, <2>3 DEF WorkloadRecord
  <2>6. workload'.admission = d
    BY <2>1, <2>2, <2>3 DEF WorkloadRecord
  <2> QED BY <2>4, <2>5, <2>6
<1>10. /\ plans' \in [PlanIds -> PlanRecord \cup {None}]
       /\ plans'[d] = plan /\ \A q \in PlanIds \ {d} : plans'[q] = plans[q]
  BY <1>1, <1>3, <1>6, <1>8
<1>11. /\ operations' \in [OpIds -> OperationRecord \cup {None}]
       /\ operations'[d] = op /\ \A x \in OpIds \ {d} : operations'[x] = operations[x]
  BY <1>1, <1>3, <1>7, <1>8
<1>12. /\ claims' \in [ActorIds -> [KeyIds -> OpIds \cup {None}]]
       /\ claims'[AutoActor][d] = d
       /\ \A b \in ActorIds, j \in KeyIds :
            b # AutoActor \/ j # d => claims'[b][j] = claims[b][j]
  BY <1>1, <1>3, <1>8
<1>13. /\ tasks' \in [OpIds -> TaskRecord \cup {None}]
       /\ tasks'[d] = t /\ \A x \in OpIds \ {d} : tasks'[x] = tasks[x]
       /\ taskKey' \in [KeyIds -> OpIds \cup {None}]
       /\ taskKey'[d] = d /\ \A j \in KeyIds \ {d} : taskKey'[j] = taskKey[j]
  BY <1>1, <1>3, <1>6, <1>8
<1>14. /\ spent' \in [PlanIds -> OpIds \cup {None}]
       /\ spent'[d] = d /\ \A q \in PlanIds \ {d} : spent'[q] = spent[q]
       /\ deliveryClaims' \subseteq Deliveries
  BY <1>1, <1>3, <1>8
<1>15. calls' \in [Calls -> CallRecord]
  BY CallsTyped DEF CallStep
<1>16. TypeOK'
  BY <1>4, <1>9, <1>10, <1>11, <1>12, <1>13, <1>14, <1>15 DEF PipelineInvariant, TypeOK,
     RecordsTypeOK, CallsTypeOK, RunsTypeOK, runVars
<1>17. RecordsGrow
  <2>1. workload.version <= workload'.version
    BY <1>0, <1>9
  <2>2. /\ \A x \in OpIds : Exists(x) => operations'[x] = operations[x]
        /\ \A x \in OpIds : tasks[x] # None => tasks'[x] = tasks[x]
        /\ \A q \in PlanIds : plans[q] # None => plans'[q] = plans[q]
        /\ audited' = audited /\ queue' = queue
    BY <1>4, <1>5, <1>10, <1>11, <1>13 DEF Exists
  <2> QED BY <2>1, <2>2 DEF RecordsGrow, Exists
<1>18. (\A r \in Runs : RunFacts(r)') /\ OneHolder'
  BY <1>4, <1>5, <1>11, <1>16, <1>17, RunsUndisturbed DEF Exists
<1>19. \A e \in Calls : CallFacts(e)'
  <2>1. /\ calls'[c].pc = "audit" /\ calls'[c].op = d
        /\ calls'[c].plan = d /\ calls'[c].key = d
        /\ \A e \in Calls \ {c} : calls'[e] = calls[e]
    BY <1>0, <1>1, <1>4 DEF CallRecord
  <2>2. CallFacts(c)'
    BY <1>1, <1>6, <1>13, <2>1 DEF CallFacts
  <2> QED BY <1>17, <2>1, <2>2, CallKept DEF PipelineInvariant
<1>20. PlanSpentOnce'
  <2>1. \A q \in PlanIds : spent[q] # None => Exists(spent[q])
    BY DEF PipelineInvariant, LedgerFacts
  <2>2. PlanSpentOnce
    BY DEF PipelineInvariant
  <2>3. \A q \in PlanIds : plans[q] # None =>
           plans'[q].actor = plans[q].actor /\ plans'[q].material = plans[q].material
    BY <1>5, <1>10
  <2>4. plan.state = "consumed" /\ plan.actor = AutoActor /\ plan.material = m
    OBVIOUS
  <2>5. operations'[d].actor = plans'[d].actor /\ operations'[d].material = plans'[d].material
    BY <1>7, <1>10, <1>11, <2>4
  <2> HIDE DEF plan, op
  <2> QED BY <1>1, <1>3, <1>5, <1>6, <1>8, <1>10, <1>11, <2>1, <2>2, <2>3, <2>4, <2>5,
             SpendingKeepsBooks
<1>21. TaskMatchesReview'
  <2>1. ASSUME NEW x \in OpIds, tasks'[x] # None
        PROVE  /\ Exists(x)' /\ tasks'[x].material = operations'[x].material
               /\ tasks'[x].key = operations'[x].key /\ taskKey'[tasks'[x].key] = x
    <3>1. CASE x = d
      BY <1>6, <1>7, <1>11, <1>13, <3>1 DEF Exists
    <3>2. CASE x # d
      <4>1. /\ tasks'[x] = tasks[x]
            /\ Exists(x) /\ tasks[x].material = operations[x].material
            /\ tasks[x].key = operations[x].key /\ taskKey[tasks[x].key] = x
        BY <1>13, <2>1, <3>2 DEF PipelineInvariant, TaskMatchesReview
      <4>2. tasks[x].key \in KeyIds
        BY <1>8, <2>1, <4>1 DEF TaskRecord
      <4>3. tasks[x].key # d
        BY <1>3, <4>1, IdsAreDistinct DEF OpIds
      <4> QED BY <1>11, <1>13, <3>2, <4>1, <4>2, <4>3 DEF Exists
    <3> QED BY <3>1, <3>2
  <2>2. ASSUME NEW j \in KeyIds, taskKey'[j] # None
        PROVE  tasks'[taskKey'[j]] # None /\ tasks'[taskKey'[j]].key = j
    <3>1. CASE j = d
      BY <1>1, <1>6, <1>13, <3>1
    <3>2. CASE j # d
      <4>1. /\ taskKey'[j] = taskKey[j] /\ taskKey[j] \in OpIds
            /\ tasks[taskKey[j]] # None /\ tasks[taskKey[j]].key = j
        BY <1>8, <1>13, <2>2, <3>2 DEF PipelineInvariant, TaskMatchesReview
      <4>2. taskKey[j] # d
        BY <1>5, <4>1
      <4> QED BY <1>13, <4>1, <4>2
    <3> QED BY <3>1, <3>2
  <2> QED BY <2>1, <2>2 DEF TaskMatchesReview
<1>22. QueuedIsAudited'
  <2>1. ASSUME NEW j \in KeyIds, queue[j] # None
        PROVE  taskKey'[j] = queue[j].op /\ queue[j].op \in audited
    <3>1. taskKey[j] = queue[j].op /\ queue[j].op \in audited
      BY <2>1 DEF PipelineInvariant, QueuedIsAudited
    <3>2. queue[j].op # None
      BY <1>8, <2>1, IdsAreDistinct DEF QueueRecord
    <3> QED BY <1>3, <1>13, <3>1, <3>2
  <2> QED BY <1>4, <2>1 DEF QueuedIsAudited
<1>23. /\ AppliedOnceAndFenced' /\ OperationFacts'
       /\ \A x \in OpIds : ~Exists(x)' => applies'[x] = 0
  <2>1. /\ workload.version <= workload'.version
        /\ operations'[d].material.version <= workload'.version
        /\ UNCHANGED << applies, deployingAt >>
    BY <1>0, <1>4, <1>6, <1>7, <1>9, <1>11 DEF runVars
  <2> QED BY <1>1, <1>5, <1>7, <1>11, <1>16, <2>1, QueuedOperationFacts
<1>24. LedgerFacts'
  <2>1. \A q \in PlanIds : plans'[q] # None => plans'[q].material.version <= workload'.version
    <3>1. plans'[d].material.version <= workload'.version
      BY <1>0, <1>6, <1>9, <1>10
    <3>2. ASSUME NEW q \in PlanIds \ {d}, plans'[q] # None
          PROVE  plans'[q].material.version <= workload'.version
      <4>1. plans'[q] = plans[q] /\ plans[q].material.version \in Nat
        BY <1>8, <1>10, <3>2 DEF PlanRecord, Material
      <4>2. plans[q].material.version <= v
        BY <3>2, <4>1 DEF PipelineInvariant, LedgerFacts
      <4> QED BY <1>0, <1>9, <4>1, <4>2
    <3> QED BY <3>1, <3>2
  <2>2. \A q \in PlanIds : spent'[q] # None => operations'[spent'[q]] # None
    <3>1. \A q \in PlanIds : spent[q] # None => spent[q] \in OpIds
      BY <1>8
    <3>2. \A q \in PlanIds : spent[q] # None => operations'[spent[q]] # None
      BY <1>5, <1>11, <3>1 DEF PipelineInvariant, LedgerFacts, Exists
    <3> QED BY <1>7, <1>11, <1>14, <3>2
  <2>3. ASSUME NEW b \in ActorIds, NEW j \in KeyIds, claims'[b][j] # None
        PROVE  operations'[claims'[b][j]] # None /\ operations'[claims'[b][j]].key = j
    <3>1. CASE b = AutoActor /\ j = d
      BY <1>7, <1>11, <1>12, <3>1
    <3>2. CASE ~(b = AutoActor /\ j = d)
      <4>1. /\ claims'[b][j] = claims[b][j] /\ claims[b][j] \in OpIds
            /\ Exists(claims[b][j]) /\ operations[claims[b][j]].key = j
        BY <1>8, <1>12, <2>3, <3>2 DEF PipelineInvariant, LedgerFacts
      <4> QED BY <1>5, <1>11, <4>1 DEF Exists
    <3> QED BY <3>1, <3>2
  <2> QED BY <1>23, <2>1, <2>2, <2>3 DEF LedgerFacts, Exists
<1>25. DeliveryFacts'
  <2>1. workload'.admission \in deliveryClaims' \cup {FirstAdmission}
    BY <1>3, <1>9
  <2>2. \A e \in deliveryClaims' : tasks'[e] # None /\ tasks'[e].key = e
    <3>1. \A e \in deliveryClaims : e \in OpIds /\ e # d
      BY <1>3, <1>8 DEF OpIds
    <3> QED BY <1>3, <1>6, <1>13, <3>1 DEF PipelineInvariant, DeliveryFacts
  <2>3. \A e \in Deliveries \ deliveryClaims' : plans'[e] = None /\ operations'[e] = None
    <3>1. \A e \in Deliveries \ deliveryClaims' :
            e # d /\ e \notin deliveryClaims /\ e \in PlanIds /\ e \in OpIds
      BY <1>3 DEF PlanIds, OpIds
    <3> QED BY <1>10, <1>11, <3>1 DEF PipelineInvariant, DeliveryFacts, Exists
  <2> QED BY <2>1, <2>2, <2>3 DEF DeliveryFacts, Exists
<1> QED
  BY <1>16, <1>18, <1>19, <1>20, <1>21, <1>22, <1>23, <1>24, <1>25 DEF PipelineInvariant

----------------------------------------------------------------------------
(* Everybody but the requests and the runs.                                 *)
LEMMA Bystander ==
  ASSUME PipelineInvariant, TypeOK',
         UNCHANGED << plans, operations, claims, deliveryClaims, tasks, taskKey,
                      audited, spent, calls, runs, deployingAt, applies >>,
         workload'.admission = workload.admission,
         workload.version <= workload'.version,
         \A k \in KeyIds : \/ queue'[k] = queue[k]
                           \/ /\ queue[k] # None /\ queue'[k] # None
                              /\ queue'[k].op = queue[k].op
  PROVE  PipelineInvariant'
<1>1. QueuedIsAudited'
  BY DEF PipelineInvariant, QueuedIsAudited
<1>2. \A k \in KeyIds : queue[k] # None => queue'[k] # None
  OBVIOUS
<1> QED BY <1>1, <1>2, LocalStep

(* What the stops do to the host.                                           *)
LEMMA HostTaken ==
  ASSUME TypeOK, DisableHost \/ RetireHost, binding' # binding
  PROVE  /\ binding \in BindingRecord /\ binding' \in BindingRecord
         /\ binding'.version = binding.version + 1
         /\ binding'.state # "active"
         /\ \/ binding'.at = binding.at /\ binding'.down = binding.down
            \/ \E now \in Readings : binding'.at = now /\ binding'.down = clock
<1>1. binding # None
  BY DEF DisableHost, RetireHost
<1>2. /\ binding \in BindingRecord /\ clock \in Nat
      /\ \A now \in Readings : now \in Nat
  BY <1>1 DEF TypeOK, RecordsTypeOK, RunsTypeOK, Readings
<1>3. binding.version \in Nat /\ binding.at \in Nat /\ binding.down \in Nat
  BY <1>2 DEF BindingRecord
<1>4. "disabled" \in BindingStates /\ "retired" \in BindingStates
  BY DEF BindingStates, BindingMoves
<1>5. CASE DisableHost
  <2>1. PICK now \in Readings :
          binding' = [binding EXCEPT !.state = "disabled", !.version = binding.version + 1,
                                     !.at = now, !.down = clock]
    BY <1>5 DEF DisableHost
  <2>2. now \in Nat
    BY <1>2
  <2>3. PICK h, b, n : h = binding /\ b = binding' /\ n = binding.version
    OBVIOUS
  <2>4. b = [h EXCEPT !.state = "disabled", !.version = n + 1, !.at = now, !.down = clock]
    BY <2>1, <2>3
  <2>5. h \in BindingRecord /\ n \in Nat
    BY <1>2, <1>3, <2>3
  <2>6. b = [state |-> "disabled", version |-> n + 1, at |-> now, down |-> clock]
    BY <2>4, <2>5 DEF BindingRecord
  <2>7. b \in BindingRecord
    BY <1>2, <1>4, <2>2, <2>5, <2>6 DEF BindingRecord
  <2> QED BY <1>2, <2>3, <2>6, <2>7
<1>6. CASE RetireHost
  <2>1. binding' = [binding EXCEPT !.state = "retired", !.version = binding.version + 1]
    BY <1>6 DEF RetireHost
  <2>2. PICK h, b, n : h = binding /\ b = binding' /\ n = binding.version
    OBVIOUS
  <2>3. b = [h EXCEPT !.state = "retired", !.version = n + 1]
    BY <2>1, <2>2
  <2>4. h \in BindingRecord /\ n \in Nat
    BY <1>2, <1>3, <2>2
  <2>5. b = [state |-> "retired", version |-> n + 1, at |-> h.at, down |-> h.down]
    BY <2>3, <2>4 DEF BindingRecord
  <2>6. b \in BindingRecord
    BY <1>4, <2>4, <2>5 DEF BindingRecord
  <2> QED BY <1>2, <2>2, <2>5, <2>6
<1> QED BY <1>5, <1>6

LEMMA MaintenanceStep ==
  ASSUME PipelineInvariant,
         \/ \E p \in Plans : PlanExpires(p) /\ UNCHANGED << runVars, stop, clock >>
         \/ EnvironmentNext
         \/ StopNext
         \/ \E k \in KeyIds : ExhaustTask(k)
  PROVE  PipelineInvariant'
<1>0. /\ workload \in WorkloadRecord /\ workload.version \in Nat \ {0}
      /\ workload.state \in WorkloadStates
      /\ binding \in BindingRecord \cup {None} /\ TypeOK
      /\ stop \in StopRecord /\ queue \in [KeyIds -> QueueRecord \cup {None}]
  BY DEF PipelineInvariant, TypeOK, RecordsTypeOK, WorkloadRecord, CallsTypeOK
<1>1. ASSUME NEW p \in Plans, PlanExpires(p), UNCHANGED << runVars, stop, clock >>
      PROVE  PipelineInvariant'
  <2>1. expired' \subseteq PlanIds
    BY <1>1 DEF PlanExpires, PlanIds, PipelineInvariant, TypeOK, RecordsTypeOK
  <2>2. TypeOK'
    BY <1>1, <2>1 DEF PlanExpires, PipelineInvariant, TypeOK, RecordsTypeOK, CallsTypeOK,
       RunsTypeOK, callVars, runVars
  <2>3. workload.version <= workload'.version
    BY <1>0, <1>1 DEF PlanExpires
  <2> QED BY <1>1, <2>2, <2>3, Bystander DEF PlanExpires, callVars, runVars
<1>2. CASE RecordActivity
  <2>1. workload' = [workload EXCEPT !.version = workload.version + 1]
    BY <1>2 DEF RecordActivity
  <2>2. /\ workload' \in WorkloadRecord /\ workload'.version = workload.version + 1
        /\ workload'.admission = workload.admission
    BY <1>0, <2>1 DEF WorkloadRecord
  <2>3. TypeOK'
    BY <1>2, <2>2 DEF RecordActivity, PipelineInvariant, TypeOK, RecordsTypeOK,
       CallsTypeOK, RunsTypeOK, callVars, runVars, otherThanWorkload
  <2>4. workload.version <= workload'.version
    BY <1>0, <2>2
  <2> QED BY <1>2, <2>2, <2>3, <2>4, Bystander DEF RecordActivity, callVars, runVars,
          otherThanWorkload
<1>3. CASE ChangeOwner
  <2>1. ownerActive' \in BOOLEAN
    BY <1>3 DEF ChangeOwner
  <2>2. TypeOK'
    BY <1>3, <2>1 DEF ChangeOwner, PipelineInvariant, TypeOK, RecordsTypeOK,
       CallsTypeOK, RunsTypeOK, callVars, runVars
  <2>3. workload.version <= workload'.version
    BY <1>0, <1>3 DEF ChangeOwner
  <2> QED BY <1>3, <2>2, <2>3, Bystander DEF ChangeOwner, callVars, runVars
<1>4. ASSUME NEW target \in StopTargets, BeginStop(target) PROVE PipelineInvariant'
  <2>1. stop' \in StopRecord
    BY <1>0, <1>4 DEF BeginStop, StopRecord
  <2>2. TypeOK'
    BY <1>4, <2>1 DEF BeginStop, PipelineInvariant, TypeOK, RecordsTypeOK,
       CallsTypeOK, RunsTypeOK, recordVars, callVars, runVars
  <2>3. workload.version <= workload'.version
    BY <1>0, <1>4 DEF BeginStop, recordVars
  <2> QED BY <1>4, <2>2, <2>3, Bystander DEF BeginStop, recordVars, callVars, runVars
<1>5. CASE DisableHost \/ RetireHost
  <2>1. stop' \in StopRecord
    BY <1>0, <1>5 DEF DisableHost, RetireHost, StopRecord
  <2>2. binding' \in BindingRecord \cup {None}
    BY <1>0, <1>5, HostTaken
  <2>4. UNCHANGED << workload, ownerActive, plans, expired, operations, claims,
                     deliveryClaims, tasks, taskKey, audited, spent, callVars, runVars,
                     clock >>
    BY <1>5 DEF DisableHost, RetireHost
  <2>5. TypeOK'
    BY <2>1, <2>2, <2>4 DEF PipelineInvariant, TypeOK, RecordsTypeOK,
       CallsTypeOK, RunsTypeOK, callVars, runVars
  <2>6. workload.version <= workload'.version
    BY <1>0, <2>4
  <2> QED BY <2>4, <2>5, <2>6, Bystander DEF callVars, runVars
<1>6. CASE DeleteService
  <2>1. stop' \in StopRecord
    BY <1>0, <1>6 DEF DeleteService, StopRecord
  <2>2. TypeOK'
    BY <1>6, <2>1 DEF DeleteService, PipelineInvariant, TypeOK, RecordsTypeOK,
       CallsTypeOK, RunsTypeOK, recordVars, callVars
  <2>3. workload.version <= workload'.version
    BY <1>0, <1>6 DEF DeleteService, recordVars
  <2> QED BY <1>6, <2>2, <2>3, Bystander DEF DeleteService, recordVars, callVars
<1>7. CASE SaveStopped
  <2>1. stop' \in StopRecord
    BY <1>7 DEF SaveStopped, EndStop, IdleStop, StopRecord
  <2>2. /\ workload.version = stop.version
        /\ stop.target \in WorkloadStates
        /\ workload' = [workload EXCEPT !.state = stop.target, !.version = stop.version + 1]
    BY <1>0, <1>7, WorkloadMovesClosed DEF SaveStopped, SaveWorkload
  <2>a. stop.version + 1 \in Nat \ {0}
    BY <1>0, <2>2
  <2>3. workload' \in WorkloadRecord
    BY <1>0, <2>2, <2>a DEF WorkloadRecord
  <2>4. workload'.version = workload.version + 1 /\ workload'.admission = workload.admission
    BY <1>0, <2>2 DEF WorkloadRecord
  <2>5. TypeOK'
    BY <1>7, <2>1, <2>3 DEF SaveStopped, PipelineInvariant, TypeOK, RecordsTypeOK,
       CallsTypeOK, RunsTypeOK, callVars, runVars, otherThanWorkload
  <2>6. workload.version <= workload'.version
    BY <1>0, <2>4
  <2> QED BY <1>7, <2>4, <2>5, <2>6, Bystander DEF SaveStopped, callVars, runVars,
          otherThanWorkload
<1>8. CASE AbandonStop
  <2>1. stop' \in StopRecord
    BY <1>8 DEF AbandonStop, EndStop, IdleStop, StopRecord
  <2>2. TypeOK'
    BY <1>8, <2>1 DEF AbandonStop, PipelineInvariant, TypeOK, RecordsTypeOK,
       CallsTypeOK, RunsTypeOK, recordVars, callVars, runVars
  <2>3. workload.version <= workload'.version
    BY <1>0, <1>8 DEF AbandonStop, recordVars
  <2> QED BY <1>8, <2>2, <2>3, Bystander DEF AbandonStop, recordVars, callVars, runVars
<1>9. ASSUME NEW k \in KeyIds, ExhaustTask(k) PROVE PipelineInvariant'
  <2>1. queue[k] \in QueueRecord /\ queue' = [queue EXCEPT ![k].pending = FALSE]
    BY <1>0, <1>9 DEF ExhaustTask
  <2>2. [queue[k] EXCEPT !.pending = FALSE] \in QueueRecord
    BY <2>1 DEF QueueRecord
  <2>3. /\ queue' \in [KeyIds -> QueueRecord \cup {None}]
        /\ queue'[k] = [queue[k] EXCEPT !.pending = FALSE]
        /\ \A j \in KeyIds \ {k} : queue'[j] = queue[j]
    BY <1>0, <2>1, <2>2
  <2>4. queue[k] # None /\ queue'[k] # None /\ queue'[k].op = queue[k].op
    BY <1>9, <2>1, <2>2, <2>3, NoneIsNoRecord DEF ExhaustTask, QueueRecord
  <2>5. TypeOK'
    BY <1>9, <2>3 DEF ExhaustTask, PipelineInvariant, TypeOK, RecordsTypeOK,
       CallsTypeOK, RunsTypeOK, recordVars, runVars
  <2>6. workload.version <= workload'.version
    BY <1>0, <1>9 DEF ExhaustTask, recordVars
  <2>7. \A j \in KeyIds : \/ queue'[j] = queue[j]
                          \/ /\ queue[j] # None /\ queue'[j] # None
                             /\ queue'[j].op = queue[j].op
    BY <2>3, <2>4
  <2> QED BY <1>9, <2>5, <2>6, <2>7, Bystander DEF ExhaustTask, recordVars, runVars
<1>10. CASE Tick
  <2>1. clock' \in Nat
    BY <1>10 DEF Tick, PipelineInvariant, TypeOK, RunsTypeOK
  <2>2. TypeOK'
    BY <1>10, <2>1 DEF Tick, PipelineInvariant, TypeOK, RecordsTypeOK, CallsTypeOK,
       RunsTypeOK, recordVars, callVars, runVars
  <2>3. workload.version <= workload'.version
    BY <1>0, <1>10 DEF Tick, recordVars
  <2> QED BY <1>10, <2>2, <2>3, Bystander DEF Tick, recordVars, callVars, runVars
<1> QED
  BY <1>1, <1>2, <1>3, <1>4, <1>5, <1>6, <1>7, <1>8, <1>9, <1>10
     DEF EnvironmentNext, StopNext

----------------------------------------------------------------------------
(* Setting a field of a run.                                                *)
LEMMA RunUpdated ==
  ASSUME NEW run \in RunRecord, NEW step \in RunSteps
  PROVE  /\ [run EXCEPT !.pc = step] \in RunRecord
         /\ \A t \in OperationStates : [run EXCEPT !.pc = step, !.target = t] \in RunRecord
         /\ \A n \in Nat : /\ [run EXCEPT !.pc = step, !.host = n] \in RunRecord
                           /\ [run EXCEPT !.pc = step, !.version = n] \in RunRecord
BY DEF RunRecord

(* A step of a run that writes nothing but the host and the queue's mark.   *)
LEMMA RunMoves ==
  ASSUME PipelineInvariant, NEW r \in Runs,
         runs' \in [Runs -> RunRecord],
         \A s \in Runs \ {r} : runs'[s] = runs[s],
         binding' \in BindingRecord \cup {None},
         queue' \in [KeyIds -> QueueRecord \cup {None}],
         \A k \in KeyIds : \/ queue'[k] = queue[k]
                           \/ /\ queue[k] # None /\ queue'[k] # None
                              /\ queue'[k].op = queue[k].op,
         UNCHANGED << workload, ownerActive, plans, expired, operations, claims,
                      deliveryClaims, tasks, taskKey, audited, spent, calls, runtime,
                      deployingAt, applies, stop, clock >>,
         RunFacts(r)',
         Holds(r)' => Holds(r) /\ runs'[r].op = runs[r].op
  PROVE  PipelineInvariant'
<1>1. TypeOK'
  BY DEF PipelineInvariant, TypeOK, RecordsTypeOK, CallsTypeOK, RunsTypeOK
<1>2. QueuedIsAudited'
  BY DEF PipelineInvariant, QueuedIsAudited
<1>3. workload.version <= workload'.version
  BY DEF PipelineInvariant, TypeOK, RecordsTypeOK, WorkloadRecord
<1>4. \A k \in KeyIds : queue[k] # None => queue'[k] # None
  OBVIOUS
<1> QED BY <1>1, <1>2, <1>3, <1>4, LocalStep

(* A run that goes on with the operation it is at.                          *)
LEMMA RunGoesOn ==
  ASSUME PipelineInvariant, NEW r \in Runs, runs[r].pc # "idle",
         runs' \in [Runs -> RunRecord],
         \A s \in Runs \ {r} : runs'[s] = runs[s],
         binding' \in BindingRecord \cup {None},
         UNCHANGED << workload, ownerActive, plans, expired, operations, claims,
                      deliveryClaims, tasks, taskKey, audited, spent, calls, queue,
                      runtime, deployingAt, applies, stop, clock >>,
         runs'[r].op = runs[r].op, runs'[r].version = runs[r].version,
         runs'[r].pc \notin {"idle", "preflight", "revalidate"},
         runs'[r].pc = "fetch" => runs[r].version = 1,
         runs'[r].pc \in WorkingSteps => runs[r].version >= 2,
         runs'[r].pc \in {"build", "built", "deploying", "apply"} =>
           applies[runs[r].op] = 0,
         runs'[r].pc = "apply" =>
           deployingAt[runs[r].op] = tasks[runs[r].op].material.version,
         runs'[r].pc \in {"verifying", "health", "bind", "rebind"} =>
           applies[runs[r].op] > 0,
         runs'[r].pc = "finish" =>
           /\ runs'[r].target \in TerminalOperationStates
           /\ runs'[r].target = "succeeded" => applies[runs[r].op] > 0
  PROVE  PipelineInvariant'
<1>1. RunFacts(r)
  BY DEF PipelineInvariant
<1>2. Holds(r)' => Holds(r) /\ runs'[r].op = runs[r].op
  BY DEF Holds
<1>3. RunFacts(r)'
  <2>1. /\ runs[r].op \in OpIds
        /\ tasks[runs[r].op] # None
        /\ queue[tasks[runs[r].op].key] # None
        /\ runs[r].version >= 1
    BY <1>1 DEF RunFacts
  <2>2. Holds(r) => /\ operations[runs[r].op].version = runs[r].version
                    /\ operations[runs[r].op].state \in InProgressOperationStates
    BY <1>1 DEF RunFacts
  <2> QED BY <1>2, <2>1, <2>2 DEF RunFacts
<1>4. queue \in [KeyIds -> QueueRecord \cup {None}]
  BY DEF PipelineInvariant, TypeOK, CallsTypeOK
<1> QED BY <1>2, <1>3, <1>4, RunMoves

(* A run that has its outcome.                                              *)
LEMMA RunConcludes ==
  ASSUME PipelineInvariant, NEW r \in Runs, runs[r].pc # "idle",
         NEW target \in TerminalOperationStates, Conclude(r, target),
         target = "succeeded" => applies[runs[r].op] > 0,
         binding' \in BindingRecord \cup {None},
         UNCHANGED << workload, ownerActive, plans, expired, operations, claims,
                      deliveryClaims, tasks, taskKey, audited, spent, calls, queue,
                      runtime, deployingAt, applies, stop, clock >>
  PROVE  PipelineInvariant'
<1>0. runs \in [Runs -> RunRecord] /\ runs[r] \in RunRecord
  BY DEF PipelineInvariant, TypeOK, RunsTypeOK
<1>1. runs' = [runs EXCEPT ![r] = [runs[r] EXCEPT !.pc = "finish", !.target = target]]
  BY DEF Conclude
<1>2. target \in OperationStates /\ "finish" \in RunSteps
  BY DEF TerminalOperationStates, OperationStates, OperationMoves, RunSteps
<1>3. runs' \in [Runs -> RunRecord]
  BY <1>0, <1>1, <1>2, RunUpdated
<1>4. /\ runs'[r].pc = "finish" /\ runs'[r].target = target
      /\ runs'[r].op = runs[r].op /\ runs'[r].version = runs[r].version
      /\ \A s \in Runs \ {r} : runs'[s] = runs[s]
  BY <1>0, <1>1 DEF RunRecord
<1> QED BY <1>3, <1>4, RunGoesOn DEF WorkingSteps

(* The answer of a run marks its own task only.                             *)
LEMMA AnsweredQueue ==
  ASSUME TypeOK, NEW r \in Runs, RunFacts(r), runs[r].pc # "idle",
         Answer(r) \/ UNCHANGED queue
  PROVE  /\ queue' \in [KeyIds -> QueueRecord \cup {None}]
         /\ \A k \in KeyIds : \/ queue'[k] = queue[k]
                              \/ /\ queue[k] # None /\ queue'[k] # None
                                 /\ queue'[k].op = queue[k].op
<1> DEFINE k == tasks[runs[r].op].key
<1>0. queue \in [KeyIds -> QueueRecord \cup {None}]
  BY DEF TypeOK, CallsTypeOK
<1>1. CASE UNCHANGED queue
  BY <1>0, <1>1
<1>2. CASE queue' = [queue EXCEPT ![k].pending = FALSE]
  <2>1. k \in KeyIds /\ queue[k] \in QueueRecord
    BY <1>0 DEF RunFacts, TypeOK, RecordsTypeOK, TaskRecord
  <2>2. /\ [queue[k] EXCEPT !.pending = FALSE] \in QueueRecord
        /\ [queue[k] EXCEPT !.pending = FALSE] # None
        /\ [queue[k] EXCEPT !.pending = FALSE].op = queue[k].op
    <3>1. [queue[k] EXCEPT !.pending = FALSE] \in QueueRecord
      BY <2>1 DEF QueueRecord
    <3>2. [queue[k] EXCEPT !.pending = FALSE].op = queue[k].op
      BY <2>1 DEF QueueRecord
    <3> QED BY <3>1, <3>2, NoneIsNoRecord
  <2>3. queue' = [queue EXCEPT ![k] = [queue[k] EXCEPT !.pending = FALSE]]
    BY <1>2
  <2>4. queue[k] # None
    BY <2>1, NoneIsNoRecord
  <2> QED BY <1>0, <2>1, <2>2, <2>3, <2>4
<1> QED BY <1>1, <1>2 DEF Answer

(* A run that stops; its task may be taken off the queue.                   *)
LEMMA RunStops ==
  ASSUME PipelineInvariant, NEW r \in Runs, runs[r].pc # "idle",
         Answer(r) \/ (EndRun(r) /\ UNCHANGED queue),
         UNCHANGED << recordVars, calls, runtime, deployingAt, applies, stop, clock >>
  PROVE  PipelineInvariant'
<1>0. /\ runs \in [Runs -> RunRecord] /\ RunFacts(r) /\ TypeOK
      /\ queue \in [KeyIds -> QueueRecord \cup {None}]
      /\ binding \in BindingRecord \cup {None}
  BY DEF PipelineInvariant, TypeOK, RunsTypeOK, CallsTypeOK, RecordsTypeOK
<1>1. runs' = [runs EXCEPT ![r] = IdleRun]
  BY DEF Answer, EndRun
<1>2. /\ runs' \in [Runs -> RunRecord] /\ runs'[r].pc = "idle"
      /\ \A s \in Runs \ {r} : runs'[s] = runs[s]
  BY <1>0, <1>1 DEF IdleRun, RunRecord, RunSteps
<1>3. RunFacts(r)' /\ ~Holds(r)'
  BY <1>2 DEF RunFacts, Holds, WorkingSteps
<1>4. /\ queue' \in [KeyIds -> QueueRecord \cup {None}]
      /\ \A k \in KeyIds : \/ queue'[k] = queue[k]
                           \/ /\ queue[k] # None /\ queue'[k] # None
                              /\ queue'[k].op = queue[k].op
  BY <1>0, AnsweredQueue
<1> QED BY <1>0, <1>2, <1>3, <1>4, RunMoves DEF recordVars

(* The queue hands a task to an idle run, or marks an answered one.         *)
LEMMA DeliverStep ==
  ASSUME PipelineInvariant, UNCHANGED << stop, clock >>, NEW r \in Runs, NEW k \in KeyIds,
         Deliver(r, k)
  PROVE  PipelineInvariant'
<1> DEFINE o == queue[k].op
           begun(now) == [IdleRun EXCEPT !.pc = "preflight", !.op = o,
                                         !.version = operations[o].version,
                                         !.start = now, !.began = clock]
<1>0. /\ runs \in [Runs -> RunRecord] /\ runs[r].pc = "idle"
      /\ queue \in [KeyIds -> QueueRecord \cup {None}] /\ queue[k] # None
      /\ binding \in BindingRecord \cup {None}
      /\ UNCHANGED << recordVars, calls, runtime, deployingAt, applies >>
  BY DEF PipelineInvariant, TypeOK, RunsTypeOK, CallsTypeOK, RecordsTypeOK, Deliver, At,
         otherThanQueue
<1>1. /\ queue[k] \in QueueRecord /\ o \in OpIds /\ o # None
      /\ taskKey[k] = o /\ tasks[o] # None /\ tasks[o].key = k /\ Exists(o)
  <2>1. queue[k] \in QueueRecord /\ o \in OpIds /\ o # None
    BY <1>0, IdsAreDistinct DEF QueueRecord
  <2>2. taskKey[k] = o
    BY <1>0 DEF PipelineInvariant, QueuedIsAudited
  <2> QED BY <2>1, <2>2 DEF PipelineInvariant, TaskMatchesReview
<1>2. CASE operations[o].state = "queued"
  <2>1. PICK now \in Readings : runs' = [runs EXCEPT ![r] = begun(now)]
    BY <1>2 DEF Deliver
  <2>a. UNCHANGED queue
    BY <1>2 DEF Deliver
  <2>2. operations[o].version = 1
    BY <1>1, <1>2 DEF PipelineInvariant, OperationFacts
  <2>3. now \in Nat /\ clock \in Nat
    BY DEF Readings, PipelineInvariant, TypeOK, RunsTypeOK
  <2>4. /\ begun(now).pc = "preflight" /\ begun(now).op = o /\ begun(now).version = 1
        /\ begun(now) \in RunRecord
    <3>1. PICK x, g, b : x = o /\ g = clock /\ b = begun(now)
      OBVIOUS
    <3>2. b = [IdleRun EXCEPT !.pc = "preflight", !.op = x, !.version = 1,
                              !.start = now, !.began = g]
      BY <2>2, <3>1
    <3>3. x \in OpIds /\ g \in Nat
      BY <1>1, <2>3, <3>1
    <3>4. b.pc = "preflight" /\ b.op = x /\ b.version = 1 /\ b \in RunRecord
      BY <2>3, <3>2, <3>3 DEF IdleRun, RunRecord, RunSteps
    <3> QED BY <3>1, <3>4
  <2>5. /\ runs' \in [Runs -> RunRecord] /\ runs'[r] = begun(now)
        /\ \A s \in Runs \ {r} : runs'[s] = runs[s]
    BY <1>0, <2>1, <2>4
  <2>6. ~Holds(r)'
    BY <2>4, <2>5 DEF Holds
  <2>7. RunFacts(r)'
    BY <1>0, <1>1, <2>a, <2>4, <2>5, <2>6 DEF RunFacts, WorkingSteps, recordVars
  <2> QED BY <1>0, <2>a, <2>5, <2>6, <2>7, RunMoves DEF recordVars
<1>3. CASE operations[o].state # "queued"
  <2>1. UNCHANGED runs /\ queue' = [queue EXCEPT ![k].pending = FALSE]
    BY <1>3 DEF Deliver
  <2>2. /\ [queue[k] EXCEPT !.pending = FALSE] \in QueueRecord
        /\ [queue[k] EXCEPT !.pending = FALSE].op = o
    BY <1>1 DEF QueueRecord
  <2>3. /\ queue' \in [KeyIds -> QueueRecord \cup {None}]
        /\ queue'[k] = [queue[k] EXCEPT !.pending = FALSE]
        /\ \A j \in KeyIds \ {k} : queue'[j] = queue[j]
    BY <1>0, <2>1, <2>2
  <2>4. queue'[k] # None /\ queue'[k].op = queue[k].op
    BY <2>2, <2>3, NoneIsNoRecord
  <2>5. \A j \in KeyIds : \/ queue'[j] = queue[j]
                          \/ /\ queue[j] # None /\ queue'[j] # None
                             /\ queue'[j].op = queue[j].op
    BY <1>0, <2>3, <2>4
  <2>6. TypeOK'
    BY <1>0, <2>1, <2>3 DEF PipelineInvariant, TypeOK, RecordsTypeOK, CallsTypeOK,
       RunsTypeOK, recordVars
  <2>7. workload.version <= workload'.version
    BY <1>0 DEF PipelineInvariant, TypeOK, RecordsTypeOK, WorkloadRecord, recordVars
  <2> QED BY <1>0, <2>1, <2>5, <2>6, <2>7, Bystander DEF recordVars
<1> QED BY <1>2, <1>3

(* The step a run is at, taken one further.                                 *)
LEMMA RunProceeds ==
  ASSUME NEW r \in Runs, NEW step \in RunSteps, PipelineInvariant, Proceed(r, step)
  PROVE  /\ runs' \in [Runs -> RunRecord]
         /\ runs'[r].pc = step
         /\ runs'[r].op = runs[r].op /\ runs'[r].version = runs[r].version
         /\ \A s \in Runs \ {r} : runs'[s] = runs[s]
<1>0. runs \in [Runs -> RunRecord] /\ runs[r] \in RunRecord
  BY DEF PipelineInvariant, TypeOK, RunsTypeOK
<1>1. runs' = [runs EXCEPT ![r] = [runs[r] EXCEPT !.pc = step]]
  BY DEF Proceed
<1>2. [runs[r] EXCEPT !.pc = step] \in RunRecord
  BY <1>0, RunUpdated
<1> QED BY <1>0, <1>1, <1>2 DEF RunRecord

(* Both revalidations: a task that still stands goes on to the next step.   *)
LEMMA RevalidateStep ==
  ASSUME PipelineInvariant, UNCHANGED << stop, clock >>, NEW r \in Runs,
         RevalidateBuilt(r) \/ RevalidateDeploying(r)
  PROVE  PipelineInvariant'
<1> DEFINE o == runs[r].op
<1>0. /\ RunFacts(r) /\ binding \in BindingRecord \cup {None}
      /\ runs[r].pc \in {"built", "revalidate"}
      /\ UNCHANGED << recordVars, calls, runtime, deployingAt, applies >>
  BY DEF PipelineInvariant, TypeOK, RecordsTypeOK, RevalidateBuilt, RevalidateDeploying,
         Revalidate, At, otherThanQueue
<1>1. /\ applies[o] = 0 /\ runs[r].version >= 2 /\ o \in OpIds /\ tasks[o] # None
      /\ runs[r].pc # "idle"
  BY <1>0 DEF RunFacts, WorkingSteps, RunSteps
<1>2. CASE Answer(r)
  <2>1. UNCHANGED << recordVars, calls, runtime, deployingAt, applies, stop, clock >>
    BY <1>0
  <2> QED BY <1>1, <1>2, <2>1, RunStops
<1>3. CASE Conclude(r, "quarantined") /\ UNCHANGED queue
  BY <1>0, <1>1, <1>3, RunConcludes DEF TerminalOperationStates, recordVars
<1>4. CASE runs[r].pc = "built" /\ Proceed(r, "deploying") /\ UNCHANGED queue
  <2>1. /\ runs' \in [Runs -> RunRecord] /\ runs'[r].pc = "deploying"
        /\ runs'[r].op = runs[r].op /\ runs'[r].version = runs[r].version
        /\ \A s \in Runs \ {r} : runs'[s] = runs[s]
    BY <1>4, RunProceeds DEF RunSteps
  <2> QED BY <1>0, <1>1, <1>4, <2>1, RunGoesOn DEF recordVars
<1>5. CASE /\ runs[r].pc = "revalidate" /\ TaskStands(o)
           /\ Proceed(r, "apply") /\ UNCHANGED queue
  <2>1. /\ runs' \in [Runs -> RunRecord] /\ runs'[r].pc = "apply"
        /\ runs'[r].op = runs[r].op /\ runs'[r].version = runs[r].version
        /\ \A s \in Runs \ {r} : runs'[s] = runs[s]
    BY <1>5, RunProceeds DEF RunSteps
  <2>2. /\ tasks[o].material.version <= deployingAt[o]
        /\ deployingAt[o] <= workload.version
        /\ workload.version = tasks[o].material.version
    BY <1>0, <1>5 DEF RunFacts, TaskStands
  <2>3. deployingAt[o] \in Nat /\ workload.version \in Nat
    BY <1>1 DEF PipelineInvariant, TypeOK, RecordsTypeOK, RunsTypeOK, WorkloadRecord
  <2>4. deployingAt[o] = tasks[o].material.version
    BY <2>2, <2>3
  <2> QED BY <1>0, <1>1, <1>5, <2>1, <2>4, RunGoesOn DEF recordVars
<1> QED
  BY <1>2, <1>3, <1>4, <1>5 DEF RevalidateBuilt, RevalidateDeploying, Revalidate, At

(* The steps of a run that write neither the operation nor Cloud Run.       *)
LEMMA QuietRunStep ==
  ASSUME PipelineInvariant, UNCHANGED << stop, clock >>, NEW r \in Runs,
         \/ Preflight(r) \/ FetchUnavailable(r) \/ FetchDenied(r) \/ Build(r)
         \/ Health(r) \/ CrashRun(r)
  PROVE  PipelineInvariant'
<1>0. /\ RunFacts(r) /\ runs[r].pc # "idle" /\ binding \in BindingRecord \cup {None}
      /\ UNCHANGED << recordVars, calls, queue, runtime, deployingAt, applies >>
  BY DEF PipelineInvariant, TypeOK, RecordsTypeOK, Preflight, FetchUnavailable,
         FetchDenied, Build, Health, CrashRun, At, otherThanQueue
<1>1. CASE EndRun(r)
  BY <1>0, <1>1, RunStops
<1>2. CASE Conclude(r, "quarantined") \/ Conclude(r, "failed")
  BY <1>0, <1>2, RunConcludes DEF TerminalOperationStates, recordVars
<1>3. CASE runs[r].pc = "preflight" /\ Proceed(r, "fetch")
  <2>1. /\ runs' \in [Runs -> RunRecord] /\ runs'[r].pc = "fetch"
        /\ runs'[r].op = runs[r].op /\ runs'[r].version = runs[r].version
        /\ \A s \in Runs \ {r} : runs'[s] = runs[s]
    BY <1>3, RunProceeds DEF RunSteps
  <2>2. runs[r].version = 1
    BY <1>0, <1>3 DEF RunFacts
  <2> QED BY <1>0, <2>1, <2>2, RunGoesOn DEF recordVars, WorkingSteps
<1>4. CASE runs[r].pc = "build" /\ Proceed(r, "built")
  <2>1. /\ runs' \in [Runs -> RunRecord] /\ runs'[r].pc = "built"
        /\ runs'[r].op = runs[r].op /\ runs'[r].version = runs[r].version
        /\ \A s \in Runs \ {r} : runs'[s] = runs[s]
    BY <1>4, RunProceeds DEF RunSteps
  <2>2. applies[runs[r].op] = 0 /\ runs[r].version >= 2
    BY <1>0, <1>4 DEF RunFacts, WorkingSteps, RunSteps
  <2> QED BY <1>0, <2>1, <2>2, RunGoesOn DEF recordVars
<1>5. CASE runs[r].pc = "health" /\ Proceed(r, "bind")
  <2>1. /\ runs' \in [Runs -> RunRecord] /\ runs'[r].pc = "bind"
        /\ runs'[r].op = runs[r].op /\ runs'[r].version = runs[r].version
        /\ \A s \in Runs \ {r} : runs'[s] = runs[s]
    BY <1>5, RunProceeds DEF RunSteps
  <2>2. applies[runs[r].op] > 0 /\ runs[r].version >= 2
    BY <1>0, <1>5 DEF RunFacts, WorkingSteps, RunSteps
  <2> QED BY <1>0, <2>1, <2>2, RunGoesOn DEF recordVars
<1> QED
  BY <1>1, <1>2, <1>3, <1>4, <1>5 DEF Preflight, FetchUnavailable, FetchDenied, Build,
     Health, CrashRun, At

(* Reactivating the host.                                                   *)
LEMMA HostSaved ==
  ASSUME binding \in BindingRecord, NEW v \in Nat, NEW at \in Nat,
         SaveBinding(v, "active", at)
  PROVE  /\ binding' \in BindingRecord
         /\ binding'.version = binding.version + 1
         /\ binding'.at = at /\ binding.at <= at
         /\ binding'.down = binding.down
         /\ binding.state = "disabled"
<1>1. /\ binding.version = v
      /\ "active" \in BindingMoves[binding.state]
      /\ binding.at <= at
      /\ binding' = [binding EXCEPT !.state = "active", !.version = v + 1, !.at = at]
  BY DEF SaveBinding
<1>2. /\ binding.state \in BindingStates /\ "active" \in BindingStates
      /\ binding.down \in Nat
  BY DEF BindingRecord, BindingStates, BindingMoves
<1>3. binding.state = "disabled"
  BY <1>1, <1>2 DEF BindingStates, BindingMoves
<1>4. PICK h, b : h = binding /\ b = binding'
  OBVIOUS
<1>5. b = [h EXCEPT !.state = "active", !.version = v + 1, !.at = at] /\ h \in BindingRecord
  BY <1>1, <1>4
<1>6. b = [state |-> "active", version |-> v + 1, at |-> at, down |-> h.down]
  BY <1>5 DEF BindingRecord
<1>7. b \in BindingRecord
  BY <1>2, <1>5, <1>6 DEF BindingRecord
<1> QED BY <1>1, <1>3, <1>4, <1>6, <1>7

(* Publishing the host.                                                     *)
LEMMA HostStep ==
  ASSUME PipelineInvariant, UNCHANGED << stop, clock >>, NEW r \in Runs, Bind(r) \/ Rebind(r)
  PROVE  PipelineInvariant'
<1>0. /\ RunFacts(r) /\ runs[r].pc \in {"bind", "rebind"}
      /\ runs \in [Runs -> RunRecord] /\ runs[r] \in RunRecord
      /\ binding \in BindingRecord \cup {None}
      /\ UNCHANGED << otherThanBinding, queue, runtime, deployingAt, applies >>
  BY DEF PipelineInvariant, TypeOK, RecordsTypeOK, RunsTypeOK, Bind, Rebind, At
<1>1. runs[r].pc # "idle" /\ applies[runs[r].op] > 0 /\ runs[r].version >= 2
  BY <1>0 DEF RunFacts, WorkingSteps, RunSteps
<1>2. binding' \in BindingRecord \cup {None}
  <2>1. runs[r].host \in Nat /\ runs[r].start \in Nat
    BY <1>0 DEF RunRecord
  <2>2. CASE binding' = NewHost(runs[r].start)
    BY <2>1, <2>2 DEF NewHost, BindingRecord, BindingStates, BindingMoves
  <2>3. CASE binding # None /\ SaveBinding(runs[r].host, "active", runs[r].start)
    BY <1>0, <2>1, <2>3, HostSaved
  <2>4. CASE UNCHANGED binding
    BY <1>0, <2>4
  <2> QED BY <2>2, <2>3, <2>4 DEF Bind, Rebind
<1>3. \A t \in {"succeeded", "failed", "quarantined"} :
        Conclude(r, t) => PipelineInvariant'
  BY <1>0, <1>1, <1>2, RunConcludes DEF TerminalOperationStates, otherThanBinding
<1>4. CASE EndRun(r) /\ UNCHANGED binding
  BY <1>0, <1>1, <1>4, RunStops DEF otherThanBinding, recordVars
<1>5. CASE /\ binding # None /\ UNCHANGED binding
           /\ runs' = [runs EXCEPT ![r].pc = "rebind", ![r].host = binding.version]
  <2>1. binding.version \in Nat
    BY <1>0, <1>5 DEF BindingRecord
  <2>2. runs' = [runs EXCEPT ![r] = [runs[r] EXCEPT !.pc = "rebind",
                                                    !.host = binding.version]]
    BY <1>5
  <2>3. [runs[r] EXCEPT !.pc = "rebind", !.host = binding.version] \in RunRecord
    BY <1>0, <2>1, RunUpdated DEF RunSteps
  <2>4. /\ runs' \in [Runs -> RunRecord] /\ runs'[r].pc = "rebind"
        /\ runs'[r].op = runs[r].op /\ runs'[r].version = runs[r].version
        /\ \A s \in Runs \ {r} : runs'[s] = runs[s]
    BY <1>0, <2>2, <2>3 DEF RunRecord
  <2> QED BY <1>0, <1>1, <1>2, <2>4, RunGoesOn DEF otherThanBinding
<1> QED BY <1>3, <1>4, <1>5 DEF Bind, Rebind

----------------------------------------------------------------------------
(* The operation a run may write is held by no other run: a run at version  *)
(* 1 writes an operation at version 1, which nobody holds.                  *)
LEMMA SoleWriter ==
  ASSUME PipelineInvariant, NEW r \in Runs, runs[r].pc # "idle",
         OperationCurrent(runs[r].op, runs[r].version)
  PROVE  \A s \in Runs \ {r} : Holds(s) => runs[s].op # runs[r].op
<1> SUFFICES ASSUME NEW s \in Runs \ {r}, Holds(s), runs[s].op = runs[r].op
             PROVE  FALSE
  OBVIOUS
<1>1. operations[runs[s].op].version = runs[s].version /\ runs[s].version >= 2
  BY DEF PipelineInvariant, RunFacts, Holds
<1>2. Holds(r)
  BY <1>1 DEF OperationCurrent, Holds
<1> QED BY <1>2 DEF PipelineInvariant, OneHolder

(* A run moves its operation on.                                            *)
LEMMA OperationWritten ==
  ASSUME PipelineInvariant, NEW r \in Runs, runs[r].pc # "idle",
         NEW target, SaveOperation(runs[r].op, runs[r].version, target),
         UNCHANGED << otherThanOperations, runtime, applies, stop, clock >>,
         \/ UNCHANGED deployingAt
         \/ /\ applies[runs[r].op] = 0
            /\ deployingAt' = [deployingAt EXCEPT ![runs[r].op] = workload.version],
         runs' \in [Runs -> RunRecord],
         \A s \in Runs \ {r} : runs'[s] = runs[s],
         queue' \in [KeyIds -> QueueRecord \cup {None}],
         \A k \in KeyIds : \/ queue'[k] = queue[k]
                           \/ /\ queue[k] # None /\ queue'[k] # None
                              /\ queue'[k].op = queue[k].op,
         RunFacts(r)',
         Holds(r)' => runs'[r].op = runs[r].op
  PROVE  PipelineInvariant'
<1> DEFINE o == runs[r].op
           v == runs[r].version
<1>0. /\ operations \in [OpIds -> OperationRecord \cup {None}]
      /\ deployingAt \in [OpIds -> Nat] /\ workload.version \in Nat
      /\ RunFacts(r) /\ runs[r] \in RunRecord /\ v \in Nat /\ v >= 1
      /\ o \in OpIds /\ tasks[o] # None /\ Exists(o)
      /\ operations[o] \in OperationRecord /\ operations[o].version = v
      /\ target \in OperationMoves[operations[o].state]
      /\ operations' = [operations EXCEPT ![o].state = target, ![o].version = v + 1]
  <2>1. /\ operations \in [OpIds -> OperationRecord \cup {None}]
        /\ deployingAt \in [OpIds -> Nat] /\ workload.version \in Nat
        /\ RunFacts(r) /\ runs[r] \in RunRecord
    BY DEF PipelineInvariant, TypeOK, RecordsTypeOK, RunsTypeOK, WorkloadRecord
  <2>2. v \in Nat /\ v >= 1 /\ o \in OpIds /\ tasks[o] # None
    BY <2>1 DEF RunFacts, RunRecord
  <2>3. Exists(o)
    BY <2>2 DEF PipelineInvariant, TaskMatchesReview
  <2> QED BY <2>1, <2>2, <2>3 DEF SaveOperation, OperationCurrent, Exists
<1>1. /\ target \in OperationStates \ {"planned", "queued"}
  <2>1. operations[o].state \in OperationStates \ {"planned"}
    BY <1>0 DEF PipelineInvariant, OperationFacts, OperationRecord
  <2> QED BY <1>0, <2>1, OperationMovesForward
<1>2. /\ operations' \in [OpIds -> OperationRecord \cup {None}]
      /\ operations'[o] \in OperationRecord /\ operations'[o] # None
      /\ operations'[o].state = target /\ operations'[o].version = v + 1
      /\ operations'[o].actor = operations[o].actor
      /\ operations'[o].key = operations[o].key
      /\ operations'[o].material = operations[o].material
      /\ \A x \in OpIds \ {o} : operations'[x] = operations[x]
  <2>1. v + 1 \in Nat \ {0} /\ target \in OperationStates /\ operations[o] \in OperationRecord
    BY <1>0, <1>1
  <2>2. /\ operations' = [operations EXCEPT ![o] =
               [operations[o] EXCEPT !.state = target, !.version = v + 1]]
    BY <1>0
  <2>3. operations'[o] = [operations[o] EXCEPT !.state = target, !.version = v + 1]
    BY <1>0, <2>2
  <2> HIDE DEF v, o
  <2>4. /\ operations'[o] \in OperationRecord
        /\ operations'[o].state = target /\ operations'[o].version = v + 1
        /\ operations'[o].actor = operations[o].actor
        /\ operations'[o].key = operations[o].key
        /\ operations'[o].material = operations[o].material
    BY <2>1, <2>3 DEF OperationRecord
  <2>5. operations'[o] # None
    BY <2>4, NoneIsNoRecord
  <2> QED BY <1>0, <2>2, <2>4, <2>5
<1>3. TypeOK'
  <2>1. deployingAt' \in [OpIds -> Nat]
    BY <1>0
  <2> QED BY <1>2, <2>1 DEF PipelineInvariant, TypeOK, RecordsTypeOK, CallsTypeOK,
          RunsTypeOK, otherThanOperations
<1>4. RecordsGrow
  <2>1. workload.version <= workload'.version
    BY <1>0 DEF otherThanOperations
  <2> QED BY <1>2, <2>1 DEF RecordsGrow, Exists, otherThanOperations
<1>5. \A s \in Runs \ {r} : Undisturbed(s)
  <2>1. ASSUME NEW s \in Runs \ {r}, Holds(s)
        PROVE  /\ operations'[runs[s].op] = operations[runs[s].op]
               /\ deployingAt'[runs[s].op] = deployingAt[runs[s].op]
    <3>1. runs[s].op # o
      BY <2>1, SoleWriter DEF SaveOperation
    <3>2. runs[s].op \in OpIds
      BY <2>1 DEF PipelineInvariant, RunFacts, Holds
    <3> QED BY <1>0, <1>2, <3>1, <3>2
  <2> QED BY <2>1 DEF Undisturbed
<1>6. \A s \in Runs : RunFacts(s)'
  <2>1. TypeOK /\ \A s \in Runs : RunFacts(s)
    BY DEF PipelineInvariant
  <2> QED BY <1>3, <1>4, <1>5, <2>1, RunKept
<1>7. OneHolder'
  <2>1. \A s \in Runs \ {r} : Holds(s)' => Holds(s) /\ runs'[s].op = runs[s].op
    BY DEF Holds
  <2>2. \A s \in Runs \ {r} : Holds(s)' => runs'[s].op # runs[r].op
    BY <2>1, SoleWriter DEF SaveOperation
  <2> QED BY <2>1, <2>2 DEF PipelineInvariant, OneHolder
<1>8. \A c \in Calls : CallFacts(c)'
  <2>1. \A c \in Calls : CallFacts(c) /\ calls'[c] = calls[c]
    BY DEF PipelineInvariant, otherThanOperations
  <2> QED BY <1>4, <2>1, CallKept
<1>9. /\ \A x \in OpIds : Exists(x)' <=> Exists(x)
      /\ \A x \in OpIds : Exists(x) =>
           /\ operations'[x].actor = operations[x].actor
           /\ operations'[x].key = operations[x].key
           /\ operations'[x].material = operations[x].material
  BY <1>0, <1>2 DEF Exists
<1>10. PlanSpentOnce' /\ TaskMatchesReview'
  <2>1. PlanSpentOnce'
    BY <1>9 DEF PipelineInvariant, PlanSpentOnce, otherThanOperations
  <2>2. TaskMatchesReview'
    BY <1>9 DEF PipelineInvariant, TaskMatchesReview, otherThanOperations
  <2> QED BY <2>1, <2>2
<1>11. QueuedIsAudited'
  BY DEF PipelineInvariant, QueuedIsAudited, otherThanOperations
<1>12. AppliedOnceAndFenced'
  <2>1. ASSUME NEW x \in OpIds, applies[x] > 0
        PROVE  applies[x] = 1 /\ deployingAt'[x] = operations'[x].material.version
    <3>1. Exists(x)
      BY <2>1 DEF PipelineInvariant, LedgerFacts
    <3>2. deployingAt'[x] = deployingAt[x]
      BY <1>0, <2>1
    <3> QED BY <1>9, <2>1, <3>1, <3>2 DEF PipelineInvariant, AppliedOnceAndFenced
  <2> QED BY <2>1 DEF AppliedOnceAndFenced
<1>13. OperationFacts'
  <2>1. ASSUME NEW x \in OpIds, Exists(x)'
        PROVE  /\ operations'[x].state # "planned"
               /\ operations'[x].state = "queued" <=> operations'[x].version = 1
               /\ operations'[x].state = "queued" => applies[x] = 0
               /\ operations'[x].material.version <= workload.version
    <3>1. CASE x = o
      <4>1. operations[o].material.version <= workload.version
        BY <1>0 DEF PipelineInvariant, OperationFacts
      <4>2. v + 1 # 1
        BY <1>0
      <4> QED BY <1>1, <1>2, <3>1, <4>1, <4>2
    <3>2. CASE x # o
      BY <1>2, <1>9, <2>1, <3>2 DEF PipelineInvariant, OperationFacts
    <3> QED BY <3>1, <3>2
  <2> QED BY <2>1 DEF OperationFacts, otherThanOperations
<1>14. LedgerFacts'
  <2>1. \A p \in PlanIds : spent[p] # None => operations'[spent[p]] # None
    <3>1. \A p \in PlanIds : spent[p] # None => spent[p] \in OpIds
      BY DEF PipelineInvariant, TypeOK, RecordsTypeOK
    <3> QED BY <1>9, <3>1 DEF PipelineInvariant, LedgerFacts, Exists
  <2>2. ASSUME NEW a \in ActorIds, NEW k \in KeyIds, claims[a][k] # None
        PROVE  operations'[claims[a][k]] # None /\ operations'[claims[a][k]].key = k
    <3>1. claims[a][k] \in OpIds
      BY <2>2 DEF PipelineInvariant, TypeOK, RecordsTypeOK
    <3> QED BY <1>9, <2>2, <3>1 DEF PipelineInvariant, LedgerFacts, Exists
  <2> QED BY <1>9, <2>1, <2>2 DEF PipelineInvariant, LedgerFacts, Exists,
          otherThanOperations
<1>15. DeliveryFacts'
  <2>1. \A d \in Deliveries \ deliveryClaims : ~Exists(d)'
    BY <1>9 DEF PipelineInvariant, DeliveryFacts, OpIds
  <2> QED BY <2>1 DEF PipelineInvariant, DeliveryFacts, otherThanOperations
<1> QED
  BY <1>3, <1>6, <1>7, <1>8, <1>10, <1>11, <1>12, <1>13, <1>14, <1>15
     DEF PipelineInvariant

(* The three advances of a run along the operation table.                   *)
LEMMA AdvanceStep ==
  ASSUME PipelineInvariant, UNCHANGED << stop, clock >>, NEW r \in Runs,
         StartBuild(r) \/ StartDeploying(r) \/ StartVerifying(r)
  PROVE  PipelineInvariant'
<1> DEFINE o == runs[r].op
           v == runs[r].version
<1>0. /\ RunFacts(r) /\ runs \in [Runs -> RunRecord] /\ runs[r] \in RunRecord
      /\ runs[r].pc \in {"fetch", "deploying", "verifying"} /\ runs[r].pc # "idle"
      /\ UNCHANGED << otherThanOperations, runtime, applies, stop, clock >>
      /\ queue \in [KeyIds -> QueueRecord \cup {None}]
      /\ workload.version \in Nat /\ deployingAt \in [OpIds -> Nat]
  BY DEF PipelineInvariant, TypeOK, RunsTypeOK, CallsTypeOK, RecordsTypeOK,
         WorkloadRecord, StartBuild, StartDeploying, StartVerifying, At
<1>1. /\ o \in OpIds /\ tasks[o] # None /\ queue[tasks[o].key] # None
      /\ v \in Nat /\ v >= 1
      /\ runs[r].pc = "fetch" => v = 1
      /\ runs[r].pc = "deploying" => applies[o] = 0
      /\ runs[r].pc = "verifying" => applies[o] > 0
  BY <1>0 DEF RunFacts, RunRecord
<1>2. CASE ~OperationCurrent(o, v)
  <2>1. Answer(r) /\ UNCHANGED << operations, deployingAt >>
    BY <1>2 DEF StartBuild, StartDeploying, StartVerifying, Advance
  <2>2. UNCHANGED << recordVars, calls, runtime, deployingAt, applies, stop, clock >>
    BY <1>0, <2>1 DEF otherThanOperations, recordVars
  <2> QED BY <1>0, <2>1, <2>2, RunStops
<1>3. ASSUME OperationCurrent(o, v),
             NEW target \in InProgressOperationStates, NEW step \in RunSteps,
             Advance(r, target, step),
             step \notin {"idle", "preflight", "fetch", "apply", "finish"},
             step \in {"build", "built", "deploying", "revalidate"} => applies[o] = 0,
             step = "revalidate" =>
               deployingAt' = [deployingAt EXCEPT ![o] = workload.version],
             step # "revalidate" => UNCHANGED deployingAt,
             step \in {"verifying", "health", "bind", "rebind"} => applies[o] > 0
      PROVE  PipelineInvariant'
  <2>1. /\ SaveOperation(o, v, target)
        /\ runs' = [runs EXCEPT ![r].pc = step, ![r].version = v + 1]
        /\ UNCHANGED queue
    BY <1>3 DEF Advance
  <2>2. /\ runs' \in [Runs -> RunRecord]
        /\ runs'[r].pc = step /\ runs'[r].version = v + 1 /\ runs'[r].op = o
        /\ \A s \in Runs \ {r} : runs'[s] = runs[s]
    <3>1. runs' = [runs EXCEPT ![r] = [runs[r] EXCEPT !.pc = step, !.version = v + 1]]
      BY <2>1
    <3>2. v + 1 \in Nat
      BY <1>1
    <3>3. [runs[r] EXCEPT !.pc = step, !.version = v + 1] \in RunRecord
      BY <1>0, <3>2, RunUpdated
    <3>4. runs'[r] = [runs[r] EXCEPT !.pc = step, !.version = v + 1]
      BY <1>0, <3>1
    <3>5. runs'[r].pc = step /\ runs'[r].version = v + 1 /\ runs'[r].op = o
      BY <1>0, <3>4 DEF RunRecord
    <3> QED BY <1>0, <3>1, <3>3, <3>5
  <2>3. operations'[o].version = v + 1 /\ operations'[o].state = target
    <3>1. Exists(o)
      BY <1>1 DEF PipelineInvariant, TaskMatchesReview
    <3>2. operations[o] \in OperationRecord
      BY <1>1, <3>1 DEF PipelineInvariant, TypeOK, RecordsTypeOK, Exists
    <3>3. operations' = [operations EXCEPT ![o] =
            [operations[o] EXCEPT !.state = target, !.version = v + 1]]
      BY <2>1 DEF SaveOperation
    <3>4. operations \in [OpIds -> OperationRecord \cup {None}]
      BY DEF PipelineInvariant, TypeOK, RecordsTypeOK
    <3>5. operations'[o] = [operations[o] EXCEPT !.state = target, !.version = v + 1]
      BY <1>1, <3>3, <3>4
    <3> QED BY <3>2, <3>5 DEF OperationRecord
  <2>4. step = "revalidate" => /\ deployingAt'[o] = workload.version
                               /\ tasks[o].material.version <= workload.version
    <3>1. Exists(o) /\ tasks[o].material = operations[o].material
      BY <1>1 DEF PipelineInvariant, TaskMatchesReview
    <3>2. tasks[o].material.version <= workload.version
      BY <1>1, <3>1 DEF PipelineInvariant, OperationFacts
    <3> QED BY <1>0, <1>1, <1>3, <3>2
  <2>5. UNCHANGED << tasks, workload, applies >>
    BY <1>0 DEF otherThanOperations
  <2>6. RunFacts(r)'
    <3>1. v + 1 >= 2 /\ v + 1 >= 1
      BY <1>1
    <3>2. Holds(r)'
      BY <1>3, <2>2, <3>1 DEF Holds
    <3>3. step = "revalidate" =>
            /\ tasks'[o].material.version <= deployingAt'[o]
            /\ deployingAt'[o] <= workload'.version
      BY <1>0, <2>4, <2>5
    <3> HIDE DEF o, v
    <3> QED BY <1>1, <1>3, <2>1, <2>2, <2>3, <2>5, <3>1, <3>2, <3>3 DEF RunFacts
  <2>7. /\ queue' \in [KeyIds -> QueueRecord \cup {None}]
        /\ \A k \in KeyIds : queue'[k] = queue[k]
    BY <1>0, <2>1
  <2>8. \/ UNCHANGED deployingAt
        \/ /\ applies[o] = 0
           /\ deployingAt' = [deployingAt EXCEPT ![o] = workload.version]
    BY <1>3
  <2> QED BY <1>0, <2>1, <2>2, <2>6, <2>7, <2>8, OperationWritten
<1>4. CASE OperationCurrent(o, v)
  <2>1. CASE StartBuild(r)
    <3>1. Advance(r, "building", "build") /\ UNCHANGED deployingAt /\ runs[r].pc = "fetch"
      BY <2>1 DEF StartBuild, At
    <3>2. applies[o] = 0
      <4>1. operations[o].version = 1 /\ Exists(o)
        BY <1>1, <1>4, <3>1 DEF OperationCurrent, PipelineInvariant, TaskMatchesReview
      <4> QED BY <1>1, <4>1 DEF PipelineInvariant, OperationFacts
    <3> QED BY <1>3, <1>4, <3>1, <3>2 DEF RunSteps, InProgressOperationStates
  <2>2. CASE StartDeploying(r)
    <3>1. /\ Advance(r, "deploying", "revalidate") /\ runs[r].pc = "deploying"
          /\ deployingAt' = [deployingAt EXCEPT ![o] = workload.version]
      BY <1>4, <2>2 DEF StartDeploying, At
    <3> QED BY <1>1, <1>3, <1>4, <3>1 DEF RunSteps, InProgressOperationStates
  <2>3. CASE StartVerifying(r)
    <3>1. /\ Advance(r, "verifying", "health") /\ UNCHANGED deployingAt
          /\ runs[r].pc = "verifying"
      BY <2>3 DEF StartVerifying, At
    <3> QED BY <1>1, <1>3, <1>4, <3>1 DEF RunSteps, InProgressOperationStates
  <2> QED BY <2>1, <2>2, <2>3
<1> QED BY <1>2, <1>4

LEMMA FinishStep ==
  ASSUME PipelineInvariant, UNCHANGED << stop, clock >>, NEW r \in Runs, Finish(r)
  PROVE  PipelineInvariant'
<1> DEFINE o == runs[r].op
           v == runs[r].version
<1>0. /\ RunFacts(r) /\ TypeOK /\ runs \in [Runs -> RunRecord]
      /\ runs[r].pc # "idle" /\ Answer(r)
      /\ UNCHANGED << otherThanOperations, runtime, deployingAt, applies, stop, clock >>
  BY DEF PipelineInvariant, TypeOK, RunsTypeOK, Finish, At
<1>1. CASE UNCHANGED operations
  <2>1. UNCHANGED << recordVars, calls, runtime, deployingAt, applies, stop, clock >>
    BY <1>0, <1>1 DEF otherThanOperations, recordVars
  <2> QED BY <1>0, <2>1, RunStops
<1>2. CASE SaveOperation(o, v, runs[r].target)
  <2>1. runs' = [runs EXCEPT ![r] = IdleRun]
    BY <1>0 DEF Answer, EndRun
  <2>2. /\ runs' \in [Runs -> RunRecord] /\ runs'[r].pc = "idle"
        /\ \A s \in Runs \ {r} : runs'[s] = runs[s]
    BY <1>0, <2>1 DEF IdleRun, RunRecord, RunSteps
  <2>3. RunFacts(r)' /\ ~Holds(r)'
    BY <2>2 DEF RunFacts, Holds, WorkingSteps
  <2>4. /\ queue' \in [KeyIds -> QueueRecord \cup {None}]
        /\ \A k \in KeyIds : \/ queue'[k] = queue[k]
                             \/ /\ queue[k] # None /\ queue'[k] # None
                                /\ queue'[k].op = queue[k].op
    BY <1>0, AnsweredQueue
  <2>5. UNCHANGED << otherThanOperations, runtime, applies, stop, clock >> /\ UNCHANGED deployingAt
    BY <1>0
  <2> QED BY <1>0, <1>2, <2>2, <2>3, <2>4, <2>5, OperationWritten
<1> QED BY <1>1, <1>2 DEF Finish

(* The write to Cloud Run: the first one for its operation, by the run that *)
(* holds the operation, at the version the operation was reviewed for.      *)
LEMMA ApplyStep ==
  ASSUME PipelineInvariant, UNCHANGED << stop, clock >>, NEW r \in Runs, Apply(r)
  PROVE  PipelineInvariant'
<1> DEFINE o == runs[r].op
<1>0. /\ RunFacts(r) /\ runs \in [Runs -> RunRecord] /\ runs[r] \in RunRecord
      /\ runs[r].pc = "apply" /\ runs[r].pc # "idle"
      /\ applies \in [OpIds -> Nat] /\ deployingAt \in [OpIds -> Nat]
      /\ binding \in BindingRecord \cup {None}
      /\ UNCHANGED << recordVars, calls, queue, deployingAt, stop, clock >>
  BY DEF PipelineInvariant, TypeOK, RunsTypeOK, RecordsTypeOK, Apply, At, otherThanQueue
<1>1. /\ o \in OpIds /\ tasks[o] # None /\ queue[tasks[o].key] # None
      /\ runs[r].version \in Nat /\ runs[r].version >= 2 /\ Holds(r)
      /\ applies[o] = 0 /\ deployingAt[o] = tasks[o].material.version
      /\ operations[o].version = runs[r].version
      /\ operations[o].state \in InProgressOperationStates
  BY <1>0 DEF RunFacts, RunRecord, Holds, WorkingSteps, RunSteps
<1>2. Exists(o) /\ tasks[o].material = operations[o].material
  BY <1>1 DEF PipelineInvariant, TaskMatchesReview
<1>3. CASE UNCHANGED << runtime, applies >> /\ Conclude(r, "failed")
  BY <1>0, <1>3, RunConcludes DEF TerminalOperationStates, recordVars
<1>4. CASE /\ runtime' = o
           /\ applies' = [applies EXCEPT ![o] = applies[o] + 1]
           /\ Proceed(r, "verifying") \/ Conclude(r, "failed")
  <2>1. /\ applies' \in [OpIds -> Nat] /\ applies'[o] = 1
        /\ \A x \in OpIds \ {o} : applies'[x] = applies[x]
    BY <1>0, <1>1, <1>4
  <2>2. /\ runs' \in [Runs -> RunRecord]
        /\ runs'[r].op = o /\ runs'[r].version = runs[r].version
        /\ \/ runs'[r].pc = "verifying"
           \/ runs'[r].pc = "finish" /\ runs'[r].target = "failed"
        /\ \A s \in Runs \ {r} : runs'[s] = runs[s]
    <3>1. CASE Proceed(r, "verifying")
      BY <3>1, RunProceeds DEF RunSteps
    <3>2. CASE Conclude(r, "failed")
      <4>1. runs' = [runs EXCEPT ![r] = [runs[r] EXCEPT !.pc = "finish",
                                                        !.target = "failed"]]
        BY <3>2 DEF Conclude
      <4>2. [runs[r] EXCEPT !.pc = "finish", !.target = "failed"] \in RunRecord
        BY <1>0, RunUpdated DEF RunSteps, OperationStates, OperationMoves
      <4>3. /\ runs'[r] = [runs[r] EXCEPT !.pc = "finish", !.target = "failed"]
            /\ \A s \in Runs \ {r} : runs'[s] = runs[s]
            /\ runs' \in [Runs -> RunRecord]
        BY <1>0, <4>1, <4>2
      <4> QED BY <1>0, <4>3 DEF RunRecord
    <3> QED BY <1>4, <3>1, <3>2
  <2>3. TypeOK'
    BY <1>0, <1>1, <1>4, <2>1, <2>2 DEF PipelineInvariant, TypeOK, RecordsTypeOK,
       CallsTypeOK, RunsTypeOK, recordVars
  <2>4. RecordsGrow
    <3>1. workload.version <= workload'.version
      BY <1>0 DEF PipelineInvariant, TypeOK, RecordsTypeOK, WorkloadRecord, recordVars
    <3> QED BY <1>0, <3>1 DEF RecordsGrow, Exists, recordVars
  <2>5. UNCHANGED << plans, operations, tasks, workload, claims, spent, taskKey,
                     deliveryClaims, audited >>
    BY <1>0 DEF recordVars
  <2>6. \A s \in Runs \ {r} : RunFacts(s)'
    <3>1. ASSUME NEW s \in Runs \ {r} PROVE Undisturbed(s)
      <4>1. \A x \in OpIds : applies[x] > 0 => applies'[x] > 0
        BY <1>1, <2>1
      <4>2. Holds(s) => runs[s].op # o /\ runs[s].op \in OpIds
        BY <1>1 DEF PipelineInvariant, OneHolder, RunFacts, Holds
      <4> QED BY <1>0, <2>1, <2>5, <4>1, <4>2 DEF Undisturbed
    <3>2. TypeOK /\ \A s \in Runs : RunFacts(s)
      BY DEF PipelineInvariant
    <3> QED BY <2>2, <2>3, <2>4, <3>1, <3>2, RunKept
  <2>7. RunFacts(r)'
    <3>1. Holds(r)' <=> TRUE
      BY <1>1, <2>2 DEF Holds
    <3>2. "failed" \in TerminalOperationStates
      BY DEF TerminalOperationStates
    <3>3. /\ o \in OpIds /\ tasks'[o] # None /\ queue'[tasks'[o].key] # None
          /\ runs'[r].version >= 2 /\ runs'[r].version >= 1
          /\ operations'[o].version = runs'[r].version
          /\ operations'[o].state \in InProgressOperationStates
          /\ applies'[o] > 0
      BY <1>0, <1>1, <2>1, <2>2, <2>5
    <3> HIDE DEF o
    <3> QED BY <2>2, <3>1, <3>2, <3>3 DEF RunFacts
  <2>8. OneHolder'
    <3>1. \A s \in Runs : Holds(s)' => Holds(s) /\ runs'[s].op = runs[s].op
      BY <1>1, <2>2 DEF Holds
    <3> QED BY <3>1 DEF PipelineInvariant, OneHolder
  <2>9. \A c \in Calls : CallFacts(c)'
    <3>1. \A c \in Calls : CallFacts(c) /\ calls'[c] = calls[c]
      BY <1>0 DEF PipelineInvariant
    <3> QED BY <2>4, <3>1, CallKept
  <2>10. AppliedOnceAndFenced'
    <3>1. ASSUME NEW x \in OpIds, applies'[x] > 0
          PROVE  applies'[x] = 1 /\ deployingAt[x] = operations[x].material.version
      <4>1. CASE x = o
        BY <1>1, <1>2, <2>1, <4>1
      <4>2. CASE x # o
        BY <2>1, <3>1, <4>2 DEF PipelineInvariant, AppliedOnceAndFenced
      <4> QED BY <4>1, <4>2
    <3> QED BY <1>0, <2>5, <3>1 DEF AppliedOnceAndFenced
  <2>11. OperationFacts'
    <3>1. operations[o].state # "queued"
      BY <1>1 DEF InProgressOperationStates
    <3>2. \A x \in OpIds : Exists(x) /\ operations[x].state = "queued" => applies'[x] = 0
      BY <2>1, <3>1 DEF PipelineInvariant, OperationFacts
    <3> QED BY <2>5, <3>2 DEF PipelineInvariant, OperationFacts, Exists
  <2>12. LedgerFacts'
    <3>1. \A x \in OpIds : ~Exists(x) => applies'[x] = 0
      BY <1>2, <2>1 DEF PipelineInvariant, LedgerFacts
    <3> QED BY <2>5, <3>1 DEF PipelineInvariant, LedgerFacts, Exists
  <2>13. PlanSpentOnce' /\ TaskMatchesReview' /\ QueuedIsAudited' /\ DeliveryFacts'
    BY <1>0, <2>5 DEF PipelineInvariant, PlanSpentOnce, TaskMatchesReview,
       QueuedIsAudited, DeliveryFacts, Exists
  <2> QED
    BY <2>2, <2>3, <2>6, <2>7, <2>8, <2>9, <2>10, <2>11, <2>12, <2>13
       DEF PipelineInvariant
<1> QED BY <1>3, <1>4 DEF Apply

----------------------------------------------------------------------------
LEMMA RestPreserves ==
  ASSUME PipelineInvariant, UNCHANGED vars
  PROVE  PipelineInvariant'
<1>1. TypeOK'
  BY DEF PipelineInvariant, TypeOK, RecordsTypeOK, CallsTypeOK, RunsTypeOK, vars,
         recordVars, callVars, runVars
<1>2. workload.version <= workload'.version
  BY DEF PipelineInvariant, TypeOK, RecordsTypeOK, WorkloadRecord, vars, recordVars
<1> QED BY <1>1, <1>2, Bystander DEF vars, recordVars, callVars, runVars

(* Every step of the pipeline preserves the invariant.                      *)
LEMMA StepPreserves ==
  ASSUME PipelineInvariant, [Next]_vars
  PROVE  PipelineInvariant'
<1>1. CASE UNCHANGED vars
  BY <1>1, RestPreserves
<1>2. CASE CallsNext /\ UNCHANGED << runVars, stop, clock >>
  <2>1. ASSUME NEW a \in Actors, NEW p \in Plans, PlanDeploy(a, p)
        PROVE  PipelineInvariant'
    BY <1>2, <2>1, PlanDeployStep
  <2>2. ASSUME NEW p \in Plans, PlanExpires(p) PROVE PipelineInvariant'
    BY <1>2, <2>2, MaintenanceStep
  <2>3. ASSUME NEW c \in Calls, NEW p \in Plans, NEW k \in Keys, DeployFromPlan(c, p, k)
        PROVE  PipelineInvariant'
    BY <1>2, <2>3, PlanRequestReads
  <2>4. ASSUME NEW c \in Calls, NEW d \in Deliveries, ReceivePush(c, d)
        PROVE  PipelineInvariant'
    BY <1>2, <2>4, PushReads
  <2>5. ASSUME NEW c \in Calls, CrashCall(c) PROVE PipelineInvariant'
    BY <1>2, <2>5, PlanRequestReads
  <2>6. ASSUME NEW c \in Calls, CallStep(c) PROVE PipelineInvariant'
    <3>1. CASE \/ ReplayPlan(c) \/ LookupTask(c) \/ Review(c) \/ DenyReview(c)
               \/ CommitReplay(c) \/ DenyTask(c) \/ DenyAdvance(c)
      BY <1>2, <3>1, PlanRequestReads
    <3>2. ASSUME NEW o \in Ops, CommitPlan(c, o) PROVE PipelineInvariant'
      BY <1>2, <3>2, CommitPlanStep
    <3>3. CASE CreateTask(c)
      BY <1>2, <3>3, CreateTaskStep
    <3>4. CASE Audit(c) \/ Enqueue(c)
      BY <1>2, <3>4, AuditStep, EnqueueStep
    <3>5. CASE AdvanceSource(c)
      BY <1>2, <3>5, AdvanceSourceStep
    <3>6. CASE ReplayAdvance(c)
      BY <1>2, <3>6, PushReads
    <3> QED BY <2>6, <3>1, <3>2, <3>3, <3>4, <3>5, <3>6 DEF CallStep
  <2> QED BY <1>2, <2>1, <2>2, <2>3, <2>4, <2>5, <2>6 DEF CallsNext
<1>3. CASE RunsNext /\ UNCHANGED << stop, clock >>
  <2>1. ASSUME NEW r \in Runs, NEW k \in KeyIds, Deliver(r, k) PROVE PipelineInvariant'
    BY <1>3, <2>1, DeliverStep
  <2>2. ASSUME NEW r \in Runs, FetchUnavailable(r) \/ CrashRun(r)
        PROVE  PipelineInvariant'
    BY <1>3, <2>2, QuietRunStep
  <2>3. ASSUME NEW r \in Runs, RunStep(r) PROVE PipelineInvariant'
    <3>1. CASE Preflight(r) \/ FetchDenied(r) \/ Build(r) \/ Health(r)
      BY <1>3, <3>1, QuietRunStep
    <3>2. CASE StartBuild(r) \/ StartDeploying(r) \/ StartVerifying(r)
      BY <1>3, <3>2, AdvanceStep
    <3>3. CASE RevalidateBuilt(r) \/ RevalidateDeploying(r)
      BY <1>3, <3>3, RevalidateStep
    <3>4. CASE Apply(r)
      BY <1>3, <3>4, ApplyStep
    <3>5. CASE Bind(r) \/ Rebind(r)
      BY <1>3, <3>5, HostStep
    <3>6. CASE Finish(r)
      BY <1>3, <3>6, FinishStep
    <3> QED BY <2>3, <3>1, <3>2, <3>3, <3>4, <3>5, <3>6 DEF RunStep
  <2> QED BY <1>3, <2>1, <2>2, <2>3 DEF RunsNext
<1>4. CASE EnvironmentNext \/ StopNext \/ \E k \in KeyIds : ExhaustTask(k)
  BY <1>4, MaintenanceStep
<1> QED BY <1>1, <1>2, <1>3, <1>4 DEF Next

(* Reachable states satisfy the inductive invariant of the deployment path: *)
(* what the store, the requests and the runs of the worker agree on between *)
(* any two steps of any of them (services/deployments.py, workers/deploy.py)*)
THEOREM PipelineInvariantHolds == Spec => []PipelineInvariant
<1>1. Init => PipelineInvariant
  BY Initially
<1>2. PipelineInvariant /\ [Next]_vars => PipelineInvariant'
  BY StepPreserves
<1> QED BY <1>1, <1>2, PTL DEF Spec

(* Every record of the deployment path stays well typed: no step stores a   *)
(* state outside the tables of domain/states.py or a version below 1.       *)
THEOREM TypesHold == Spec => []TypeOK
<1>1. PipelineInvariant => TypeOK
  BY DEF PipelineInvariant
<1> QED BY <1>1, PipelineInvariantHolds, PTL

(* A reviewed plan is spent on one operation, by its own actor and for its  *)
(* own material (consume_deployment_plan_with_operation and                 *)
(* apply_github_auto_deploy_once), whatever races, replays or is repaired.  *)
THEOREM PlansAreSpentOnce == Spec => []PlanSpentOnce
<1>1. PipelineInvariant => PlanSpentOnce
  BY DEF PipelineInvariant
<1> QED BY <1>1, PipelineInvariantHolds, PTL

(* A queued task carries the material its plan was reviewed for, and its    *)
(* two indexes agree (create_deploy_task_once and the repair branch).       *)
THEOREM TasksMatchTheirReview == Spec => []TaskMatchesReview
<1>1. PipelineInvariant => TaskMatchesReview
  BY DEF PipelineInvariant
<1> QED BY <1>1, PipelineInvariantHolds, PTL

(* Whatever the queue may deliver is durable, indexed under its key, and    *)
(* was audited first (deploy_from_plan, CloudTasksDeploymentQueue.enqueue). *)
THEOREM QueuedTasksAreAudited == Spec => []QueuedIsAudited
<1>1. PipelineInvariant => QueuedIsAudited
  BY DEF PipelineInvariant
<1> QED BY <1>1, PipelineInvariantHolds, PTL

(* However many deliveries of one task are in progress, at most one run is  *)
(* past the build claim: _advance in workers/deploy.py is an election.      *)
THEOREM OneRunWorks == Spec => []OneRunPerOperation
<1>1. ASSUME PipelineInvariant, NEW r \in Runs, runs[r].pc \in WorkingSteps
      PROVE  Holds(r)
  BY <1>1 DEF PipelineInvariant, RunFacts, Holds, WorkingSteps
<1>2. PipelineInvariant => OneRunPerOperation
  BY <1>1 DEF PipelineInvariant, OneHolder, OneRunPerOperation
<1> QED BY <1>2, PipelineInvariantHolds, PTL

(* Cloud Run is written at most once for an operation, and only if nothing  *)
(* had touched the workload record between its review and the moment the    *)
(* operation became "deploying" (_revalidate_before_runtime).               *)
THEOREM AppliesAreFenced == Spec => []AppliedOnceAndFenced
<1>1. PipelineInvariant => AppliedOnceAndFenced
  BY DEF PipelineInvariant
<1> QED BY <1>1, PipelineInvariantHolds, PTL

----------------------------------------------------------------------------
(* Who writes the workload record, and who writes the host.                 *)
LEMMA Writers ==
  ASSUME Next
  PROVE  /\ \/ UNCHANGED workload
            \/ RecordActivity \/ SaveStopped
            \/ \E c \in Calls : AdvanceSource(c)
         /\ \/ UNCHANGED binding
            \/ DisableHost \/ RetireHost
            \/ \E r \in Runs : Bind(r) \/ Rebind(r)
<1>1. CASE CallsNext
  <2>1. ASSUME NEW a \in Actors, NEW p \in Plans, PlanDeploy(a, p)
        PROVE  UNCHANGED << workload, binding >>
    BY <2>1 DEF PlanDeploy
  <2>2. ASSUME NEW p \in Plans, PlanExpires(p) PROVE UNCHANGED << workload, binding >>
    BY <2>2 DEF PlanExpires
  <2>3. ASSUME NEW c \in Calls, NEW p \in Plans, NEW k \in Keys, DeployFromPlan(c, p, k)
        PROVE  UNCHANGED << workload, binding >>
    BY <2>3 DEF DeployFromPlan, recordVars
  <2>4. ASSUME NEW c \in Calls, NEW d \in Deliveries, ReceivePush(c, d)
        PROVE  UNCHANGED << workload, binding >>
    BY <2>4 DEF ReceivePush, recordVars
  <2>5. ASSUME NEW c \in Calls, CrashCall(c) PROVE UNCHANGED << workload, binding >>
    BY <2>5 DEF CrashCall, recordVars
  <2>6. ASSUME NEW c \in Calls, CallStep(c), ~AdvanceSource(c)
        PROVE  UNCHANGED << workload, binding >>
    <3>1. CASE \/ ReplayPlan(c) \/ LookupTask(c) \/ Review(c) \/ DenyReview(c)
               \/ CommitReplay(c) \/ DenyTask(c) \/ DenyAdvance(c) \/ Enqueue(c)
               \/ ReplayAdvance(c)
      BY <3>1 DEF ReplayPlan, LookupTask, Review, DenyReview, CommitReplay, DenyTask,
         DenyAdvance, Enqueue, ReplayAdvance, recordVars
    <3>2. CASE (\E o \in Ops : CommitPlan(c, o)) \/ CreateTask(c) \/ Audit(c)
      BY <3>2 DEF CommitPlan, CreateTask, Audit
    <3> QED BY <2>6, <3>1, <3>2 DEF CallStep
  <2>7. ASSUME NEW c \in Calls, AdvanceSource(c) PROVE UNCHANGED binding
    BY <2>7 DEF AdvanceSource
  <2> QED BY <1>1, <2>1, <2>2, <2>3, <2>4, <2>5, <2>6, <2>7 DEF CallsNext
<1>2. CASE RunsNext
  <2>1. ASSUME NEW r \in Runs, NEW k \in KeyIds, Deliver(r, k)
        PROVE  UNCHANGED << workload, binding >>
    BY <2>1 DEF Deliver, otherThanQueue, recordVars
  <2>2. ASSUME NEW r \in Runs, RunStep(r) \/ FetchUnavailable(r) \/ CrashRun(r)
        PROVE  UNCHANGED workload /\ (UNCHANGED binding \/ Bind(r) \/ Rebind(r))
    <3>1. CASE \/ Preflight(r) \/ FetchUnavailable(r) \/ FetchDenied(r) \/ Build(r)
               \/ RevalidateBuilt(r) \/ RevalidateDeploying(r) \/ Health(r)
               \/ CrashRun(r) \/ Apply(r)
      BY <3>1 DEF Preflight, FetchUnavailable, FetchDenied, Build, RevalidateBuilt,
         RevalidateDeploying, Revalidate, Health, CrashRun, Apply, otherThanQueue,
         recordVars
    <3>2. CASE StartBuild(r) \/ StartDeploying(r) \/ StartVerifying(r) \/ Finish(r)
      BY <3>2 DEF StartBuild, StartDeploying, StartVerifying, Finish, otherThanOperations
    <3>3. CASE Bind(r) \/ Rebind(r)
      BY <3>3 DEF Bind, Rebind, otherThanBinding
    <3> QED BY <2>2, <3>1, <3>2, <3>3 DEF RunStep
  <2> QED BY <1>2, <2>1, <2>2 DEF RunsNext
<1>3. CASE EnvironmentNext \/ StopNext
  BY <1>3 DEF EnvironmentNext, StopNext, RecordActivity, ChangeOwner, Tick, BeginStop,
     DisableHost, DeleteService, RetireHost, SaveStopped, AbandonStop, recordVars,
     otherThanWorkload
<1>4. ASSUME NEW k \in KeyIds, ExhaustTask(k) PROVE UNCHANGED << workload, binding >>
  BY <1>4 DEF ExhaustTask, recordVars
<1> QED BY <1>1, <1>2, <1>3, <1>4 DEF Next

(* What a step may do to a run: nothing, end it, take it on with the times  *)
(* it has, begin it, or let it read the host.                               *)
RunKeepsItsTimes(r) ==
  /\ runs'[r].start = runs[r].start
  /\ runs'[r].began = runs[r].began
  /\ runs'[r].pc # "rebind"

LEMMA RunWriters ==
  ASSUME TypeOK, Next, NEW s \in Runs
  PROVE  \/ runs'[s] = runs[s]
         \/ runs'[s] = IdleRun
         \/ RunKeepsItsTimes(s)
         \/ \E k \in KeyIds : Deliver(s, k)
         \/ Bind(s) /\ UNCHANGED binding
<1>0. runs \in [Runs -> RunRecord]
  BY DEF TypeOK, RunsTypeOK
<1>1. ASSUME NEW r \in Runs, EndRun(r) PROVE runs'[s] = runs[s] \/ runs'[s] = IdleRun
  BY <1>0, <1>1 DEF EndRun
<1>2. ASSUME NEW r \in Runs, NEW step \in RunSteps \ {"rebind"}, Proceed(r, step)
      PROVE  runs'[s] = runs[s] \/ RunKeepsItsTimes(s)
  <2>1. runs' = [runs EXCEPT ![r] = [runs[r] EXCEPT !.pc = step]]
    BY <1>2 DEF Proceed
  <2> QED BY <1>0, <2>1 DEF RunRecord, RunKeepsItsTimes
<1>3. ASSUME NEW r \in Runs, NEW target, Conclude(r, target)
      PROVE  runs'[s] = runs[s] \/ RunKeepsItsTimes(s)
  <2>1. runs' = [runs EXCEPT ![r] = [runs[r] EXCEPT !.pc = "finish", !.target = target]]
    BY <1>3 DEF Conclude
  <2> QED BY <1>0, <2>1 DEF RunRecord, RunKeepsItsTimes
<1>4. ASSUME NEW r \in Runs, NEW step \in RunSteps \ {"rebind"}, NEW target,
             Advance(r, target, step)
      PROVE  runs'[s] = runs[s] \/ runs'[s] = IdleRun \/ RunKeepsItsTimes(s)
  <2>1. CASE Answer(r)
    BY <1>1, <2>1 DEF Answer
  <2>2. CASE runs' = [runs EXCEPT ![r].pc = step, ![r].version = runs[r].version + 1]
    <3>1. runs' = [runs EXCEPT ![r] = [runs[r] EXCEPT !.pc = step,
                                                      !.version = runs[r].version + 1]]
      BY <2>2
    <3> QED BY <1>0, <3>1 DEF RunRecord, RunKeepsItsTimes
  <2> QED BY <1>4, <2>1, <2>2 DEF Advance
<1>5. CASE CallsNext /\ UNCHANGED << runVars, stop, clock >>
  BY <1>5 DEF runVars
<1>6. CASE EnvironmentNext \/ StopNext
  BY <1>6 DEF EnvironmentNext, StopNext, RecordActivity, ChangeOwner, Tick, BeginStop,
     DisableHost, DeleteService, RetireHost, SaveStopped, AbandonStop, otherThanWorkload,
     runVars
<1>7. ASSUME NEW k \in KeyIds, ExhaustTask(k) PROVE runs'[s] = runs[s]
  BY <1>7 DEF ExhaustTask, runVars
<1>8. ASSUME NEW r \in Runs, NEW k \in KeyIds, Deliver(r, k)
      PROVE  runs'[s] = runs[s] \/ (r = s /\ Deliver(s, k))
  BY <1>0, <1>8 DEF Deliver
<1>9. ASSUME NEW r \in Runs, RunStep(r) \/ FetchUnavailable(r) \/ CrashRun(r)
      PROVE  \/ runs'[s] = runs[s] \/ runs'[s] = IdleRun \/ RunKeepsItsTimes(s)
             \/ Bind(s) /\ UNCHANGED binding
  <2>0. /\ {"fetch", "built", "deploying", "apply", "verifying", "bind", "build",
             "revalidate", "health"} \subseteq RunSteps \ {"rebind"}
    BY DEF RunSteps
  <2>1. CASE Preflight(r) \/ FetchUnavailable(r) \/ FetchDenied(r) \/ Build(r)
             \/ Health(r) \/ CrashRun(r) \/ Apply(r)
    BY <1>1, <1>2, <1>3, <2>0, <2>1 DEF Preflight, FetchUnavailable, FetchDenied, Build,
       Health, CrashRun, Apply
  <2>2. CASE RevalidateBuilt(r) \/ RevalidateDeploying(r)
    BY <1>1, <1>2, <1>3, <2>0, <2>2 DEF RevalidateBuilt, RevalidateDeploying, Revalidate,
       Answer
  <2>3. CASE StartBuild(r) \/ StartDeploying(r) \/ StartVerifying(r)
    BY <1>4, <2>0, <2>3 DEF StartBuild, StartDeploying, StartVerifying
  <2>4. CASE Finish(r)
    BY <1>1, <2>4 DEF Finish, Answer
  <2>5. CASE Rebind(r)
    BY <1>1, <1>3, <2>5 DEF Rebind
  <2>6. CASE Bind(r)
    <3>1. CASE \E target \in OperationStates : Conclude(r, target)
      BY <1>3, <3>1
    <3>2. CASE /\ UNCHANGED binding
               /\ runs' = [runs EXCEPT ![r].pc = "rebind", ![r].host = binding.version]
      BY <1>0, <2>6, <3>2
    <3>3. {"failed", "succeeded", "quarantined"} \subseteq OperationStates
      BY DEF OperationStates, OperationMoves
    <3> QED BY <2>6, <3>1, <3>2, <3>3 DEF Bind
  <2> QED BY <1>9, <2>1, <2>2, <2>3, <2>4, <2>5, <2>6 DEF RunStep
<1> QED BY <1>5, <1>6, <1>7, <1>8, <1>9 DEF Next, RunsNext

(* What a step may do to the host: create it, write one that exists, which  *)
(* takes it down, or reactivate it for a run that read it.                  *)
LEMMA HostMoves ==
  ASSUME PipelineInvariant, HostStamps, Next, binding' # binding
  PROVE  \/ /\ binding = None
            /\ \E r \in Runs : Bind(r) /\ binding' = NewHost(runs[r].start)
         \/ /\ binding \in BindingRecord /\ binding' \in BindingRecord
            /\ binding'.version = binding.version + 1
            /\ \/ /\ binding'.state # "active"
                  /\ \/ binding'.at = binding.at /\ binding'.down = binding.down
                     \/ \E now \in Readings : binding'.at = now /\ binding'.down = clock
               \/ \E r \in Runs : /\ Rebind(r)
                                  /\ binding.at <= runs[r].start
                                  /\ binding'.at = runs[r].start
                                  /\ binding'.down = binding.down
<1>0. TypeOK /\ binding \in BindingRecord \cup {None} /\ runs \in [Runs -> RunRecord]
  BY DEF PipelineInvariant, TypeOK, RecordsTypeOK, RunsTypeOK
<1>1. CASE DisableHost \/ RetireHost
  BY <1>0, <1>1, HostTaken
<1>2. ASSUME NEW r \in Runs, Bind(r)
      PROVE  binding = None /\ binding' = NewHost(runs[r].start)
  BY <1>2 DEF Bind
<1>3. ASSUME NEW r \in Runs, Rebind(r)
      PROVE  /\ binding \in BindingRecord /\ binding' \in BindingRecord
             /\ binding'.version = binding.version + 1
             /\ binding.at <= runs[r].start
             /\ binding'.at = runs[r].start
             /\ binding'.down = binding.down
  <2>1. binding # None /\ SaveBinding(runs[r].host, "active", runs[r].start)
    BY <1>3 DEF Rebind
  <2>2. runs[r].host \in Nat /\ runs[r].start \in Nat
    BY <1>0 DEF RunRecord
  <2>3. binding \in BindingRecord
    BY <1>0, <2>1
  <2> QED BY <2>1, <2>2, <2>3, HostSaved
<1> QED BY <1>1, <1>2, <1>3, Writers

(* Every step keeps what the stamps say.                                    *)
LEMMA HostStampsKept ==
  ASSUME PipelineInvariant, HostStamps, [Next]_vars
  PROVE  HostStamps'
<1>0. /\ TypeOK /\ runs \in [Runs -> RunRecord] /\ clock \in Nat
      /\ binding \in BindingRecord \cup {None}
  BY DEF PipelineInvariant, TypeOK, RecordsTypeOK, RunsTypeOK
<1>1. CASE UNCHANGED vars
  BY <1>1 DEF HostStamps, HostRead, vars, recordVars, runVars
<1>2. ASSUME Next PROVE binding' # None => binding'.down <= binding'.at + ClockLag
  <2>1. CASE binding' = binding
    BY <2>1 DEF HostStamps
  <2>2. ASSUME NEW r \in Runs, binding' = NewHost(runs[r].start)
        PROVE  binding'.down <= binding'.at + ClockLag
    BY <1>0, <2>2, ClockLagIsBounded DEF NewHost, RunRecord
  <2>3. ASSUME binding \in BindingRecord, binding' \in BindingRecord,
               binding'.at = binding.at, binding'.down = binding.down
        PROVE  binding'.down <= binding'.at + ClockLag
    BY <2>3, NoneIsNoRecord DEF HostStamps
  <2>4. ASSUME NEW now \in Readings, binding'.at = now, binding'.down = clock
        PROVE  binding'.down <= binding'.at + ClockLag
    BY <2>4 DEF Readings
  <2>5. ASSUME NEW r \in Runs, binding \in BindingRecord, binding.at <= runs[r].start,
               binding'.at = runs[r].start, binding'.down = binding.down
        PROVE  binding'.down <= binding'.at + ClockLag
    <3>1. binding.down <= binding.at + ClockLag
      BY <2>5, NoneIsNoRecord DEF HostStamps
    <3>2. binding.down \in Nat /\ binding.at \in Nat /\ runs[r].start \in Nat
      BY <1>0, <2>5 DEF BindingRecord, RunRecord
    <3> QED BY <2>5, <3>1, <3>2, ClockLagIsBounded
  <2> QED BY <1>2, <2>1, <2>2, <2>3, <2>4, <2>5, HostMoves
<1>3. ASSUME Next, NEW s \in Runs, runs[s].pc = "rebind", runs'[s] = runs[s]
      PROVE  HostRead(runs[s])'
  <2>1. HostRead(runs[s])
    BY <1>3 DEF HostStamps
  <2>2. runs[s].host \in Nat
    BY <1>0 DEF RunRecord
  <2>3. CASE binding' = binding
    BY <1>3, <2>1, <2>3 DEF HostRead
  <2>4. CASE /\ binding \in BindingRecord /\ binding' \in BindingRecord
             /\ binding'.version = binding.version + 1
    <3>1. binding.version \in Nat
      BY <2>4 DEF BindingRecord
    <3>2. binding' # None
      BY <2>4, NoneIsNoRecord
    <3>3. runs[s].host < binding'.version
      BY <2>1, <2>2, <2>4, <3>1 DEF HostRead
    <3>4. runs[s].host <= binding'.version /\ runs[s].host # binding'.version
      BY <2>2, <2>4, <3>1, <3>3
    <3> QED BY <1>3, <3>2, <3>4 DEF HostRead
  <2>5. binding # None
    BY <2>1 DEF HostRead
  <2> QED BY <1>3, <2>3, <2>4, <2>5, HostMoves
<1>4. ASSUME Next, NEW s \in Runs
      PROVE  /\ runs'[s].start <= runs'[s].began
             /\ runs'[s].pc = "rebind" => HostRead(runs[s])'
  <2>0. /\ runs[s].start <= runs[s].began
        /\ runs[s].pc = "rebind" => HostRead(runs[s])
    BY DEF HostStamps
  <2>1. CASE runs'[s] = runs[s]
    BY <1>3, <1>4, <2>0, <2>1
  <2>2. CASE runs'[s] = IdleRun
    BY <2>2 DEF IdleRun
  <2>3. CASE RunKeepsItsTimes(s)
    BY <2>0, <2>3 DEF RunKeepsItsTimes
  <2>4. ASSUME NEW k \in KeyIds, NEW now \in Readings,
               runs' = [runs EXCEPT ![s] =
                          [IdleRun EXCEPT !.pc = "preflight", !.op = queue[k].op,
                                          !.version = operations[queue[k].op].version,
                                          !.start = now, !.began = clock]]
        PROVE  runs'[s].start <= runs'[s].began /\ runs'[s].pc # "rebind"
    <3>1. PICK o, v : o = queue[k].op /\ v = operations[queue[k].op].version
      OBVIOUS
    <3>2. runs'[s] = [IdleRun EXCEPT !.pc = "preflight", !.op = o, !.version = v,
                                     !.start = now, !.began = clock]
      BY <1>0, <2>4, <3>1
    <3>3. runs'[s].pc = "preflight" /\ runs'[s].start = now /\ runs'[s].began = clock
      BY <3>2 DEF IdleRun
    <3>4. now <= clock
      BY <1>0 DEF Readings
    <3> QED BY <3>3, <3>4
  <2>5. ASSUME NEW k \in KeyIds, Deliver(s, k)
        PROVE  /\ runs'[s].start <= runs'[s].began
               /\ runs'[s].pc = "rebind" => HostRead(runs[s])'
    <3>1. CASE UNCHANGED runs
      BY <2>1, <3>1
    <3>2. CASE ~UNCHANGED runs
      BY <2>4, <2>5, <3>2 DEF Deliver
    <3> QED BY <3>1, <3>2
  <2>6. CASE Bind(s) /\ UNCHANGED binding
    <3>1. ASSUME NEW target, Conclude(s, target)
          PROVE  runs'[s].pc = "finish" /\ runs'[s].start <= runs'[s].began
      <4>1. runs' = [runs EXCEPT ![s] = [runs[s] EXCEPT !.pc = "finish",
                                                        !.target = target]]
        BY <3>1 DEF Conclude
      <4> QED BY <1>0, <2>0, <4>1 DEF RunRecord
    <3>2. ASSUME binding # None, ~Behind(s),
                 runs' = [runs EXCEPT ![s].pc = "rebind", ![s].host = binding.version]
          PROVE  runs'[s].start <= runs'[s].began /\ HostRead(runs[s])'
      <4>1. runs' = [runs EXCEPT ![s] = [runs[s] EXCEPT !.pc = "rebind",
                                                        !.host = binding.version]]
        BY <3>2
      <4>2. /\ runs'[s].start = runs[s].start /\ runs'[s].began = runs[s].began
            /\ runs'[s].host = binding.version
        BY <1>0, <4>1 DEF RunRecord
      <4>3. binding.version \in Nat /\ binding.at \in Nat /\ runs[s].start \in Nat
        BY <1>0, <3>2 DEF BindingRecord, RunRecord
      <4>4. binding.at <= runs[s].start
        BY <3>2, <4>3 DEF Behind
      <4> QED BY <2>0, <2>6, <3>2, <4>2, <4>3, <4>4 DEF HostRead
    <3> QED BY <2>6, <3>1, <3>2 DEF Bind
  <2> QED BY <1>0, <1>4, <2>1, <2>2, <2>3, <2>5, <2>6, RunWriters
<1> QED BY <1>1, <1>2, <1>4 DEF HostStamps

(* The stamps of the host and of the runs tell the order of times as far as *)
(* clocks can: a host was taken down no later than its stamp and the        *)
(* distance of the clocks, and the host a run is about to reactivate was    *)
(* not stamped after the run's clock (transition_state of the binding).     *)
THEOREM HostStampsHold == Spec => []HostStamps
<1>1. Init => HostStamps
  BY ClockLagIsBounded, NoneIsNoRecord
     DEF Init, RecordsInit, RunsInit, IdleRun, NewHost, HostStamps
<1>2. PipelineInvariant /\ HostStamps /\ [Next]_vars => HostStamps'
  BY HostStampsKept
<1> QED BY <1>1, <1>2, PipelineInvariantHolds, PTL DEF Spec

(* A host comes up, or back up, only through a run that wrote its operation *)
(* to Cloud Run once and under the fence, and that began no longer than the *)
(* clocks may be apart before the host was last taken down: no run that was *)
(* under way before a hold or a sweep took the host down brings it back     *)
(* (create_active_binding and save_app_hostname_binding).                   *)
THEOREM HostsUpAreEarned == Spec => HostUpIsEarned
<1>1. ASSUME PipelineInvariant, HostStamps, Next,
             binding' # binding, binding'.state = "active"
      PROVE  \E r \in Runs : LET o == runs[r].op IN
               /\ runs[r].pc \in {"bind", "rebind"}
               /\ applies[o] = 1
               /\ deployingAt[o] = operations[o].material.version
               /\ binding # None => binding.down <= runs[r].began + ClockLag
  <2>0. runs \in [Runs -> RunRecord] /\ binding \in BindingRecord \cup {None}
    BY <1>1 DEF PipelineInvariant, TypeOK, RecordsTypeOK, RunsTypeOK
  <2>1. ASSUME NEW r \in Runs, runs[r].pc \in {"bind", "rebind"}
        PROVE  /\ applies[runs[r].op] = 1
               /\ deployingAt[runs[r].op] = operations[runs[r].op].material.version
    <3>1. RunFacts(r) /\ AppliedOnceAndFenced
      BY <1>1 DEF PipelineInvariant
    <3>2. runs[r].op \in OpIds /\ applies[runs[r].op] > 0
      BY <2>1, <3>1 DEF RunFacts
    <3> QED BY <3>1, <3>2 DEF AppliedOnceAndFenced
  <2>2. CASE \E r \in Runs : Bind(r) /\ binding = None
    BY <2>1, <2>2 DEF Bind, At
  <2>3. ASSUME NEW r \in Runs, Rebind(r), binding \in BindingRecord,
               binding.at <= runs[r].start
        PROVE  runs[r].pc = "rebind" /\ binding.down <= runs[r].began + ClockLag
    <3>1. binding.down <= binding.at + ClockLag /\ runs[r].start <= runs[r].began
      BY <1>1, <2>3, NoneIsNoRecord DEF HostStamps
    <3>2. /\ binding.down \in Nat /\ binding.at \in Nat
          /\ runs[r].start \in Nat /\ runs[r].began \in Nat
      BY <2>0, <2>3 DEF BindingRecord, RunRecord
    <3> QED BY <2>3, <3>1, <3>2, ClockLagIsBounded DEF Rebind, At
  <2>4. \/ \E r \in Runs : Bind(r) /\ binding = None
        \/ /\ binding \in BindingRecord
           /\ \E r \in Runs : Rebind(r) /\ binding.at <= runs[r].start
    BY <1>1, HostMoves
  <2> QED BY <2>1, <2>2, <2>3, <2>4
<1>2. PipelineInvariant /\ HostStamps /\ [Next]_vars =>
        [ binding' # binding /\ binding'.state = "active" =>
            \E r \in Runs : LET o == runs[r].op IN
              /\ runs[r].pc \in {"bind", "rebind"}
              /\ applies[o] = 1
              /\ deployingAt[o] = operations[o].material.version
              /\ binding # None => binding.down <= runs[r].began + ClockLag ]_vars
  BY <1>1
<1> QED BY <1>2, PipelineInvariantHolds, HostStampsHold, PTL DEF Spec, HostUpIsEarned

(* Pushes take effect in the order they are committed in: the task of the   *)
(* push the source moves to is for a newer version of the workload than the *)
(* task of any push before it, which stays as it was queued                 *)
(* (apply_github_auto_deploy_once, Workload.advance_source).                *)
THEOREM SourceMovesOn == Spec => SourceMovesForward
<1>1. ASSUME PipelineInvariant, Next, NEW d \in Deliveries, NEW e \in deliveryClaims,
             workload.admission # d, workload'.admission = d
      PROVE  /\ tasks'[e] = tasks[e]
             /\ tasks[e].material.version < tasks'[d].material.version
  <2>1. workload \in WorkloadRecord /\ workload.version \in Nat \ {0}
    BY <1>1 DEF PipelineInvariant, TypeOK, RecordsTypeOK, WorkloadRecord
  <2>2. ~RecordActivity
    BY <1>1, <2>1 DEF RecordActivity, WorkloadRecord
  <2>3. ~SaveStopped
    BY <1>1, <2>1 DEF SaveStopped, SaveWorkload, WorkloadRecord
  <2>4. PICK c \in Calls : AdvanceSource(c)
    BY <1>1, <2>2, <2>3, Writers
  <2>5. PICK v : ApplyAutoDeploy(calls[c].plan, v)
    BY <2>4 DEF AdvanceSource
  <2>6. calls[c].plan = d
    BY <1>1, <2>1, <2>5 DEF ApplyAutoDeploy, WorkloadRecord
  <2>7. /\ d \notin deliveryClaims /\ v = workload.version
        /\ tasks' = [tasks EXCEPT ![d] = NewTask(d, d, AutoDeployMaterial(d, v))]
    BY <2>5, <2>6 DEF ApplyAutoDeploy, AutoDeployCommits
  <2>8. /\ tasks \in [OpIds -> TaskRecord \cup {None}] /\ d \in OpIds /\ e \in OpIds
        /\ tasks[e] # None
    BY <1>1 DEF PipelineInvariant, TypeOK, RecordsTypeOK, DeliveryFacts, OpIds
  <2>9. tasks'[e] = tasks[e] /\ tasks'[d].material.version = v + 1
    BY <1>1, <2>7, <2>8 DEF NewTask, AutoDeployMaterial
  <2>10. Exists(e) /\ tasks[e].material = operations[e].material
    BY <1>1, <2>8 DEF PipelineInvariant, TaskMatchesReview
  <2>11. tasks[e].material.version <= workload.version
    BY <1>1, <2>8, <2>10 DEF PipelineInvariant, OperationFacts
  <2>12. tasks[e].material.version \in Nat
    BY <2>8 DEF TaskRecord, Material
  <2> QED BY <2>1, <2>7, <2>9, <2>11, <2>12
<1>2. PipelineInvariant /\ [Next]_vars =>
        [ \A d \in Deliveries :
            workload.admission # d /\ workload'.admission = d =>
              \A e \in deliveryClaims :
                /\ tasks'[e] = tasks[e]
                /\ tasks[e].material.version < tasks'[d].material.version ]_vars
  BY <1>1
<1> QED BY <1>2, PipelineInvariantHolds, PTL DEF Spec, SourceMovesForward
====
