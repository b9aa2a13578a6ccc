-------------------------- MODULE DeployLedgerProofs --------------------------
(****************************************************************************)
(* The deployment path implements the ledger of plans (PlanLedger): every   *)
(* step of it issues a plan, spends one, applies an operation, settles one, *)
(* or leaves the ledger as it is.                                           *)
(****************************************************************************)
EXTENDS DeployProofs

(* Which steps write what the ledger shows.                                 *)
LEMMA LedgerWriters ==
  ASSUME Next
  PROVE  \/ UNCHANGED << plans, operations, spent, applies >>
         \/ \E a \in Actors, p \in Plans : PlanDeploy(a, p) /\ UNCHANGED runVars
         \/ \E c \in Calls, o \in Ops : CommitPlan(c, o) /\ UNCHANGED runVars
         \/ \E c \in Calls : AdvanceSource(c) /\ UNCHANGED runVars
         \/ \E r \in Runs : \/ StartBuild(r) \/ StartDeploying(r) \/ StartVerifying(r)
                            \/ Apply(r) \/ Finish(r)
<1>1. CASE CallsNext /\ UNCHANGED << runVars, stop, clock >>
  <2>1. ASSUME NEW p \in Plans, PlanExpires(p)
        PROVE  UNCHANGED << plans, operations, spent, applies >>
    BY <1>1, <2>1 DEF PlanExpires, runVars
  <2>2. ASSUME NEW c \in Calls, NEW p \in Plans, NEW k \in Keys, DeployFromPlan(c, p, k)
        PROVE  UNCHANGED << plans, operations, spent, applies >>
    BY <1>1, <2>2 DEF DeployFromPlan, recordVars, runVars
  <2>3. ASSUME NEW c \in Calls, NEW d \in Deliveries, ReceivePush(c, d)
        PROVE  UNCHANGED << plans, operations, spent, applies >>
    BY <1>1, <2>3 DEF ReceivePush, recordVars, runVars
  <2>4. ASSUME NEW c \in Calls, CallStep(c) \/ CrashCall(c),
               ~(\E o \in Ops : CommitPlan(c, o)), ~AdvanceSource(c)
        PROVE  UNCHANGED << plans, operations, spent, applies >>
    <3>1. CASE \/ ReplayPlan(c) \/ LookupTask(c) \/ Review(c) \/ DenyReview(c)
               \/ CommitReplay(c) \/ DenyTask(c) \/ DenyAdvance(c) \/ Enqueue(c)
               \/ ReplayAdvance(c) \/ CrashCall(c)
      BY <1>1, <3>1 DEF ReplayPlan, LookupTask, Review, DenyReview, CommitReplay,
         DenyTask, DenyAdvance, Enqueue, ReplayAdvance, CrashCall, recordVars, runVars
    <3>2. CASE CreateTask(c) \/ Audit(c)
      BY <1>1, <3>2 DEF CreateTask, Audit, runVars
    <3> QED BY <2>4, <3>1, <3>2 DEF CallStep
  <2> QED BY <1>1, <2>1, <2>2, <2>3, <2>4 DEF CallsNext, CallStep
<1>2. CASE RunsNext
  <2>1. ASSUME NEW r \in Runs, NEW k \in KeyIds, Deliver(r, k)
        PROVE  UNCHANGED << plans, operations, spent, applies >>
    BY <2>1 DEF Deliver, otherThanQueue, recordVars
  <2>2. ASSUME NEW r \in Runs,
               \/ Preflight(r) \/ FetchUnavailable(r) \/ FetchDenied(r) \/ Build(r)
               \/ RevalidateBuilt(r) \/ RevalidateDeploying(r) \/ Health(r)
               \/ CrashRun(r) \/ Bind(r) \/ Rebind(r)
        PROVE  UNCHANGED << plans, operations, spent, applies >>
    BY <2>2 DEF Preflight, FetchUnavailable, FetchDenied, Build, RevalidateBuilt,
       RevalidateDeploying, Revalidate, Health, CrashRun, Bind, Rebind,
       otherThanQueue, otherThanBinding, recordVars
  <2> QED BY <1>2, <2>1, <2>2 DEF RunsNext, RunStep
<1>3. CASE EnvironmentNext \/ StopNext
  BY <1>3 DEF EnvironmentNext, StopNext, RecordActivity, ChangeOwner, Tick, BeginStop,
     DisableHost, DeleteService, RetireHost, SaveStopped, AbandonStop, recordVars,
     otherThanWorkload, runVars
<1>4. ASSUME NEW k \in KeyIds, ExhaustTask(k)
      PROVE  UNCHANGED << plans, operations, spent, applies >>
  BY <1>4 DEF ExhaustTask, recordVars, runVars
<1> QED BY <1>1, <1>2, <1>3, <1>4 DEF Next

(* A step that keeps the four things the ledger shows.                      *)
LEMMA LedgerKept ==
  ASSUME \A p \in PlanIds : (plans'[p] # None) <=> (plans[p] # None),
         UNCHANGED spent,
         \A o \in OpIds : (applies'[o] > 0) <=> (applies[o] > 0),
         \A o \in OpIds : Outcome(o)' = Outcome(o)
  PROVE  UNCHANGED Ledger!ledgerVars
<1>1. {p \in PlanIds : plans'[p] # None} = {p \in PlanIds : plans[p] # None}
  OBVIOUS
<1>2. {o \in OpIds : applies'[o] > 0} = {o \in OpIds : applies[o] > 0}
  OBVIOUS
<1>3. [o \in OpIds |-> Outcome(o)'] = [o \in OpIds |-> Outcome(o)]
  OBVIOUS
<1> QED BY <1>1, <1>2, <1>3 DEF Ledger!ledgerVars

(* An operation that may still move has no outcome yet.                     *)
LEMMA OpenOutcome ==
  ASSUME PipelineInvariant, NEW o \in OpIds, Exists(o),
         NEW target \in OperationMoves[operations[o].state]
  PROVE  Outcome(o) = "open"
<1>1. operations[o].state \in OperationStates
  BY DEF PipelineInvariant, TypeOK, RecordsTypeOK, Exists, OperationRecord
<1>2. operations[o].state \notin TerminalOperationStates
  BY <1>1 DEF OperationStates, OperationMoves, TerminalOperationStates
<1> QED BY <1>2 DEF Outcome

(* A plan spent on an operation that is new.                                *)
LEMMA SpendingStep ==
  ASSUME PipelineInvariant, NEW p \in PlanIds, NEW o \in OpIds,
         ~Exists(o), spent[p] = None,
         spent' = [spent EXCEPT ![p] = o],
         plans'[p] # None, \A q \in PlanIds \ {p} : plans'[q] = plans[q],
         operations'[o] # None, operations'[o].state = "queued",
         \A x \in OpIds \ {o} : operations'[x] = operations[x],
         UNCHANGED applies
  PROVE  Ledger!SpendPlan(p, o)
<1>1. ~Ledger!Authorised(o)
  <2>1. \A q \in PlanIds : spent[q] # o
    BY IdsAreDistinct DEF PipelineInvariant, LedgerFacts
  <2> QED BY <2>1 DEF Ledger!Authorised
<1>2. {q \in PlanIds : plans'[q] # None} = {q \in PlanIds : plans[q] # None} \cup {p}
  OBVIOUS
<1>3. [x \in OpIds |-> Outcome(x)'] = [x \in OpIds |-> Outcome(x)]
  <2>1. ASSUME NEW x \in OpIds PROVE Outcome(x)' = Outcome(x)
    <3>1. CASE x = o
      BY <3>1 DEF Outcome, Exists, TerminalOperationStates
    <3>2. CASE x # o
      BY <3>2 DEF Outcome, Exists
    <3> QED BY <3>1, <3>2
  <2> QED BY <2>1
<1> QED BY <1>1, <1>2, <1>3 DEF Ledger!SpendPlan

LEMMA CallsSpend ==
  ASSUME PipelineInvariant, NEW c \in Calls, UNCHANGED runVars,
         (\E o \in Ops : CommitPlan(c, o)) \/ AdvanceSource(c)
  PROVE  \E p \in PlanIds, o \in OpIds : Ledger!SpendPlan(p, o)
<1>0. /\ plans \in [PlanIds -> PlanRecord \cup {None}]
      /\ operations \in [OpIds -> OperationRecord \cup {None}]
      /\ UNCHANGED applies
  BY DEF PipelineInvariant, TypeOK, RecordsTypeOK, runVars
<1>1. ASSUME NEW o \in Ops, CommitPlan(c, o)
      PROVE  \E q \in PlanIds, x \in OpIds : Ledger!SpendPlan(q, x)
  <2> DEFINE p == calls[c].plan
             op == NewOperation(CallActor(c), calls[c].key, plans[p].material)
  <2>1. /\ calls[c].pc = "commit" /\ operations[o] = None /\ plans[p].state = "issued"
        /\ plans' = [plans EXCEPT ![p].state = "consumed"]
        /\ operations' = [operations EXCEPT ![o] = op]
        /\ spent' = [spent EXCEPT ![p] = o]
    BY <1>1 DEF CommitPlan, ConsumePlan, FirstConsumption
  <2>2. /\ p \in PlanIds /\ plans[p] \in PlanRecord /\ o \in OpIds
        /\ CallActor(c) \in ActorIds /\ calls[c].key \in KeyIds
        /\ plans[p].material \in Material
    BY <2>1, CallActorTyped DEF PlanIds, OpIds, PlanRecord
  <2>3. op # None /\ op.state = "queued"
    BY <2>2, NewOperationTyped
  <2>4. operations'[o] = op /\ \A x \in OpIds \ {o} : operations'[x] = operations[x]
    BY <1>0, <2>1, <2>2
  <2>5. plans'[p] # None /\ \A q \in PlanIds \ {p} : plans'[q] = plans[q]
    <3>1. plans' = [plans EXCEPT ![p] = [plans[p] EXCEPT !.state = "consumed"]]
      BY <2>1
    <3>2. [plans[p] EXCEPT !.state = "consumed"] \in PlanRecord
      BY <2>2 DEF PlanRecord
    <3> QED BY <1>0, <2>2, <3>1, <3>2, NoneIsNoRecord
  <2>6. ~Exists(o) /\ spent[p] = None
    BY <2>1, <2>2 DEF PipelineInvariant, PlanSpentOnce, Exists
  <2>7. Ledger!SpendPlan(p, o)
    BY <1>0, <2>1, <2>2, <2>3, <2>4, <2>5, <2>6, SpendingStep
  <2> QED BY <2>2, <2>7
<1>2. CASE AdvanceSource(c)
  <2> SUFFICES ASSUME NEW d, d = calls[c].plan,
                      NEW v, v = calls[c].material.version - 1
               PROVE  \E q \in PlanIds, x \in OpIds : Ledger!SpendPlan(q, x)
    OBVIOUS
  <2> DEFINE m == AutoDeployMaterial(d, v)
             op == NewOperation(AutoActor, d, m)
             plan == [state |-> "consumed", actor |-> AutoActor, material |-> m]
  <2>1. /\ calls[c].pc = "advance" /\ d \notin deliveryClaims /\ workload.version = v
        /\ plans' = [plans EXCEPT ![d] = plan]
        /\ operations' = [operations EXCEPT ![d] = op]
        /\ spent' = [spent EXCEPT ![d] = d]
    BY <1>2 DEF AdvanceSource, ApplyAutoDeploy, AutoDeployCommits
  <2>2. /\ d \in Deliveries /\ d \in PlanIds /\ d \in OpIds /\ d \in KeyIds
        /\ AutoActor \in ActorIds /\ workload.version \in Nat
    BY <2>1 DEF PipelineInvariant, CallFacts, TypeOK, RecordsTypeOK, WorkloadRecord,
       PlanIds, OpIds, KeyIds, ActorIds
  <2>3. m \in Material
    BY <2>1, <2>2 DEF AutoDeployMaterial, Material, Admissions
  <2>4. op # None /\ op.state = "queued"
    BY <2>2, <2>3, NewOperationTyped
  <2>5. plan # None
    <3>1. plan \in PlanRecord
      BY <2>2, <2>3 DEF PlanRecord
    <3> QED BY <3>1, NoneIsNoRecord
  <2>6. /\ operations'[d] = op /\ \A x \in OpIds \ {d} : operations'[x] = operations[x]
        /\ plans'[d] = plan /\ \A q \in PlanIds \ {d} : plans'[q] = plans[q]
    BY <1>0, <2>1, <2>2
  <2>7. ~Exists(d) /\ spent[d] = None
    <3>1. ~Exists(d) /\ plans[d] = None
      BY <2>1, <2>2 DEF PipelineInvariant, DeliveryFacts
    <3> QED BY <2>2, <3>1 DEF PipelineInvariant, PlanSpentOnce
  <2>8. Ledger!SpendPlan(d, d)
    <3> HIDE DEF op, plan
    <3> QED BY <1>0, <2>1, <2>2, <2>4, <2>5, <2>6, <2>7, SpendingStep
  <2> QED BY <2>2, <2>8
<1> QED BY <1>1, <1>2

(* Only plans and operations that were written are authorised.              *)
LEMMA WrittenIsAuthorised ==
  ASSUME PipelineInvariant, NEW o \in OpIds, Exists(o)
  PROVE  Ledger!Authorised(o)
BY DEF PipelineInvariant, PlanSpentOnce, Ledger!Authorised

LEMMA RunsSettle ==
  ASSUME PipelineInvariant, NEW r \in Runs,
         \/ StartBuild(r) \/ StartDeploying(r) \/ StartVerifying(r)
         \/ Apply(r) \/ Finish(r)
  PROVE  \/ UNCHANGED Ledger!ledgerVars
         \/ \E o \in OpIds : Ledger!ApplyOperation(o)
         \/ \E o \in OpIds, result \in {"success", "other"} :
              Ledger!SettleOperation(o, result)
<1> SUFFICES ASSUME NEW o, o = runs[r].op, NEW v, v = runs[r].version,
                    NEW target, target = runs[r].target
             PROVE  \/ UNCHANGED Ledger!ledgerVars
                    \/ \E x \in OpIds : Ledger!ApplyOperation(x)
                    \/ \E x \in OpIds, result \in {"success", "other"} :
                         Ledger!SettleOperation(x, result)
  OBVIOUS
<1>0. /\ RunFacts(r) /\ runs[r].pc # "idle"
      /\ operations \in [OpIds -> OperationRecord \cup {None}]
      /\ applies \in [OpIds -> Nat]
      /\ UNCHANGED << plans, spent >>
  BY DEF PipelineInvariant, TypeOK, RecordsTypeOK, RunsTypeOK, StartBuild,
     StartDeploying, StartVerifying, Apply, Finish, At, otherThanOperations,
     otherThanQueue, recordVars
<1>1. o \in OpIds /\ Exists(o) /\ operations[o] \in OperationRecord
  BY <1>0 DEF RunFacts, PipelineInvariant, TaskMatchesReview, Exists
<1>2. Ledger!Authorised(o)
  BY <1>1, WrittenIsAuthorised
<1>3. ASSUME UNCHANGED << operations, applies >>
      PROVE  UNCHANGED Ledger!ledgerVars
  BY <1>0, <1>3, LedgerKept DEF Outcome, Exists
<1>4. ASSUME NEW next, SaveOperation(o, v, next)
      PROVE  /\ operations'[o] # None
             /\ operations'[o].state = next
             /\ \A x \in OpIds \ {o} : operations'[x] = operations[x]
             /\ next \in OperationMoves[operations[o].state]
             /\ Outcome(o) = "open"
  <2>1. /\ next \in OperationMoves[operations[o].state]
        /\ operations' = [operations EXCEPT ![o] =
             [operations[o] EXCEPT !.state = next, !.version = v + 1]]
        /\ operations[o].version = v
    BY <1>4 DEF SaveOperation, OperationCurrent
  <2>2. next \in OperationStates
    BY <1>1, <2>1, OperationMovesClosed DEF OperationRecord
  <2>3. v + 1 \in Nat \ {0}
    BY <1>1, <2>1 DEF OperationRecord
  <2>4. operations'[o] = [operations[o] EXCEPT !.state = next, !.version = v + 1]
    BY <1>0, <1>1, <2>1
  <2>5. \A x \in OpIds \ {o} : operations'[x] = operations[x]
    BY <1>0, <1>1, <2>1
  <2>6. operations'[o] \in OperationRecord /\ operations'[o].state = next
    BY <1>1, <2>2, <2>3, <2>4 DEF OperationRecord
  <2> QED BY <1>1, <2>1, <2>5, <2>6, OpenOutcome, NoneIsNoRecord
<1>5. CASE StartBuild(r) \/ StartDeploying(r) \/ StartVerifying(r)
  <2>1. UNCHANGED applies
    BY <1>5 DEF StartBuild, StartDeploying, StartVerifying
  <2>2. \/ UNCHANGED operations
        \/ \E next \in InProgressOperationStates : SaveOperation(o, v, next)
    BY <1>5 DEF StartBuild, StartDeploying, StartVerifying, Advance,
       InProgressOperationStates
  <2>3. ASSUME NEW next \in InProgressOperationStates, SaveOperation(o, v, next)
        PROVE  UNCHANGED Ledger!ledgerVars
    <3>1. next \notin TerminalOperationStates
      BY DEF InProgressOperationStates, TerminalOperationStates
    <3>2. Outcome(o)' = "open"
      BY <1>4, <2>3, <3>1 DEF Outcome
    <3>3. \A x \in OpIds \ {o} : Outcome(x)' = Outcome(x)
      BY <1>4, <2>3 DEF Outcome, Exists
    <3> QED BY <1>0, <1>4, <2>1, <2>3, <3>2, <3>3, LedgerKept
  <2> QED BY <1>3, <2>1, <2>2, <2>3
<1>6. CASE Apply(r)
  <2>1. UNCHANGED operations /\ runs[r].pc = "apply"
    BY <1>6 DEF Apply, At, otherThanQueue, recordVars
  <2>2. \/ UNCHANGED applies
        \/ applies' = [applies EXCEPT ![o] = applies[o] + 1]
    BY <1>6 DEF Apply
  <2>3. ASSUME applies' = [applies EXCEPT ![o] = applies[o] + 1]
        PROVE  Ledger!ApplyOperation(o)
    <3>1. /\ applies[o] = 0 /\ runs[r].version >= 2
      BY <1>0, <2>1 DEF RunFacts, WorkingSteps, RunSteps
    <3>2. operations[o].state \in InProgressOperationStates
      BY <1>0, <2>1, <3>1 DEF RunFacts, Holds
    <3>3. Outcome(o) = "open"
      BY <3>2 DEF Outcome, InProgressOperationStates, TerminalOperationStates
    <3>4. {x \in OpIds : applies'[x] > 0} = {x \in OpIds : applies[x] > 0} \cup {o}
      BY <1>0, <1>1, <2>3, <3>1
    <3>5. UNCHANGED << plans, spent, operations >>
      BY <1>0, <2>1
    <3>6. [x \in OpIds |-> Outcome(x)'] = [x \in OpIds |-> Outcome(x)]
      BY <3>5 DEF Outcome, Exists
    <3> QED BY <1>1, <1>2, <3>1, <3>3, <3>4, <3>5, <3>6 DEF Ledger!ApplyOperation
  <2> QED BY <1>1, <1>3, <2>1, <2>2, <2>3
<1>7. CASE Finish(r)
  <2> DEFINE result == IF target = "succeeded" THEN "success" ELSE "other"
  <2>1. /\ UNCHANGED applies /\ runs[r].pc = "finish"
        /\ UNCHANGED operations \/ SaveOperation(o, v, target)
    BY <1>7 DEF Finish, At
  <2>2. target \in TerminalOperationStates /\ (target = "succeeded" => applies[o] > 0)
    BY <1>0, <2>1 DEF RunFacts
  <2>3. ASSUME SaveOperation(o, v, target)
        PROVE  Ledger!SettleOperation(o, result)
    <3>1. Outcome(o)' = result
      BY <1>4, <2>2, <2>3 DEF Outcome, Exists
    <3>2. \A x \in OpIds \ {o} : Outcome(x)' = Outcome(x)
      BY <1>4, <2>3 DEF Outcome, Exists
    <3>3. Outcome(o) = "open"
      BY <1>4, <2>3
    <3>4. result = "success" => o \in {x \in OpIds : applies[x] > 0}
      BY <1>1, <2>2
    <3>5. UNCHANGED << plans, spent, applies >>
      BY <1>0, <2>1
    <3> HIDE DEF result
    <3>6. [x \in OpIds |-> Outcome(x)']
            = [[x \in OpIds |-> Outcome(x)] EXCEPT ![o] = result]
      BY <1>1, <3>1, <3>2
    <3> QED BY <1>1, <1>2, <3>3, <3>4, <3>5, <3>6 DEF Ledger!SettleOperation
  <2> QED BY <1>1, <1>3, <2>1, <2>3
<1> QED BY <1>5, <1>6, <1>7

(* The calls and the worker together keep the ledger of plans: a plan is    *)
(* spent once, its operation is applied at most once and has at most one    *)
(* outcome, and a success was applied (services/deployments.py and          *)
(* workers/deploy.py against the abstract PlanLedger).                      *)
THEOREM PipelineImplementsLedger == Spec => ImplementsLedger
<1>1. Init => Ledger!LedgerInit
  <2> SUFFICES ASSUME Init PROVE Ledger!LedgerInit
    OBVIOUS
  <2>1. {p \in PlanIds : plans[p] # None} = {}
    BY DEF Init, RecordsInit
  <2>2. {o \in OpIds : applies[o] > 0} = {}
    BY DEF Init, RunsInit
  <2>3. [o \in OpIds |-> Outcome(o)] = [o \in OpIds |-> "open"]
    BY DEF Init, RecordsInit, Outcome, Exists
  <2>4. spent = [p \in PlanIds |-> None]
    BY DEF Init, RecordsInit
  <2> QED BY <2>1, <2>2, <2>3, <2>4 DEF Ledger!LedgerInit
<1>2. PipelineInvariant /\ [Next]_vars => [Ledger!LedgerNext]_(Ledger!ledgerVars)
  <2> SUFFICES ASSUME PipelineInvariant, [Next]_vars
               PROVE  [Ledger!LedgerNext]_(Ledger!ledgerVars)
    OBVIOUS
  <2>1. ASSUME UNCHANGED << plans, operations, spent, applies >>
        PROVE  UNCHANGED Ledger!ledgerVars
    BY <2>1, LedgerKept DEF Outcome, Exists
  <2>2. ASSUME NEW a \in Actors, NEW p \in Plans, PlanDeploy(a, p), UNCHANGED runVars
        PROVE  Ledger!IssuePlan(p) /\ p \in PlanIds
    <3> DEFINE plan == [state |-> "issued", actor |-> a, material |-> CurrentMaterial]
    <3>1. /\ p \in PlanIds /\ plans \in [PlanIds -> PlanRecord \cup {None}]
          /\ plans[p] = None /\ plans' = [plans EXCEPT ![p] = plan]
          /\ UNCHANGED << operations, spent, applies >>
      BY <2>2 DEF PlanIds, PipelineInvariant, TypeOK, RecordsTypeOK, PlanDeploy, runVars
    <3>2. plan # None
      <4>1. CurrentMaterial \in Material
        BY DEF CurrentMaterial, Material, PipelineInvariant, TypeOK, RecordsTypeOK,
               WorkloadRecord
      <4>2. plan \in PlanRecord
        BY <4>1 DEF PlanRecord, ActorIds
      <4> QED BY <4>2, NoneIsNoRecord
    <3>3. /\ p \notin {q \in PlanIds : plans[q] # None}
          /\ {q \in PlanIds : plans'[q] # None} = {q \in PlanIds : plans[q] # None} \cup {p}
      BY <3>1, <3>2
    <3>4. [x \in OpIds |-> Outcome(x)'] = [x \in OpIds |-> Outcome(x)]
      BY <3>1 DEF Outcome, Exists
    <3> QED BY <3>1, <3>3, <3>4 DEF Ledger!IssuePlan
  <2>3. ASSUME NEW c \in Calls, NEW o \in Ops, CommitPlan(c, o), UNCHANGED runVars
        PROVE  \E p \in PlanIds, x \in OpIds : Ledger!SpendPlan(p, x)
    BY <2>3, CallsSpend
  <2>4. ASSUME NEW c \in Calls, AdvanceSource(c), UNCHANGED runVars
        PROVE  \E p \in PlanIds, x \in OpIds : Ledger!SpendPlan(p, x)
    BY <2>4, CallsSpend
  <2>5. ASSUME NEW r \in Runs,
               \/ StartBuild(r) \/ StartDeploying(r) \/ StartVerifying(r)
               \/ Apply(r) \/ Finish(r)
        PROVE  \/ UNCHANGED Ledger!ledgerVars
               \/ \E o \in OpIds : Ledger!ApplyOperation(o)
               \/ \E o \in OpIds, result \in {"success", "other"} :
                    Ledger!SettleOperation(o, result)
    BY <2>5, RunsSettle
  <2>6. CASE UNCHANGED vars
    BY <2>1, <2>6 DEF vars, recordVars, runVars
  <2> QED
    BY <2>1, <2>2, <2>3, <2>4, <2>5, <2>6, LedgerWriters DEF Ledger!LedgerNext
<1> QED BY <1>1, <1>2, PipelineInvariantHolds, PTL
        DEF Spec, ImplementsLedger, Ledger!LedgerSpec
==============================================================================
