------------------------------- MODULE Secrets -------------------------------
(****************************************************************************)
(* One managed secret: the metadata record in the store, the resource in    *)
(* Secret Manager, and the calls that create it, attach it, rotate it and   *)
(* retire its old version (services/secret_management.py over               *)
(* adapters/secret_manager.py).  A call reads, writes the store and calls   *)
(* Secret Manager in many steps; it may die between any two of them, and    *)
(* the user sends the same plan and key again.                              *)
(****************************************************************************)
EXTENDS Integers, Sequences, FiniteSets

CONSTANTS
  Callers,      \* calls that can be in flight at once
  Workloads,    \* the owner's workloads
  Payloads,     \* values a user may submit
  Modes,        \* which plans are made: subset of {"create", "attach", "rotate"}
  Quarantined,  \* workloads the lifecycle job may quarantine
  Retires,      \* whether anyone calls finalize_secret_retirement
  Window,       \* _RETIREMENT_WINDOW and _RETIREMENT_MINIMUM, 7 days
  PlanLife,     \* lifetime of an unused plan, 15 minutes
  MaxTime, MaxPlans, MaxRecord, MaxVersions,   \* bounds
  MaxTrouble,   \* bound of crashes and lost bindings
  None

(* A stored SecretMetadata record.                                          *)
SecretRecords ==
  [ active : Nat \ {0}, attached : SUBSET Workloads,
    rotation : {"stable", "rotating", "retiring"}, retiring : Nat, notBefore : Nat,
    mutation : {"idle", "creating", "attaching", "rotating"}, key : 0..MaxPlans,
    pending : SUBSET Workloads, payload : Payloads \cup {None}, updated : 0..MaxTime,
    number : Nat \ {0} ]

ASSUME SecretParameters ==
  /\ Modes \subseteq {"create", "attach", "rotate"}
  /\ Quarantined \subseteq Workloads
  /\ Retires \in BOOLEAN
  /\ Window \in Nat /\ PlanLife \in Nat
  /\ {MaxTime, MaxPlans, MaxRecord, MaxTrouble} \subseteq Nat
  /\ MaxVersions \in Nat \ {0}
  /\ None \notin SecretRecords

VARIABLES
  clock,
  meta,      \* the SecretMetadata record, or None
  cloud,     \* the secret in Secret Manager: its accessors and its versions
  plans,     \* the reviewed plans, each with the operation that consumed it
  calls,     \* what each call in flight has read, and its next step
  trouble

vars == << clock, meta, cloud, plans, calls, trouble >>

------------------------------------------------------------------------------
(* Records.                                                                 *)

Versions == 1..Len(cloud.versions)
In(state) == { v \in Versions : cloud.versions[v].state = state }

IdleCall == [at |-> "idle"]

IdleRecord(active, attached, number) ==
  [ active |-> active, attached |-> attached, rotation |-> "stable",
    retiring |-> 0, notBefore |-> 0, mutation |-> "idle", key |-> 0,
    pending |-> {}, payload |-> None, updated |-> 0, number |-> number ]

(* The mutation a record is in is over: its key, its workloads and the hash *)
(* of its payload are forgotten.                                            *)
Settled(m) == [m EXCEPT !.mutation = "idle", !.key = 0, !.pending = {}, !.payload = None]

Touched(m, now) == [m EXCEPT !.updated = now, !.number = @ + 1]

CreateDraft(p, payload, now) ==
  [ IdleRecord(1, {}, 1) EXCEPT !.mutation = "creating", !.key = p,
      !.pending = plans[p].workloads, !.payload = payload, !.updated = now ]

BeginAttachment(m, p, now) ==
  Touched([m EXCEPT !.mutation = "attaching", !.key = p,
                    !.pending = plans[p].workloads, !.payload = None], now)

BeginRotation(m, p, payload, now) ==
  Touched([m EXCEPT !.rotation = "rotating", !.mutation = "rotating", !.key = p,
                    !.pending = plans[p].workloads, !.payload = payload], now)

FinalizeCreation(m, now) == Touched(Settled([m EXCEPT !.attached = m.pending]), now)

FinalizeAttachmentKeepingKey(m, now) ==
  Touched([m EXCEPT !.attached = m.pending, !.mutation = "idle", !.pending = {}], now)

FinalizeAttachment(m, now) == Touched(Settled([m EXCEPT !.attached = m.pending]), now)

RecordRotation(m, new, now) ==
  Touched(Settled([m EXCEPT !.active = new, !.attached = m.pending,
                            !.rotation = "retiring", !.retiring = m.active,
                            !.notBefore = m.updated + Window]), now)

CompleteRetirement(m, now) ==
  Touched([m EXCEPT !.rotation = "stable", !.retiring = 0, !.notBefore = 0], now)

(* What the store accepts as the next version of a record.                  *)
RotationMoves(from, to) ==
  << from, to >> \in { << "stable", "rotating" >>, << "rotating", "stable" >>,
                       << "rotating", "retiring" >>, << "retiring", "stable" >> }

SameValues(from, to) == to.active = from.active /\ to.attached = from.attached

Keeps(from, to) ==
  /\ to.mutation = from.mutation
  /\ SameValues(from, to)
  /\ to.key = from.key /\ to.pending = from.pending /\ to.payload = from.payload
  /\ from.mutation # "idle" => to.rotation = from.rotation

Begins(from, to) ==
  /\ from.mutation = "idle"
  /\ SameValues(from, to)
  /\ from.attached \subseteq to.pending
  /\ << to.mutation, to.rotation >> \in
       { << "attaching", from.rotation >>, << "rotating", "rotating" >> }

Ends(from, to) ==
  /\ from.mutation # "idle" /\ to.mutation = "idle"
  /\ to.attached = from.pending
  /\ \/ /\ from.mutation = "creating"
        /\ to.active = from.active /\ to.rotation = "stable"
     \/ /\ from.mutation = "attaching"
        /\ to.active = from.active /\ to.rotation = from.rotation
     \/ /\ from.mutation = "rotating"
        /\ to.active > from.active /\ to.rotation = "retiring"
        /\ to.retiring = from.active

LegalUpdate(from, to) ==
  /\ to.active >= from.active
  /\ to.retiring < to.active
  /\ from.rotation # to.rotation => RotationMoves(from.rotation, to.rotation)
  /\ Keeps(from, to) \/ Begins(from, to) \/ Ends(from, to)

(* save_secret_metadata with the version the caller has read: a caller that *)
(* is behind, whose clock is, or whose update is refused, is denied.        *)
Saves(c, new) ==
  /\ meta # None
  /\ meta.number = calls[c].draft.number
  /\ calls[c].now >= calls[c].draft.updated
  /\ LegalUpdate(meta, new)

Denied(c) == calls' = [calls EXCEPT ![c] = IdleCall]

SaveThen(c, new, step) ==
  \/ /\ Saves(c, new)
     /\ meta' = new
     /\ calls' = [calls EXCEPT ![c].draft = new, ![c].at = step]
  \/ /\ ~Saves(c, new)
     /\ Denied(c)
     /\ UNCHANGED meta

Goto(c, step) == calls' = [calls EXCEPT ![c].at = step]

------------------------------------------------------------------------------
(* Planning: plan_secret_write and plan_secret_attach.  The review of the   *)
(* workloads, the owner and the cost guard does not change.                 *)

NewPlan(mode, workloads) ==
  [ mode |-> mode, workloads |-> workloads,
    number |-> IF meta = None THEN 0 ELSE meta.number,
    active |-> IF meta = None THEN 0 ELSE meta.active,
    created |-> clock, op |-> "none" ]

PlanTo(mode, workloads) ==
  /\ mode \in Modes
  /\ Len(plans) < MaxPlans
  /\ plans' = Append(plans, NewPlan(mode, workloads))
  /\ UNCHANGED << clock, meta, cloud, calls, trouble >>

(* A secret of this name is there, and nothing is in flight on it.          *)
ExistingScope == meta # None /\ meta.mutation = "idle"

PlanWrite(workloads) ==
  \/ /\ meta = None
     /\ PlanTo("create", workloads)
  \/ /\ ExistingScope
     /\ meta.attached \subseteq workloads
     /\ PlanTo("rotate", workloads)

PlanAttach(workloads) ==
  /\ meta # None
  /\ meta.attached \subseteq workloads
  /\ PlanTo("attach", workloads)

------------------------------------------------------------------------------
(* apply_secret_plan.                                                       *)

(* _require_fresh_baseline: an unused plan is for the record it was made of *)
Fresh(p) ==
  IF plans[p].mode = "create" THEN meta = None
  ELSE /\ meta # None
       /\ meta.number = plans[p].number
       /\ meta.active = plans[p].active
       /\ meta.mutation = "idle"

(* The call reads the plan and the record.  Idempotency keys are the user's *)
(* own: one key for one plan, so that the plan stands for its key.          *)
BeginApply(c, p, payload) ==
  /\ calls[c].at = "idle"
  /\ plans[p].op = "none" => Fresh(p) /\ clock <= plans[p].created + PlanLife
  /\ meta # None => meta.number < MaxRecord
  /\ calls' = [calls EXCEPT ![c] =
       [ at |-> "consume", plan |-> p, payload |-> payload, now |-> clock,
         draft |-> meta, new |-> 0 ]]
  /\ UNCHANGED << clock, meta, cloud, plans, trouble >>

(* An operation that succeeded answers with what it recorded, or not at all *)
(* if it was cut off before; either way the call is over.                   *)
Answered(p) == plans[p].op \in {"succeeded", "recorded"}

(* The plan is consumed and its operation made in one transaction; if that  *)
(* was done before, the call goes on with the operation it finds.           *)
Consume(c) ==
  LET p == calls[c].plan IN
  /\ calls[c].at = "consume"
  /\ \/ /\ plans[p].op = "none"
        /\ plans' = [plans EXCEPT ![p].op = "queued"]
        /\ Goto(c, "stage")
     \/ /\ plans[p].op = "queued"
        /\ Goto(c, "resume")
        /\ UNCHANGED plans
     \/ /\ Answered(p)
        /\ Denied(c)
        /\ UNCHANGED plans
  /\ UNCHANGED << clock, meta, cloud, trouble >>

(* The first call stages the mutation in the record, under its key.  An     *)
(* attachment of what is attached already has nothing to do.                *)
StageCreateAnyway(c) ==
  LET draft == CreateDraft(calls[c].plan, calls[c].payload, calls[c].now) IN
  /\ meta' = IF meta = None THEN draft ELSE meta
  /\ calls' = [calls EXCEPT ![c].draft = draft, ![c].at = "ensure"]

StageCreate(c) ==
  \/ /\ meta = None
     /\ LET draft == CreateDraft(calls[c].plan, calls[c].payload, calls[c].now) IN
        /\ meta' = draft
        /\ calls' = [calls EXCEPT ![c].draft = draft, ![c].at = "ensure"]
  \/ /\ meta # None
     /\ Denied(c)
     /\ UNCHANGED meta

StageAttach(c) ==
  LET call == calls[c] IN
  IF call.draft.attached = plans[call.plan].workloads
  THEN Goto(c, "mark") /\ UNCHANGED meta
  ELSE SaveThen(c, BeginAttachment(call.draft, call.plan, call.now), "probe")

StageRotate(c) ==
  LET call == calls[c] IN
  IF call.draft.rotation = "stable"
  THEN SaveThen(c, BeginRotation(call.draft, call.plan, call.payload, call.now), "probe")
  ELSE Denied(c) /\ UNCHANGED meta

Stage(c) ==
  LET mode == plans[calls[c].plan].mode IN
  /\ calls[c].at = "stage"
  /\ CASE mode = "create" -> StageCreate(c)
       [] mode = "attach" -> StageAttach(c)
       [] mode = "rotate" -> StageRotate(c)
  /\ UNCHANGED << clock, cloud, plans, trouble >>

(* _is_final_exact_state: the record and Secret Manager show what the plan  *)
(* asked for.                                                               *)
FinalExactAnyVersion(m, plan) ==
  /\ m.mutation = "idle"
  /\ m.attached = plan.workloads
  /\ cloud.exists
  /\ cloud.readers = m.attached
  /\ In("enabled") = {m.active}

FinalExact(m, plan) ==
  /\ m.mutation = "idle"
  /\ m.attached = plan.workloads
  /\ cloud.exists
  /\ cloud.readers = m.attached
  /\ In("enabled") = {m.active}
  /\ CASE plan.mode = "create" -> m.rotation = "stable" /\ m.active = 1
                                  /\ In("disabled") \cup In("destroyed") = {}
       [] plan.mode = "attach" -> m.rotation = "stable"
       [] plan.mode = "rotate" -> /\ m.active > plan.active
                                  /\ m.rotation = "retiring"
                                  /\ m.retiring \in In("disabled") \cup In("destroyed")

InFlight(mode) ==
  CASE mode = "create" -> "creating" [] mode = "attach" -> "attaching"
    [] mode = "rotate" -> "rotating"

(* A later call with the same plan: done already, or this key's mutation is *)
(* in the record and is carried on, or nothing is known.                    *)
ResumableAnyPayload(call, plan) ==
  /\ call.draft # None
  /\ call.draft.key = call.plan
  /\ call.draft.mutation = InFlight(plan.mode)

Resumable(call, plan) ==
  /\ call.draft # None
  /\ call.draft.key = call.plan
  /\ call.draft.mutation = InFlight(plan.mode)
  /\ plan.mode = "rotate" => call.draft.attached \subseteq plan.workloads
  /\ plan.mode # "attach" => call.payload = call.draft.payload

Resume(c) ==
  LET call == calls[c]
      plan == plans[call.plan]
      done == call.draft # None /\ FinalExact(call.draft, plan) IN
  /\ call.at = "resume"
  /\ \/ done /\ Goto(c, "mark")
     \/ /\ ~done /\ Resumable(call, plan)
        /\ Goto(c, IF plan.mode = "create" THEN "ensure" ELSE "probe")
     \/ ~done /\ ~Resumable(call, plan) /\ Denied(c)
  /\ UNCHANGED << clock, meta, cloud, plans, trouble >>

------------------------------------------------------------------------------
(* The mutation itself, the same for a first call and for one that resumes. *)

(* ensure_secret: the resource exists and its only accessors are these.     *)
Bound(workloads) == [cloud EXCEPT !.exists = TRUE, !.readers = workloads]

(* Making the resource is recorded as progress; a rotation must find it.    *)
Ensure(c) ==
  LET call == calls[c] IN
  /\ call.at = "ensure"
  /\ cloud' = Bound(call.draft.pending)
  /\ CASE call.draft.mutation = "creating" ->
            Goto(c, IF cloud.exists THEN "probe" ELSE "ensured")
       [] call.draft.mutation = "rotating" ->
            IF cloud.exists THEN Goto(c, "ensured") ELSE Denied(c)
  /\ UNCHANGED << clock, meta, plans, trouble >>

SaveEnsured(c) ==
  LET call == calls[c] IN
  /\ call.at = "ensured"
  /\ SaveThen(c, Touched(call.draft, call.now),
              IF call.draft.mutation = "creating" THEN "probe" ELSE "versions")
  /\ UNCHANGED << clock, cloud, plans, trouble >>

Exact(call) == cloud.readers = call.draft.pending

(* A creation adds the first version, unless a call before it did.          *)
CreateStepOnce == IF In("enabled") = {} THEN "add" ELSE "denied"

CreateStep ==
  CASE In("enabled") = {} -> "add"
    [] In("enabled") = {1} /\ Len(cloud.versions) = 1 -> "record"
    [] OTHER -> "denied"

Newer(call) == { v \in In("enabled") : v > call.draft.active }

(* A rotation adds a version, unless it finds one that is newer than the    *)
(* active one; then the old version is disabled, unless it already is.      *)
RotateStep(call) ==
  LET old == call.draft.active IN
  IF Cardinality(Newer(call)) > 1 THEN "denied"
  ELSE CASE Newer(call) = {} /\ old \notin In("enabled") -> "denied"
         [] Newer(call) = {} /\ old \in In("enabled") -> "add"
         [] Newer(call) # {} /\ old \in In("enabled") -> "disable"
         [] Newer(call) # {} /\ old \notin In("enabled") -> "record"

Take(c, step) ==
  IF step = "denied" THEN Denied(c)
  ELSE calls' = [calls EXCEPT ![c].at = step,
                   ![c].new = IF calls[c].draft.mutation = "creating" THEN 1
                              ELSE IF Newer(calls[c]) = {} THEN 0
                              ELSE CHOOSE v \in Newer(calls[c]) : TRUE]

Probe(c) ==
  LET call == calls[c] IN
  /\ call.at = "probe"
  /\ IF ~cloud.exists THEN Denied(c)
     ELSE CASE call.draft.mutation = "creating" ->
                 IF Exact(call) THEN Take(c, CreateStep) ELSE Denied(c)
            [] call.draft.mutation = "attaching" ->
                 Goto(c, IF Exact(call) THEN "record" ELSE "bind")
            [] call.draft.mutation = "rotating" ->
                 IF Exact(call) THEN Take(c, RotateStep(call)) ELSE Goto(c, "ensure")
  /\ UNCHANGED << clock, meta, cloud, plans, trouble >>

(* After it has bound the workloads a rotation looks at the versions again. *)
ProbeVersions(c) ==
  /\ calls[c].at = "versions"
  /\ Take(c, RotateStep(calls[c]))
  /\ UNCHANGED << clock, meta, cloud, plans, trouble >>

Bind(c) ==
  /\ calls[c].at = "bind"
  /\ cloud' = Bound(calls[c].draft.pending)
  /\ Goto(c, "record")
  /\ UNCHANGED << clock, meta, plans, trouble >>

(* add_version.  Secret Manager numbers the versions; a creation must have  *)
(* got the first.                                                           *)
AddVersion(c) ==
  LET call == calls[c]
      new  == Len(cloud.versions) + 1 IN
  /\ call.at = "add"
  /\ new <= MaxVersions
  /\ cloud' = [cloud EXCEPT !.versions =
       Append(@, [state |-> "enabled", payload |-> call.payload, since |-> 0])]
  /\ IF call.draft.mutation = "creating" /\ new # 1
     THEN Denied(c)
     ELSE calls' = [calls EXCEPT ![c].new = new, ![c].at = "added"]
  /\ UNCHANGED << clock, meta, plans, trouble >>

SaveAdded(c) ==
  LET call == calls[c] IN
  /\ call.at = "added"
  /\ SaveThen(c, Touched(call.draft, call.now),
              IF call.draft.mutation = "creating" THEN "record" ELSE "disable")
  /\ UNCHANGED << clock, cloud, plans, trouble >>

(* The version to retire is the one the call has read as active.            *)
OldVersionOfRecord(call) == meta.active

OldVersion(call) == call.draft.active

(* The whole window must lie ahead when the old version is disabled, where  *)
(* the window is counted from the last save of the record.                  *)
WholeWindowAhead(call) == call.draft.updated + Window - call.now >= Window

DisableOldVersion(c) ==
  LET call == calls[c]
      old  == OldVersion(call) IN
  /\ call.at = "disable"
  /\ \/ /\ WholeWindowAhead(call)
        /\ old \in In("enabled")
        /\ cloud' = [cloud EXCEPT !.versions[old].state = "disabled",
                                  !.versions[old].since = call.now]
        /\ Goto(c, "disabled")
     \/ /\ WholeWindowAhead(call)
        /\ old \in In("disabled")
        /\ Goto(c, "disabled")
        /\ UNCHANGED cloud
     \/ /\ ~WholeWindowAhead(call) \/ old \in In("destroyed")
        /\ Denied(c)
        /\ UNCHANGED cloud
  /\ UNCHANGED << clock, meta, plans, trouble >>

SaveDisabled(c) ==
  /\ calls[c].at = "disabled"
  /\ SaveThen(c, Touched(calls[c].draft, calls[c].now), "record")
  /\ UNCHANGED << clock, cloud, plans, trouble >>

(* The record takes what Secret Manager now holds.  A rotation whose window *)
(* is over before it is recorded is refused by the record itself.           *)
Recorded(call) ==
  CASE call.draft.mutation = "creating"  -> FinalizeCreation(call.draft, call.now)
    [] call.draft.mutation = "attaching" -> FinalizeAttachment(call.draft, call.now)
    [] call.draft.mutation = "rotating"  -> RecordRotation(call.draft, call.new, call.now)

Record(c) ==
  LET call == calls[c] IN
  /\ call.at = "record"
  /\ IF call.draft.mutation = "rotating" /\ call.draft.updated + Window < call.now
     THEN Denied(c) /\ UNCHANGED meta
     ELSE SaveThen(c, Recorded(call), "mark")
  /\ UNCHANGED << clock, cloud, plans, trouble >>

(* _mark_operation_succeeded: the operation is moved to succeeded, and then *)
(* its result is recorded.                                                  *)
MarkSucceeded(c) ==
  LET p == calls[c].plan IN
  /\ calls[c].at = "mark"
  /\ IF plans[p].op = "queued"
     THEN plans' = [plans EXCEPT ![p].op = "succeeded"]
     ELSE UNCHANGED plans
  /\ Goto(c, "result")
  /\ UNCHANGED << clock, meta, cloud, trouble >>

RecordResult(c) ==
  /\ calls[c].at = "result"
  /\ plans' = [plans EXCEPT ![calls[c].plan].op = "recorded"]
  /\ Denied(c)
  /\ UNCHANGED << clock, meta, cloud, trouble >>

------------------------------------------------------------------------------
(* finalize_secret_retirement.                                              *)

RetirementAtOnce(m, now) == m.rotation = "retiring"

RetirementDue(m, now) == m.rotation = "retiring" /\ now >= m.notBefore

BeginRetirement(c) ==
  /\ Retires
  /\ calls[c].at = "idle"
  /\ meta # None
  /\ RetirementDue(meta, clock)
  /\ calls' = [calls EXCEPT ![c] =
       [at |-> "retire", plan |-> 0, payload |-> None, now |-> clock,
        draft |-> meta, new |-> 0]]
  /\ UNCHANGED << clock, meta, cloud, plans, trouble >>

EnsureRetiring(c) ==
  /\ calls[c].at = "retire"
  /\ cloud' = Bound(calls[c].draft.attached)
  /\ IF cloud.exists THEN Goto(c, "destroy") ELSE Denied(c)
  /\ UNCHANGED << clock, meta, plans, trouble >>

DestroyOldVersion(c) ==
  LET old == calls[c].draft.retiring IN
  /\ calls[c].at = "destroy"
  /\ \/ /\ old \in In("disabled")
        /\ cloud' = [cloud EXCEPT !.versions[old].state = "destroyed"]
        /\ Goto(c, "destroyed")
     \/ /\ old \in In("destroyed")
        /\ Goto(c, "destroyed")
        /\ UNCHANGED cloud
     \/ /\ old \in In("enabled")
        /\ Denied(c)
        /\ UNCHANGED cloud
  /\ UNCHANGED << clock, meta, plans, trouble >>

SaveRetired(c) ==
  LET call == calls[c]
      new  == CompleteRetirement(call.draft, call.now) IN
  /\ call.at = "destroyed"
  /\ IF Saves(c, new) THEN meta' = new ELSE UNCHANGED meta
  /\ Denied(c)
  /\ UNCHANGED << clock, cloud, plans, trouble >>

------------------------------------------------------------------------------
(* The environment.                                                         *)

(* The process dies, the store is away, or the answer of Secret Manager is  *)
(* lost after it took effect.                                               *)
Crash(c) ==
  /\ calls[c].at # "idle"
  /\ trouble < MaxTrouble
  /\ trouble' = trouble + 1
  /\ Denied(c)
  /\ UNCHANGED << clock, meta, cloud, plans >>

(* The lifecycle job takes a quarantined workload off the accessors.        *)
Unbind(w) ==
  /\ w \in cloud.readers \cap Quarantined
  /\ trouble < MaxTrouble
  /\ trouble' = trouble + 1
  /\ cloud' = [cloud EXCEPT !.readers = @ \ {w}]
  /\ UNCHANGED << clock, meta, plans, calls >>

Tick ==
  /\ clock < MaxTime
  /\ clock' = clock + 1
  /\ UNCHANGED << meta, cloud, plans, calls, trouble >>

------------------------------------------------------------------------------
NoCloud == [exists |-> FALSE, readers |-> {}, versions |-> << >>]

(* No secret yet, or one that was created with the first workload.          *)
Init ==
  /\ clock = 0
  /\ plans = << >>
  /\ calls = [c \in Callers |-> IdleCall]
  /\ trouble = 0
  /\ \/ /\ "create" \in Modes
        /\ meta = None
        /\ cloud = NoCloud
     \/ \E w \in Workloads, payload \in Payloads :
          /\ meta = IdleRecord(1, {w}, 1)
          /\ cloud = [exists |-> TRUE, readers |-> {w}, versions |->
               << [state |-> "enabled", payload |-> payload, since |-> 0] >>]

Step(c) ==
  \/ Consume(c) \/ Stage(c) \/ Resume(c)
  \/ Ensure(c) \/ SaveEnsured(c) \/ Probe(c) \/ ProbeVersions(c) \/ Bind(c)
  \/ AddVersion(c) \/ SaveAdded(c) \/ DisableOldVersion(c) \/ SaveDisabled(c)
  \/ Record(c) \/ MarkSucceeded(c) \/ RecordResult(c)
  \/ EnsureRetiring(c) \/ DestroyOldVersion(c) \/ SaveRetired(c)

Plan ==
  \E workloads \in (SUBSET Workloads) \ {{}} : PlanWrite(workloads) \/ PlanAttach(workloads)

Next ==
  \/ Plan
  \/ \E c \in Callers :
       \/ \E p \in 1..Len(plans), payload \in Payloads : BeginApply(c, p, payload)
       \/ BeginRetirement(c)
       \/ Step(c)
       \/ Crash(c)
  \/ \E w \in Workloads : Unbind(w)
  \/ Tick

Spec == Init /\ [][Next]_vars

(* A call runs on until it is answered, and the user sends a plan whose     *)
(* mutation is in flight again, with the value the plan was first sent with.*)
Retry(c) ==
  /\ meta # None
  /\ meta.mutation # "idle"
  /\ \E payload \in Payloads :
       /\ meta.payload \in {None, payload}
       /\ BeginApply(c, meta.key, payload)

FairSpec == Spec /\ \A c \in Callers : WF_vars(Step(c)) /\ SF_vars(Retry(c))

------------------------------------------------------------------------------
(* Properties.                                                              *)

Calls ==
  [ at : {"consume", "stage", "resume", "ensure", "ensured", "probe", "versions",
          "bind", "add", "added", "disable", "disabled", "record", "mark", "result",
          "retire", "destroy", "destroyed"},
    plan : 0..MaxPlans, payload : Payloads \cup {None}, now : 0..MaxTime,
    draft : {None} \cup SecretRecords,
    new : 0..MaxVersions ]

Mutating(kinds) == meta # None /\ meta.mutation \in kinds

TypeOK ==
  /\ clock \in 0..MaxTime
  /\ trouble \in 0..MaxTrouble
  /\ meta \in {None} \cup SecretRecords
  /\ cloud.exists \in BOOLEAN
  /\ cloud.readers \in SUBSET Workloads
  /\ Len(cloud.versions) <= MaxVersions
  /\ \A p \in 1..Len(plans) : plans[p].op \in {"none", "queued", "succeeded", "recorded"}
  /\ \A c \in Callers : calls[c] \in Calls \cup {IdleCall}
  /\ meta # None /\ meta.mutation = "idle" =>
       meta.key = 0 /\ meta.pending = {} /\ meta.payload = None
  /\ meta # None /\ meta.mutation # "idle" =>
       meta.pending # {} /\ meta.attached \subseteq meta.pending

(* The version the record names is one a workload can read, however many    *)
(* calls work on the same rotation and wherever they die: what is disabled  *)
(* and destroyed is only ever what the record has left behind, and nothing  *)
(* is recorded as left behind before it is switched off                     *)
(* (_resume_rotate_secret, finalize_secret_retirement).                     *)
VersionsFollowTheRecord ==
  /\ meta # None /\ meta.mutation = "idle" => meta.active \in In("enabled")
  /\ meta # None /\ meta.rotation = "retiring" => meta.retiring \notin In("enabled")

(* Nobody reads a secret without a reviewed plan for it: the accessors in   *)
(* IAM are workloads of the record or of the mutation in flight, also when  *)
(* a call that was overtaken writes the policy it has prepared              *)
(* (ensure_exact_bindings replaces the whole policy).                       *)
ReadersAreReviewed ==
  cloud.readers \subseteq IF meta = None THEN {} ELSE meta.attached \cup meta.pending

(* An operation is reported as succeeded only when the record has what its  *)
(* plan promised: the workloads, and a version newer than the reviewed one  *)
(* (_is_final_exact_state and _mark_operation_succeeded).                   *)
SucceededIsDone ==
  \A p \in 1..Len(plans) : plans[p].op \in {"succeeded", "recorded"} =>
    /\ meta # None
    /\ plans[p].workloads \subseteq meta.attached
    /\ plans[p].mode = "rotate" => meta.active > plans[p].active

(* The old version can be brought back for the whole window: it is not      *)
(* destroyed sooner than seven days after the call that disabled it         *)
(* (destroy_old_version, retirement_not_before).                            *)
WindowIsKept ==
  [][\A v \in In("disabled") :
       cloud'.versions[v].state = "destroyed" => clock >= cloud.versions[v].since + Window]_vars

(* The version that becomes active holds the value that was submitted for   *)
(* this mutation, also when a retry finds the version an earlier call added *)
(* (_require_payload_match, newer_enabled).  Calls that overlap can leave a *)
(* stray version behind, so this is stated for one call at a time.          *)
StoredIsSubmitted ==
  [][Mutating({"creating", "rotating"}) /\ meta'.mutation = "idle" =>
       cloud.versions[meta'.active].payload = meta.payload]_vars

(* What the deploy worker asks of a secret before it gives it to a workload *)
(* (SecretManagerAdapter.resolve and _audit_metadata).                      *)
Audited == In("enabled") = {meta.active} /\ cloud.readers = meta.attached

Resolvable(w) == meta # None /\ w \in meta.attached /\ Audited

(* A creation or an attachment that is sent again until it is answered      *)
(* ends, and then every workload of its plan can be deployed with it, as    *)
(* long as the lifecycle job takes nobody off the accessors.                *)
MutationsFinish ==
  \A w \in Workloads :
    Mutating({"creating", "attaching"}) /\ w \in meta.pending ~> Resolvable(w)

(* A rotation that was interrupted and is sent again until it is answered   *)
(* ends (test_rotate_recovers_when_secret_write_fails_after_add_version).   *)
RotationsFinish ==
  Mutating({"rotating"}) ~> ~Mutating({"rotating"})

==============================================================================
