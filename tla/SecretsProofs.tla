---------------------------- MODULE SecretsProofs ----------------------------
(***************************************************************************)
(* What holds of a managed secret whatever the number of calls, workloads, *)
(* plans and versions, and wherever calls die.                             *)
(*                                                                         *)
(* A call works with the record it has read, its draft, and the draft may  *)
(* be behind: what it still writes to Secret Manager must do no harm then. *)
(* So the invariant relates every draft to the record there is now         *)
(* (Precedes): versions, times and the workloads that may read only grow,  *)
(* and the version a rotating draft would switch off is left behind by the *)
(* record, or is about to be.                                              *)
(***************************************************************************)
EXTENDS Secrets, SequenceTheorems, FiniteSetTheorems, TLAPS

PlanRecord ==
    [mode : {"create", "attach", "rotate"}, workloads : (SUBSET Workloads) \ {{}}, number : Nat,
     active : Nat, created : 0..MaxTime, op : {"none", "queued", "succeeded", "recorded"}]
VersionRecord ==
    [state : {"enabled", "disabled", "destroyed"}, payload : Payloads \cup {None}, since : 0..MaxTime]
CloudRecord == [exists : BOOLEAN, readers : SUBSET Workloads, versions : Seq(VersionRecord)]

Enabled(v) == cloud.versions[v].state = "enabled"

MutatingSteps   == {"ensure", "ensured", "probe", "versions", "bind", "add", "added", "disable",
                    "disabled", "record"}
RotatingSteps   == {"versions", "disable", "disabled"}
MakingSteps     == {"ensure", "ensured", "add", "added"}
NewerSteps      == {"added", "disable", "disabled", "record"}
ReportingSteps  == {"mark", "result"}
ApplyingSteps   == MutatingSteps \cup ReportingSteps \cup {"consume", "stage", "resume"}
RetirementSteps == {"retire", "destroy", "destroyed"}

(* What is so of a record that is or was stored.                            *)
RecordStands(m) ==
    /\ m \in SecretRecords
    /\ IF m.mutation = "idle" THEN m.key = 0 /\ m.pending = {} /\ m.payload = None
       ELSE /\ m.key \in 1..Len(plans) /\ m.pending = plans[m.key].workloads
            /\ m.mutation = InFlight(plans[m.key].mode) /\ m.attached \subseteq m.pending
    /\ IF m.mutation = "creating" THEN m.active = 1 ELSE m.active \in Versions
    /\ m.rotation = "retiring" =>
          /\ m.retiring \in Versions /\ ~Enabled(m.retiring)
          /\ cloud.versions[m.retiring].since + Window <= m.notBefore

(* What was read of the record still bounds what the record is.             *)
Precedes(d, m) ==
    /\ d.number <= m.number /\ (d.number = m.number => d = m)
    /\ d.active <= m.active /\ d.updated <= m.updated
    /\ d.attached \subseteq m.attached
    /\ d.attached \cup d.pending \subseteq m.attached \cup m.pending
    /\ d.mutation = "rotating" => d.active < m.active \/ m.mutation = "rotating"

(* What a plan promised is so.                                              *)
Done(p) ==
    /\ meta # None /\ plans[p].workloads \subseteq meta.attached
    /\ plans[p].mode = "rotate" => plans[p].active < meta.active

(* Which versions are left enabled.                                         *)
VersionsStand(m) ==
    \A v \in Versions :
        /\ m.active < v \/ (m.active = v /\ m.mutation # "rotating") => Enabled(v)
        /\ ~Enabled(v) => cloud.versions[v].since <= m.updated

SecretStands ==
    IF meta = None THEN cloud = NoCloud
    ELSE /\ RecordStands(meta) /\ meta.updated <= clock /\ VersionsStand(meta)
         /\ cloud.readers \subseteq meta.attached \cup meta.pending

PlansStand ==
    /\ plans \in Seq(PlanRecord) /\ Len(plans) <= MaxPlans
    /\ \A p \in 1..Len(plans) :
          /\ plans[p].active <= IF meta = None THEN 0 ELSE meta.active
          /\ plans[p].op \in {"succeeded", "recorded"} => Done(p)

(* What a call holds at the step it is about to do.                         *)
CallStands(x) ==
    /\ x = IdleCall \/ x \in Calls
    /\ x.at # "idle" =>
        /\ x \in Calls /\ x.now <= clock
        /\ x.draft # None => meta # None /\ RecordStands(x.draft) /\ Precedes(x.draft, meta)
        /\ x.at \in ApplyingSteps => x.plan \in 1..Len(plans)
        /\ (x.at = "stage" \/ (x.at = "consume" /\ plans[x.plan].op = "none"))
              /\ plans[x.plan].mode # "create" => x.draft # None /\ x.draft.mutation = "idle"
        /\ x.at \in MutatingSteps =>
              x.draft # None /\ x.draft.mutation # "idle" /\ x.draft.key = x.plan
        /\ x.at \in RotatingSteps => x.draft.mutation = "rotating"
        /\ x.at \in MakingSteps => x.draft.mutation # "attaching"
        /\ x.at = "bind" => x.draft.mutation = "attaching"
        /\ x.at \in NewerSteps /\ x.draft.mutation = "rotating" =>
              x.new \in Versions /\ x.draft.active < x.new
        /\ x.at \in {"disabled", "record"} /\ x.draft.mutation = "rotating" => ~Enabled(x.draft.active)
        /\ x.at \in {"added", "record"} /\ x.draft.mutation = "creating" => 1 \in Versions
        /\ x.at \in ReportingSteps => Done(x.plan)
        /\ x.at \in RetirementSteps =>
              x.draft # None /\ x.draft.rotation = "retiring" /\ x.draft.notBefore <= x.now

SecretsInvariant ==
    /\ clock \in 0..MaxTime /\ trouble \in 0..MaxTrouble
    /\ meta \in {None} \cup SecretRecords
    /\ cloud \in CloudRecord /\ Len(cloud.versions) <= MaxVersions
    /\ SecretStands /\ PlansStand
    /\ calls = [c \in Callers |-> calls[c]]
    /\ \A c \in Callers : CallStands(calls[c])

(* What no step takes back, whoever takes it.                               *)
Progresses ==
    /\ clock <= clock' /\ clock' \in Nat
    /\ Len(cloud.versions) <= Len(cloud'.versions) /\ Len(cloud'.versions) \in Nat
    /\ \A v \in Versions : ~Enabled(v) =>
          ~Enabled(v)' /\ cloud'.versions[v].since = cloud.versions[v].since
    /\ Len(plans) <= Len(plans') /\ Len(plans') \in Nat
    /\ \A p \in 1..Len(plans) :
          /\ plans'[p].mode = plans[p].mode /\ plans'[p].workloads = plans[p].workloads
          /\ plans'[p].active = plans[p].active
          /\ plans'[p].op = "none" => plans[p].op = "none"
    /\ meta # None => meta' \in SecretRecords /\ meta' # None /\ Precedes(meta, meta')

-------------------------------------------------------------------------------
(* Facts about records and calls.                                              *)

(* The three kinds of step a mutation takes are told apart by its plan.        *)
LEMMA FlightsDiffer ==
    ASSUME NEW mode \in {"create", "attach", "rotate"}
    PROVE  /\ InFlight(mode) \in {"creating", "attaching", "rotating"}
           /\ InFlight(mode) = "creating" <=> mode = "create"
           /\ InFlight(mode) = "attaching" <=> mode = "attach"
           /\ InFlight(mode) = "rotating" <=> mode = "rotate"
BY DEF InFlight

(* A call in flight is a record with a step of its own.                        *)
LEMMA CallsAreNotIdle ==
    /\ IdleCall.at = "idle"
    /\ \A x \in Calls : x.at # "idle" /\ x # IdleCall
BY DEF IdleCall, Calls

LEMMA RecordsAreNotNone ==
    \A m \in SecretRecords : m # None
BY SecretParameters DEF SecretParameters

(* Nothing is lost of what was read, from one version of the record to the     *)
(* next and to itself.                                                         *)
LEMMA PrecedesItself ==
    ASSUME NEW m \in SecretRecords
    PROVE  Precedes(m, m)
BY DEF Precedes, SecretRecords

LEMMA PrecedesOnward ==
    ASSUME NEW d \in SecretRecords, NEW m \in SecretRecords, NEW n \in SecretRecords,
           Precedes(d, m), Precedes(m, n)
    PROVE  Precedes(d, n)
<1>1. /\ d.number \in Nat /\ m.number \in Nat /\ n.number \in Nat
      /\ d.active \in Nat /\ m.active \in Nat /\ n.active \in Nat
      /\ d.updated \in Int /\ m.updated \in Int /\ n.updated \in Int
  BY DEF SecretRecords
<1>2. d.number <= n.number /\ d.active <= n.active /\ d.updated <= n.updated
  BY <1>1 DEF Precedes
<1>3. d.number = n.number => d = n
  <2> SUFFICES ASSUME d.number = n.number PROVE d = n
    OBVIOUS
  <2>1. d.number = m.number /\ m.number = n.number
    BY <1>1 DEF Precedes
  <2> QED
    BY <2>1 DEF Precedes
<1>4. d.attached \subseteq n.attached /\ d.attached \cup d.pending \subseteq n.attached \cup n.pending
  BY DEF Precedes
<1>5. d.mutation = "rotating" => d.active < n.active \/ n.mutation = "rotating"
  BY <1>1 DEF Precedes
<1> QED
  BY <1>2, <1>3, <1>4, <1>5 DEF Precedes

(* What is so of a record stays so while calls add versions and switch old     *)
(* ones off, and plans are made and consumed.                                  *)
LEMMA RecordKeeps ==
    ASSUME SecretsInvariant, Progresses, NEW m, RecordStands(m)
    PROVE  RecordStands(m)'
<1>1. Len(cloud.versions) \in Nat /\ Len(plans) \in Nat
  BY LenProperties DEF SecretsInvariant, CloudRecord, PlansStand
<1>2. Versions \subseteq Versions' /\ 1..Len(plans) \subseteq 1..Len(plans')
  BY <1>1 DEF Progresses, Versions
<1>3. m \in SecretRecords
  BY DEF RecordStands
<1>4. IF m.mutation = "idle" THEN m.key = 0 /\ m.pending = {} /\ m.payload = None
      ELSE /\ m.key \in 1..Len(plans') /\ m.pending = plans'[m.key].workloads
           /\ m.mutation = InFlight(plans'[m.key].mode) /\ m.attached \subseteq m.pending
  <2>1. CASE m.mutation = "idle"
    BY <2>1 DEF RecordStands
  <2>2. CASE m.mutation # "idle"
    <3>1. m.key \in 1..Len(plans) /\ m.pending = plans[m.key].workloads
          /\ m.mutation = InFlight(plans[m.key].mode) /\ m.attached \subseteq m.pending
      BY <2>2 DEF RecordStands
    <3>2. plans'[m.key].mode = plans[m.key].mode /\ plans'[m.key].workloads = plans[m.key].workloads
      BY <3>1 DEF Progresses
    <3> QED
      BY <3>1, <3>2, <2>2, <1>2
  <2> QED
    BY <2>1, <2>2
<1>5. IF m.mutation = "creating" THEN m.active = 1 ELSE m.active \in Versions'
  BY <1>2 DEF RecordStands
<1>6. m.rotation = "retiring" =>
        /\ m.retiring \in Versions' /\ ~Enabled(m.retiring)'
        /\ cloud'.versions[m.retiring].since + Window <= m.notBefore
  <2> SUFFICES ASSUME m.rotation = "retiring"
               PROVE  /\ m.retiring \in Versions' /\ ~Enabled(m.retiring)'
                      /\ cloud'.versions[m.retiring].since + Window <= m.notBefore
    OBVIOUS
  <2>1. m.retiring \in Versions /\ ~Enabled(m.retiring)
        /\ cloud.versions[m.retiring].since + Window <= m.notBefore
    BY DEF RecordStands
  <2>2. ~Enabled(m.retiring)' /\ cloud'.versions[m.retiring].since = cloud.versions[m.retiring].since
    BY <2>1 DEF Progresses
  <2> QED
    BY <2>1, <2>2, <1>2
<1> QED
  BY <1>3, <1>4, <1>5, <1>6 DEF RecordStands

(* So does what a call holds.                                                  *)
LEMMA CallKeeps ==
    ASSUME SecretsInvariant, Progresses, NEW x, CallStands(x)
    PROVE  CallStands(x)'
<1>1. Len(cloud.versions) \in Nat /\ Len(plans) \in Nat
  BY LenProperties DEF SecretsInvariant, CloudRecord, PlansStand
<1>2. Versions \subseteq Versions' /\ 1..Len(plans) \subseteq 1..Len(plans')
  BY <1>1 DEF Progresses, Versions
<1>3. x = IdleCall \/ x \in Calls
  BY DEF CallStands
<1>4. CASE x.at = "idle"
  BY <1>4, <1>3 DEF CallStands
<1>5. CASE x.at # "idle"
  <2>1. x \in Calls /\ x.now <= clock /\ x.now \in Int /\ clock \in Nat /\ clock' \in Nat
    BY <1>5, SecretParameters DEF CallStands, Calls, SecretsInvariant, Progresses, SecretParameters
  <2>2. x.now <= clock'
    BY <2>1 DEF Progresses
  <2>3. x.draft # None => meta' # None /\ RecordStands(x.draft)' /\ Precedes(x.draft, meta')
    <3> SUFFICES ASSUME x.draft # None
                 PROVE  meta' # None /\ RecordStands(x.draft)' /\ Precedes(x.draft, meta')
      OBVIOUS
    <3>1. meta # None /\ RecordStands(x.draft) /\ Precedes(x.draft, meta)
      BY <1>5 DEF CallStands
    <3>2. meta' \in SecretRecords /\ meta' # None /\ Precedes(meta, meta')
      BY <3>1 DEF Progresses
    <3>3. x.draft \in SecretRecords /\ meta \in SecretRecords
      BY <3>1 DEF RecordStands, SecretsInvariant
    <3>4. Precedes(x.draft, meta')
      BY <3>1, <3>2, <3>3, PrecedesOnward
    <3>5. PICK d : d = x.draft
      OBVIOUS
    <3>6. RecordStands(d)'
      BY <3>1, <3>5, RecordKeeps
    <3> QED
      BY <3>2, <3>4, <3>5, <3>6
  <2>4. x.at \in ApplyingSteps => x.plan \in 1..Len(plans) /\ x.plan \in 1..Len(plans')
    BY <1>5, <1>2 DEF CallStands
  <2>5. (x.at = "stage" \/ (x.at = "consume" /\ plans'[x.plan].op = "none"))
          /\ plans'[x.plan].mode # "create" => x.draft # None /\ x.draft.mutation = "idle"
    <3> SUFFICES ASSUME x.at = "stage" \/ (x.at = "consume" /\ plans'[x.plan].op = "none"),
                        plans'[x.plan].mode # "create"
                 PROVE  x.draft # None /\ x.draft.mutation = "idle"
      OBVIOUS
    <3>1. x.plan \in 1..Len(plans)
      BY <2>4 DEF ApplyingSteps
    <3>2. plans[x.plan].mode # "create" /\ (plans'[x.plan].op = "none" => plans[x.plan].op = "none")
      BY <3>1 DEF Progresses
    <3> QED
      BY <3>2, <1>5 DEF CallStands
  <2>6. /\ x.at \in MutatingSteps => x.draft # None /\ x.draft.mutation # "idle" /\ x.draft.key = x.plan
        /\ x.at \in RotatingSteps => x.draft.mutation = "rotating"
        /\ x.at \in MakingSteps => x.draft.mutation # "attaching"
        /\ x.at = "bind" => x.draft.mutation = "attaching"
    BY <1>5 DEF CallStands
  <2>7. x.at \in NewerSteps /\ x.draft.mutation = "rotating" => x.new \in Versions' /\ x.draft.active < x.new
    BY <1>5, <1>2 DEF CallStands
  <2>8. x.at \in {"disabled", "record"} /\ x.draft.mutation = "rotating" => ~Enabled(x.draft.active)'
    <3> SUFFICES ASSUME x.at \in {"disabled", "record"}, x.draft.mutation = "rotating"
                 PROVE  ~Enabled(x.draft.active)'
      OBVIOUS
    <3>1. ~Enabled(x.draft.active) /\ x.draft # None
      BY <1>5, <2>6 DEF CallStands, MutatingSteps
    <3>2. x.draft.active \in Versions
      BY <1>5, <3>1 DEF CallStands, RecordStands
    <3> QED
      BY <3>1, <3>2 DEF Progresses
  <2>9. x.at \in {"added", "record"} /\ x.draft.mutation = "creating" => 1 \in Versions'
    BY <1>5, <1>2 DEF CallStands
  <2>10. x.at \in ReportingSteps => Done(x.plan)'
    <3> SUFFICES ASSUME x.at \in ReportingSteps PROVE Done(x.plan)'
      OBVIOUS
    <3>1. Done(x.plan) /\ x.plan \in 1..Len(plans)
      BY <1>5, <2>4 DEF CallStands, ApplyingSteps
    <3>2. meta # None /\ meta' \in SecretRecords /\ meta' # None /\ Precedes(meta, meta')
          /\ meta \in SecretRecords
      BY <3>1 DEF Done, Progresses, SecretsInvariant
    <3>3. /\ plans'[x.plan].mode = plans[x.plan].mode
          /\ plans'[x.plan].workloads = plans[x.plan].workloads
          /\ plans'[x.plan].active = plans[x.plan].active
      BY <3>1 DEF Progresses
    <3>4. plans[x.plan].active \in Nat /\ meta.active \in Nat /\ meta'.active \in Nat
      <4>1. plans[x.plan] \in PlanRecord
        BY <3>1, ElementOfSeq DEF SecretsInvariant, PlansStand
      <4> QED
        BY <4>1, <3>2 DEF PlanRecord, SecretRecords
    <3>5. meta.attached \subseteq meta'.attached /\ meta.active <= meta'.active
      BY <3>2 DEF Precedes
    <3>6. plans'[x.plan].workloads \subseteq meta'.attached
      BY <3>1, <3>3, <3>5 DEF Done
    <3>7. plans'[x.plan].mode = "rotate" => plans'[x.plan].active < meta'.active
      BY <3>1, <3>3, <3>4, <3>5 DEF Done
    <3> QED
      BY <3>2, <3>6, <3>7 DEF Done
  <2>11. x.at \in RetirementSteps =>
            x.draft # None /\ x.draft.rotation = "retiring" /\ x.draft.notBefore <= x.now
    BY <1>5 DEF CallStands
  <2> QED
    BY <1>3, <2>1, <2>2, <2>3, <2>4, <2>5, <2>6, <2>7, <2>8, <2>9, <2>10, <2>11 DEF CallStands
<1> QED
  BY <1>4, <1>5

-------------------------------------------------------------------------------
(* The kinds of step.                                                          *)

(* The parts of the invariant, one fact each.                                  *)
LEMMA SecretsFacts ==
    ASSUME SecretsInvariant
    PROVE  /\ clock \in Nat /\ clock \in 0..MaxTime /\ Window \in Nat
           /\ Len(plans) \in Nat /\ Len(cloud.versions) \in Nat
           /\ MaxPlans \in Nat /\ MaxTime \in Nat /\ MaxVersions \in Nat \ {0} /\ MaxTrouble \in Nat
           /\ \A p \in 1..Len(plans) : plans[p] \in PlanRecord
           /\ \A v \in Versions : cloud.versions[v] \in VersionRecord
           /\ \A c \in Callers : CallStands(calls[c])
           /\ meta # None => meta \in SecretRecords
<1>1. plans \in Seq(PlanRecord) /\ cloud.versions \in Seq(VersionRecord)
  BY DEF SecretsInvariant, PlansStand, CloudRecord
<1>2. Len(plans) \in Nat /\ Len(cloud.versions) \in Nat
  BY <1>1, LenProperties
<1>3. \A p \in 1..Len(plans) : plans[p] \in PlanRecord
  BY <1>1, ElementOfSeq
<1>4. \A v \in 1..Len(cloud.versions) : cloud.versions[v] \in VersionRecord
  BY <1>1, ElementOfSeq
<1> QED
  BY <1>2, <1>3, <1>4, SecretParameters DEF SecretsInvariant, SecretParameters, Versions

LEMMA TimesAreNumbers ==
    /\ \A n \in 0..MaxTime : n \in Nat
    /\ \A m \in SecretRecords : m.updated \in Nat /\ m.notBefore \in Nat /\ m.active \in Nat
    /\ Window \in Nat
<1>1. MaxTime \in Nat /\ Window \in Nat
  BY SecretParameters DEF SecretParameters
<1>2. \A n \in 0..MaxTime : n \in Nat
  BY <1>1
<1>3. ASSUME NEW m \in SecretRecords
      PROVE  m.updated \in 0..MaxTime /\ m.notBefore \in Nat /\ m.active \in Nat
  BY DEF SecretRecords
<1> QED
  BY <1>1, <1>2, <1>3

(* Other calls hold what they held; the one that moved is given.               *)
LEMMA OneCallMoves ==
    ASSUME SecretsInvariant, Progresses, NEW c \in Callers, NEW x,
           calls' = [calls EXCEPT ![c] = x], CallStands(x)'
    PROVE  /\ calls' = [e \in Callers |-> calls'[e]]
           /\ \A e \in Callers : CallStands(calls[e])'
<1>1. calls = [e \in Callers |-> calls[e]]
  BY DEF SecretsInvariant
<1>2. calls' = [e \in Callers |-> IF e = c THEN x ELSE calls[e]]
  BY <1>1
<1>3. calls' = [e \in Callers |-> calls'[e]]
  BY <1>2
<1>4. ASSUME NEW e \in Callers
      PROVE  CallStands(calls[e])'
  <2>1. PICK y : y = calls[e]
    OBVIOUS
  <2>2. CallStands(y)'
    BY <2>1, CallKeeps DEF SecretsInvariant
  <2>3. calls'[e] = IF e = c THEN x ELSE y
    BY <1>2, <2>1
  <2>4. PICK z : z = IF e = c THEN x ELSE y
    OBVIOUS
  <2>5. CallStands(z)'
    BY <2>2, <2>4
  <2> QED
    BY <2>3, <2>4, <2>5
<1> QED
  BY <1>3, <1>4

LEMMA NobodyMoves ==
    ASSUME SecretsInvariant, Progresses, UNCHANGED calls
    PROVE  /\ calls' = [e \in Callers |-> calls'[e]]
           /\ \A e \in Callers : CallStands(calls[e])'
<1>1. calls = [e \in Callers |-> calls[e]] /\ calls' = calls
  BY DEF SecretsInvariant
<1>2. ASSUME NEW e \in Callers
      PROVE  CallStands(calls[e])'
  <2>1. PICK y : y = calls[e]
    OBVIOUS
  <2>2. CallStands(y)'
    BY <2>1, CallKeeps DEF SecretsInvariant
  <2> QED
    BY <2>1, <2>2, <1>1
<1> QED
  BY <1>1, <1>2

LEMMA IdleStands ==
    /\ CallStands(IdleCall) /\ CallStands(IdleCall)'
BY CallsAreNotIdle DEF CallStands, IdleCall

(* A step of a call alone.                                                     *)
LEMMA StandingStill ==
    ASSUME SecretsInvariant, UNCHANGED << clock, meta, cloud, plans >>
    PROVE  Progresses
<1>1. meta # None => Precedes(meta, meta)
  BY PrecedesItself, SecretsFacts
<1> QED
  BY <1>1, SecretsFacts DEF Progresses, Enabled

LEMMA QuietMove ==
    ASSUME SecretsInvariant, NEW c \in Callers, NEW x, trouble' \in 0..MaxTrouble,
           calls' = [calls EXCEPT ![c] = x], CallStands(x),
           UNCHANGED << clock, meta, cloud, plans >>
    PROVE  SecretsInvariant'
<1>1. Progresses
  BY StandingStill
<1>2. CallStands(x)'
  BY <1>1, CallKeeps
<1>3. calls' = [e \in Callers |-> calls'[e]] /\ \A e \in Callers : CallStands(calls[e])'
  BY <1>1, <1>2, OneCallMoves
<1>4. SecretStands' /\ PlansStand'
  BY DEF SecretsInvariant, SecretStands, PlansStand, RecordStands, VersionsStand, Versions, Enabled, Done
<1> QED
  BY <1>3, <1>4 DEF SecretsInvariant

(* A step of a call that ends it without an answer.                            *)
LEMMA DenialMoves ==
    ASSUME SecretsInvariant, NEW c \in Callers, Denied(c), trouble' \in 0..MaxTrouble,
           UNCHANGED << clock, meta, cloud, plans >>
    PROVE  SecretsInvariant'
<1>1. PICK x : x = IdleCall
  OBVIOUS
<1>2. CallStands(x)
  BY <1>1, IdleStands
<1>3. calls' = [calls EXCEPT ![c] = x]
  BY <1>1 DEF Denied
<1> QED
  BY <1>2, <1>3, QuietMove

(* A step that writes to Secret Manager.                                       *)
LEMMA CloudMove ==
    ASSUME SecretsInvariant, Progresses, meta # None, trouble' \in 0..MaxTrouble,
           UNCHANGED << clock, meta, plans >>,
           cloud' \in CloudRecord, Len(cloud'.versions) <= MaxVersions,
           cloud'.readers \subseteq meta.attached \cup meta.pending,
           VersionsStand(meta)',
           calls' = [e \in Callers |-> calls'[e]], \A e \in Callers : CallStands(calls[e])'
    PROVE  SecretsInvariant'
<1>1. PICK m : m = meta
  OBVIOUS
<1>2. RecordStands(m)'
  BY <1>1, RecordKeeps DEF SecretsInvariant, SecretStands
<1>3. SecretStands'
  BY <1>1, <1>2 DEF SecretsInvariant, SecretStands
<1>4. PlansStand'
  BY DEF SecretsInvariant, PlansStand, Done
<1> QED
  BY <1>3, <1>4 DEF SecretsInvariant

(* Binding workloads changes who may read, and nothing of the versions.        *)
LEMMA BindingMoves ==
    ASSUME SecretsInvariant, meta # None, trouble' \in 0..MaxTrouble,
           NEW readers \in SUBSET Workloads, NEW exists \in BOOLEAN,
           cloud' = [cloud EXCEPT !.exists = exists, !.readers = readers],
           readers \subseteq meta.attached \cup meta.pending,
           UNCHANGED << clock, meta, plans >>
    PROVE  /\ Progresses
           /\ cloud' \in CloudRecord /\ Len(cloud'.versions) <= MaxVersions
           /\ cloud'.readers \subseteq meta.attached \cup meta.pending
           /\ VersionsStand(meta)'
<1>1. cloud \in CloudRecord /\ Len(cloud.versions) <= MaxVersions
  BY DEF SecretsInvariant
<1>2. cloud' \in CloudRecord /\ cloud'.versions = cloud.versions /\ cloud'.readers = readers
  BY <1>1 DEF CloudRecord
<1>3. Precedes(meta, meta)
  BY PrecedesItself, SecretsFacts
<1>4. Progresses
  BY <1>2, <1>3, SecretsFacts DEF Progresses, Enabled, Versions
<1>5. VersionsStand(meta)'
  BY <1>2 DEF SecretsInvariant, SecretStands, VersionsStand, Versions, Enabled
<1> QED
  BY <1>1, <1>2, <1>4, <1>5

(* A step that writes the record.                                              *)
LEMMA SavingProgresses ==
    ASSUME SecretsInvariant, NEW new \in SecretRecords, meta' = new,
           meta # None => Precedes(meta, new),
           UNCHANGED << clock, cloud, plans >>
    PROVE  Progresses
<1>1. meta' \in SecretRecords /\ meta' # None
  BY RecordsAreNotNone
<1>2. meta # None => Precedes(meta, meta')
  OBVIOUS
<1> QED
  BY <1>1, <1>2, SecretsFacts DEF Progresses, Enabled

LEMMA SavingMove ==
    ASSUME SecretsInvariant, NEW new \in SecretRecords, meta' = new, UNCHANGED trouble,
           meta # None => Precedes(meta, new),
           UNCHANGED << clock, cloud, plans >>,
           RecordStands(new), VersionsStand(new), new.updated <= clock,
           cloud.readers \subseteq new.attached \cup new.pending,
           NEW c \in Callers, NEW x, calls' = [calls EXCEPT ![c] = x], CallStands(x)'
    PROVE  SecretsInvariant'
<1>1. Progresses
  BY SavingProgresses
<1>2. calls' = [e \in Callers |-> calls'[e]] /\ \A e \in Callers : CallStands(calls[e])'
  BY <1>1, OneCallMoves
<1>3. RecordStands(new)'
  BY <1>1, RecordKeeps
<1>4. VersionsStand(new)'
  BY DEF VersionsStand, Versions, Enabled
<1>5. meta' # None
  BY RecordsAreNotNone
<1>6. SecretStands'
  BY <1>3, <1>4, <1>5 DEF SecretStands
<1>7. PlansStand'
  <2>1. ASSUME NEW p \in 1..Len(plans)
        PROVE  /\ plans[p].active <= new.active
               /\ plans[p].op \in {"succeeded", "recorded"} => Done(p)'
    <3>1. plans[p].active <= (IF meta = None THEN 0 ELSE meta.active) /\ plans[p].active \in Nat
          /\ (plans[p].op \in {"succeeded", "recorded"} => Done(p))
      BY SecretsFacts DEF SecretsInvariant, PlansStand, PlanRecord
    <3>2. new.active \in Nat /\ (meta # None => meta.active \in Nat)
      BY SecretsFacts DEF SecretRecords
    <3>3. meta # None => meta.active <= new.active /\ meta.attached \subseteq new.attached
      BY DEF Precedes
    <3>4. plans[p].active <= new.active
      BY <3>1, <3>2, <3>3
    <3>5. Done(p) => Done(p)'
      BY <3>1, <3>2, <3>3, <1>5 DEF Done
    <3> QED
      BY <3>1, <3>4, <3>5
  <2> QED
    BY <2>1, <1>5 DEF SecretsInvariant, PlansStand
<1> QED
  BY <1>2, <1>6, <1>7 DEF SecretsInvariant

-------------------------------------------------------------------------------
(* Steps that read.                                                            *)

LEMMA BeginningMoves ==
    ASSUME SecretsInvariant, NEW c \in Callers, NEW p \in 1..Len(plans), NEW payload \in Payloads,
           BeginApply(c, p, payload)
    PROVE  SecretsInvariant'
<1>1. PICK x : x = [at |-> "consume", plan |-> p, payload |-> payload, now |-> clock,
                    draft |-> meta, new |-> 0]
  OBVIOUS
<1>2. x \in Calls /\ x.at = "consume" /\ x.plan = p /\ x.draft = meta /\ x.now = clock
  <2>1. p \in 0..MaxPlans /\ 0 \in 0..MaxVersions /\ clock \in 0..MaxTime
    BY SecretsFacts DEF SecretsInvariant, PlansStand
  <2>2. meta \in {None} \cup SecretRecords
    BY DEF SecretsInvariant
  <2> QED
    BY <1>1, <2>1, <2>2 DEF Calls
<1>3. meta # None => RecordStands(meta) /\ Precedes(meta, meta)
  BY PrecedesItself DEF SecretsInvariant, SecretStands, RecordStands
<1>4. plans[p].op = "none" /\ plans[p].mode # "create" => meta # None /\ meta.mutation = "idle"
  BY DEF BeginApply, Fresh
<1>5. clock <= clock
  BY SecretsFacts
<1>6. CallStands(x)
  BY <1>2, <1>3, <1>4, <1>5
     DEF CallStands, ApplyingSteps, MutatingSteps, RotatingSteps, MakingSteps, NewerSteps,
         ReportingSteps, RetirementSteps
<1>7. calls' = [calls EXCEPT ![c] = x] /\ UNCHANGED << clock, meta, cloud, plans >>
      /\ trouble' \in 0..MaxTrouble
  BY <1>1 DEF BeginApply, SecretsInvariant
<1> QED
  BY <1>6, <1>7, QuietMove

LEMMA BeginningRetirementMoves ==
    ASSUME SecretsInvariant, NEW c \in Callers, BeginRetirement(c)
    PROVE  SecretsInvariant'
<1>1. PICK x : x = [at |-> "retire", plan |-> 0, payload |-> None, now |-> clock,
                    draft |-> meta, new |-> 0]
  OBVIOUS
<1>2. x \in Calls /\ x.at = "retire" /\ x.draft = meta /\ x.now = clock
  <2>1. 0 \in 0..MaxPlans /\ 0 \in 0..MaxVersions /\ clock \in 0..MaxTime
    BY SecretsFacts
  <2>2. meta \in {None} \cup SecretRecords
    BY DEF SecretsInvariant
  <2> QED
    BY <1>1, <2>1, <2>2 DEF Calls
<1>3. meta # None /\ RecordStands(meta) /\ Precedes(meta, meta)
  BY PrecedesItself DEF SecretsInvariant, SecretStands, RecordStands, BeginRetirement
<1>4. meta.rotation = "retiring" /\ meta.notBefore <= clock
  <2>1. meta.rotation = "retiring" /\ clock >= meta.notBefore /\ meta.notBefore \in Nat
    BY <1>3 DEF BeginRetirement, RetirementDue, RecordStands, SecretRecords
  <2> QED
    BY <2>1, SecretsFacts
<1>5. clock <= clock
  BY SecretsFacts
<1>6. CallStands(x)
  BY <1>2, <1>3, <1>4, <1>5
     DEF CallStands, ApplyingSteps, MutatingSteps, RotatingSteps, MakingSteps, NewerSteps,
         ReportingSteps, RetirementSteps
<1>7. calls' = [calls EXCEPT ![c] = x] /\ UNCHANGED << clock, meta, cloud, plans >>
      /\ trouble' \in 0..MaxTrouble
  BY <1>1 DEF BeginRetirement, SecretsInvariant
<1> QED
  BY <1>6, <1>7, QuietMove

(* Going on to another step keeps what the call has read.                      *)
LEMMA GoingOn ==
    ASSUME NEW s \in Calls, NEW x, NEW step, x = [s EXCEPT !.at = step],
           step \in {"consume", "stage", "resume", "ensure", "ensured", "probe", "versions",
                     "bind", "add", "added", "disable", "disabled", "record", "mark", "result",
                     "retire", "destroy", "destroyed"}
    PROVE  /\ x \in Calls /\ x.at = step /\ x.plan = s.plan /\ x.draft = s.draft
           /\ x.now = s.now /\ x.new = s.new /\ x.payload = s.payload
BY DEF Calls

(* A call in flight, and what stands of it.                                    *)
LEMMA InCall ==
    ASSUME SecretsInvariant, NEW c \in Callers, NEW s, s = calls[c], s.at # "idle"
    PROVE  /\ CallStands(s) /\ s \in Calls /\ s.now <= clock /\ s.now \in 0..MaxTime
           /\ s.draft \in {None} \cup SecretRecords
           /\ s.draft # None => /\ meta # None /\ RecordStands(s.draft) /\ Precedes(s.draft, meta)
                                /\ s.draft \in SecretRecords /\ meta \in SecretRecords
<1>1. CallStands(s)
  BY DEF SecretsInvariant
<1>2. s \in Calls /\ s.now <= clock
  BY <1>1 DEF CallStands
<1>3. s.draft # None => meta # None /\ RecordStands(s.draft) /\ Precedes(s.draft, meta)
  BY <1>1 DEF CallStands
<1> QED
  BY <1>1, <1>2, <1>3 DEF Calls, SecretsInvariant

(* The values Secret Manager shows a call.                                     *)
LEMMA InEnabled ==
    /\ In("enabled") = { v \in Versions : Enabled(v) }
    /\ In("disabled") \subseteq { v \in Versions : ~Enabled(v) }
    /\ In("destroyed") \subseteq { v \in Versions : ~Enabled(v) }
BY DEF In, Enabled

LEMMA ResumingMoves ==
    ASSUME SecretsInvariant, NEW c \in Callers, Resume(c)
    PROVE  SecretsInvariant'
<1>1. PICK s : s = calls[c]
  OBVIOUS
<1>2. s.at = "resume" /\ UNCHANGED << clock, meta, cloud, plans >> /\ trouble' \in 0..MaxTrouble
  BY <1>1 DEF Resume, SecretsInvariant
<1>3. /\ CallStands(s) /\ s \in Calls /\ s.now <= clock
      /\ s.draft # None => /\ meta # None /\ RecordStands(s.draft) /\ Precedes(s.draft, meta)
                           /\ s.draft \in SecretRecords /\ meta \in SecretRecords
  BY <1>1, <1>2, InCall
<1>4. s.plan \in 1..Len(plans) /\ plans[s.plan] \in PlanRecord
  BY <1>2, <1>3, SecretsFacts DEF CallStands, ApplyingSteps
<1>5. PICK q : q = plans[s.plan]
  OBVIOUS
<1>6. \/ s.draft # None /\ FinalExact(s.draft, q) /\ Goto(c, "mark")
      \/ Resumable(s, q) /\ Goto(c, IF q.mode = "create" THEN "ensure" ELSE "probe")
      \/ Denied(c)
  BY <1>1, <1>5 DEF Resume
<1>7. CASE s.draft # None /\ FinalExact(s.draft, q) /\ Goto(c, "mark")
  <2>1. PICK x : x = [s EXCEPT !.at = "mark"]
    OBVIOUS
  <2>2. /\ x \in Calls /\ x.at = "mark" /\ x.plan = s.plan /\ x.draft = s.draft
        /\ x.now = s.now /\ x.new = s.new
    BY <2>1, <1>3, GoingOn
  <2>3. s.draft.attached = q.workloads /\ (q.mode = "rotate" => s.draft.active > q.active)
    BY <1>7, <1>4, <1>5 DEF FinalExact, PlanRecord
  <2>4. s.draft.active \in Nat /\ meta.active \in Nat /\ q.active \in Nat
    BY <1>3, <1>4, <1>5, <1>7 DEF SecretRecords, PlanRecord
  <2>5. Done(s.plan)
    BY <1>3, <1>5, <1>7, <2>3, <2>4 DEF Done, Precedes
  <2>6. CallStands(x)
    BY <1>3, <1>4, <1>7, <2>2, <2>5
       DEF CallStands, ApplyingSteps, MutatingSteps, RotatingSteps, MakingSteps, NewerSteps,
           ReportingSteps, RetirementSteps
  <2>7. calls' = [calls EXCEPT ![c] = x]
    BY <1>1, <1>7, <2>1 DEF Goto
  <2> QED
    BY <1>2, <2>6, <2>7, QuietMove
<1>8. CASE Resumable(s, q) /\ Goto(c, IF q.mode = "create" THEN "ensure" ELSE "probe")
  <2>1. PICK step : step = IF q.mode = "create" THEN "ensure" ELSE "probe"
    OBVIOUS
  <2>2. PICK x : x = [s EXCEPT !.at = step]
    OBVIOUS
  <2>3. /\ x \in Calls /\ x.at = step /\ x.plan = s.plan /\ x.draft = s.draft
        /\ x.now = s.now /\ x.new = s.new
    BY <2>1, <2>2, <1>3, GoingOn
  <2>4. s.draft # None /\ s.draft.key = s.plan /\ s.draft.mutation = InFlight(q.mode)
    BY <1>8 DEF Resumable
  <2>5. q.mode \in {"create", "attach", "rotate"}
    BY <1>4, <1>5 DEF PlanRecord
  <2>6. s.draft.mutation # "idle" /\ (step = "ensure" => s.draft.mutation # "attaching")
    BY <2>1, <2>4, <2>5, FlightsDiffer
  <2>7. CallStands(x)
    BY <1>3, <1>4, <2>1, <2>3, <2>4, <2>6
       DEF CallStands, ApplyingSteps, MutatingSteps, RotatingSteps, MakingSteps, NewerSteps,
           ReportingSteps, RetirementSteps
  <2>8. calls' = [calls EXCEPT ![c] = x]
    BY <1>1, <1>8, <2>1, <2>2 DEF Goto
  <2> QED
    BY <1>2, <2>7, <2>8, QuietMove
<1>9. CASE Denied(c)
  BY <1>2, <1>9, DenialMoves
<1> QED
  BY <1>6, <1>7, <1>8, <1>9

(* Two fields of a call written at once.                                       *)
LEMMA TwoFields ==
    ASSUME SecretsInvariant, NEW c \in Callers, NEW s \in Calls, s = calls[c], NEW step, NEW value
    PROVE  /\ [calls EXCEPT ![c].at = step, ![c].new = value]
                = [calls EXCEPT ![c] = [s EXCEPT !.at = step, !.new = value]]
           /\ [calls EXCEPT ![c].new = value, ![c].at = step]
                = [calls EXCEPT ![c] = [s EXCEPT !.at = step, !.new = value]]
           /\ [calls EXCEPT ![c].draft = value, ![c].at = step]
                = [calls EXCEPT ![c] = [s EXCEPT !.at = step, !.draft = value]]
<1>1. calls = [e \in Callers |-> calls[e]]
  BY DEF SecretsInvariant
<1>2. [[s EXCEPT !.at = step] EXCEPT !.new = value] = [s EXCEPT !.at = step, !.new = value]
      /\ [[s EXCEPT !.new = value] EXCEPT !.at = step] = [s EXCEPT !.at = step, !.new = value]
      /\ [[s EXCEPT !.draft = value] EXCEPT !.at = step] = [s EXCEPT !.at = step, !.draft = value]
  BY DEF Calls
<1> QED
  BY <1>1, <1>2

(* What a rotation takes from the versions it finds.                           *)
LEMMA RotationTakes ==
    ASSUME SecretsInvariant, NEW c \in Callers, NEW s, s = calls[c], s.at \in {"probe", "versions"},
           s.draft.mutation = "rotating", Take(c, RotateStep(s)),
           UNCHANGED << clock, meta, cloud, plans >>, trouble' \in 0..MaxTrouble
    PROVE  SecretsInvariant'
<1>1. /\ CallStands(s) /\ s \in Calls /\ s.now <= clock
      /\ s.draft # None => /\ meta # None /\ RecordStands(s.draft) /\ Precedes(s.draft, meta)
                           /\ s.draft \in SecretRecords /\ meta \in SecretRecords
  BY InCall
<1>2. s.draft # None /\ s.draft.key = s.plan /\ s.plan \in 1..Len(plans)
  BY <1>1 DEF CallStands, MutatingSteps, ApplyingSteps
<1>3. s.draft.active \in Versions
  BY <1>1, <1>2 DEF RecordStands
<1>4. PICK step : step = RotateStep(s)
  OBVIOUS
<1>5. CASE step = "denied"
  BY <1>4, <1>5, DenialMoves DEF Take
<1>6. CASE step # "denied"
  <2>1. PICK newer : newer = Newer(s)
    OBVIOUS
  <2>2. PICK n : n = IF newer # {} THEN CHOOSE v \in newer : TRUE ELSE 0
    OBVIOUS
  <2>3. newer # {} => n \in newer
    BY <2>2
  <2>4. newer \subseteq { v \in Versions : Enabled(v) /\ v > s.draft.active }
    BY <2>1, InEnabled DEF Newer
  <2>5. newer # {} => n \in Versions /\ s.draft.active < n
    <3>1. s.draft.active \in Nat
      BY <1>1, <1>2 DEF SecretRecords
    <3> QED
      BY <2>3, <2>4, <3>1, SecretsFacts DEF Versions
  <2>6. \/ step = "add" /\ newer = {}
        \/ step = "disable" /\ newer # {}
        \/ step = "record" /\ newer # {} /\ ~Enabled(s.draft.active)
    <3>1. s.draft.active \in In("enabled") <=> Enabled(s.draft.active)
      BY <1>3, InEnabled
    <3> QED
      BY <1>4, <1>6, <2>1, <3>1 DEF RotateStep
  <2>7. n \in 0..MaxVersions
    BY <2>2, <2>5, SecretsFacts DEF Versions, SecretsInvariant
  <2>8. PICK x : x = [s EXCEPT !.at = step, !.new = n]
    OBVIOUS
  <2>9. /\ x \in Calls /\ x.at = step /\ x.plan = s.plan /\ x.draft = s.draft
        /\ x.now = s.now /\ x.new = n
    BY <1>1, <2>6, <2>7, <2>8 DEF Calls
  <2>10. CallStands(x)
    BY <1>1, <1>2, <2>5, <2>6, <2>9 
       DEF CallStands, ApplyingSteps, MutatingSteps, RotatingSteps, MakingSteps, NewerSteps,
           ReportingSteps, RetirementSteps
  <2>11. calls' = [calls EXCEPT ![c].at = step, ![c].new = n]
    <3>1. n = IF s.draft.mutation = "creating" THEN 1
              ELSE IF Newer(s) = {} THEN 0 ELSE CHOOSE v \in Newer(s) : TRUE
      BY <2>1, <2>2
    <3> QED
      BY <1>4, <1>6, <3>1 DEF Take
  <2>12. calls' = [calls EXCEPT ![c] = x]
    BY <1>1, <2>8, <2>11, TwoFields
  <2> QED
    BY <2>10, <2>12, QuietMove
<1> QED
  BY <1>5, <1>6

(* What a creation takes from them.                                            *)
LEMMA CreationTakes ==
    ASSUME SecretsInvariant, NEW c \in Callers, NEW s, s = calls[c], s.at = "probe",
           s.draft.mutation = "creating", Take(c, CreateStep),
           UNCHANGED << clock, meta, cloud, plans >>, trouble' \in 0..MaxTrouble
    PROVE  SecretsInvariant'
<1>1. /\ CallStands(s) /\ s \in Calls /\ s.now <= clock
      /\ s.draft # None => /\ meta # None /\ RecordStands(s.draft) /\ Precedes(s.draft, meta)
                           /\ s.draft \in SecretRecords /\ meta \in SecretRecords
  BY InCall
<1>2. s.draft # None /\ s.draft.key = s.plan /\ s.plan \in 1..Len(plans)
  BY <1>1 DEF CallStands, MutatingSteps, ApplyingSteps
<1>3. PICK step : step = CreateStep
  OBVIOUS
<1>4. CASE step = "denied"
  BY <1>3, <1>4, DenialMoves DEF Take
<1>5. CASE step # "denied"
  <2>1. step = "add" \/ (step = "record" /\ 1 \in Versions)
    <3>1. In("enabled") = {1} => 1 \in Versions
      BY InEnabled
    <3> QED
      BY <1>3, <1>5, <3>1 DEF CreateStep
  <2>2. PICK x : x = [s EXCEPT !.at = step, !.new = 1]
    OBVIOUS
  <2>3. /\ x \in Calls /\ x.at = step /\ x.plan = s.plan /\ x.draft = s.draft /\ x.now = s.now
    <3>1. 1 \in 0..MaxVersions
      BY SecretsFacts
    <3> QED
      BY <1>1, <2>1, <2>2, <3>1 DEF Calls
  <2>4. CallStands(x)
    BY <1>1, <1>2, <2>1, <2>3
       DEF CallStands, ApplyingSteps, MutatingSteps, RotatingSteps, MakingSteps, NewerSteps,
           ReportingSteps, RetirementSteps
  <2>5. calls' = [calls EXCEPT ![c].at = step, ![c].new = 1]
    <3>1. 1 = IF s.draft.mutation = "creating" THEN 1
              ELSE IF Newer(s) = {} THEN 0 ELSE CHOOSE v \in Newer(s) : TRUE
      OBVIOUS
    <3> QED
      BY <1>3, <1>5, <3>1 DEF Take
  <2>6. calls' = [calls EXCEPT ![c] = x]
    BY <1>1, <2>2, <2>5, TwoFields
  <2> QED
    BY <2>4, <2>6, QuietMove
<1> QED
  BY <1>4, <1>5

LEMMA ProbingMoves ==
    ASSUME SecretsInvariant, NEW c \in Callers, Probe(c)
    PROVE  SecretsInvariant'
<1>1. PICK s : s = calls[c]
  OBVIOUS
<1>2. s.at = "probe" /\ UNCHANGED << clock, meta, cloud, plans >> /\ trouble' \in 0..MaxTrouble
  BY <1>1 DEF Probe, SecretsInvariant
<1>3. /\ CallStands(s) /\ s \in Calls /\ s.now <= clock
      /\ s.draft # None => /\ meta # None /\ RecordStands(s.draft) /\ Precedes(s.draft, meta)
                           /\ s.draft \in SecretRecords /\ meta \in SecretRecords
  BY <1>1, <1>2, InCall
<1>4. s.draft # None /\ s.draft.mutation # "idle" /\ s.draft.key = s.plan /\ s.plan \in 1..Len(plans)
  BY <1>2, <1>3 DEF CallStands, ApplyingSteps, MutatingSteps
<1>5. s.draft.mutation \in {"creating", "attaching", "rotating"}
  BY <1>3, <1>4 DEF SecretRecords
<1>6. \/ Denied(c)
      \/ s.draft.mutation = "creating" /\ Take(c, CreateStep)
      \/ s.draft.mutation = "attaching" /\ Goto(c, IF Exact(s) THEN "record" ELSE "bind")
      \/ s.draft.mutation = "rotating" /\ Take(c, RotateStep(s))
      \/ s.draft.mutation = "rotating" /\ Goto(c, "ensure")
  BY <1>1, <1>5 DEF Probe
<1>7. CASE Denied(c)
  BY <1>2, <1>7, DenialMoves
<1>8. CASE s.draft.mutation = "creating" /\ Take(c, CreateStep)
  BY <1>1, <1>2, <1>8, CreationTakes
<1>9. CASE s.draft.mutation = "attaching" /\ Goto(c, IF Exact(s) THEN "record" ELSE "bind")
  <2>1. PICK step : step = IF Exact(s) THEN "record" ELSE "bind"
    OBVIOUS
  <2>2. PICK x : x = [s EXCEPT !.at = step]
    OBVIOUS
  <2>3. /\ x \in Calls /\ x.at = step /\ x.plan = s.plan /\ x.draft = s.draft
        /\ x.now = s.now /\ x.new = s.new
    BY <2>1, <2>2, <1>3, GoingOn
  <2>4. CallStands(x)
    BY <1>3, <1>4, <1>9, <2>1, <2>3
       DEF CallStands, ApplyingSteps, MutatingSteps, RotatingSteps, MakingSteps, NewerSteps,
           ReportingSteps, RetirementSteps
  <2>5. calls' = [calls EXCEPT ![c] = x]
    BY <1>1, <1>9, <2>1, <2>2 DEF Goto
  <2> QED
    BY <1>2, <2>4, <2>5, QuietMove
<1>10. CASE s.draft.mutation = "rotating" /\ Take(c, RotateStep(s))
  BY <1>1, <1>2, <1>10, RotationTakes
<1>11. CASE s.draft.mutation = "rotating" /\ Goto(c, "ensure")
  <2>1. PICK x : x = [s EXCEPT !.at = "ensure"]
    OBVIOUS
  <2>2. /\ x \in Calls /\ x.at = "ensure" /\ x.plan = s.plan /\ x.draft = s.draft
        /\ x.now = s.now /\ x.new = s.new
    BY <2>1, <1>3, GoingOn
  <2>3. CallStands(x)
    BY <1>3, <1>4, <1>11, <2>2
       DEF CallStands, ApplyingSteps, MutatingSteps, RotatingSteps, MakingSteps, NewerSteps,
           ReportingSteps, RetirementSteps
  <2>4. calls' = [calls EXCEPT ![c] = x]
    BY <1>1, <1>11, <2>1 DEF Goto
  <2> QED
    BY <1>2, <2>3, <2>4, QuietMove
<1> QED
  BY <1>6, <1>7, <1>8, <1>9, <1>10, <1>11

LEMMA ProbingVersionsMoves ==
    ASSUME SecretsInvariant, NEW c \in Callers, ProbeVersions(c)
    PROVE  SecretsInvariant'
<1>1. PICK s : s = calls[c]
  OBVIOUS
<1>2. s.at = "versions" /\ UNCHANGED << clock, meta, cloud, plans >> /\ trouble' \in 0..MaxTrouble
      /\ Take(c, RotateStep(s))
  BY <1>1 DEF ProbeVersions, SecretsInvariant
<1>3. CallStands(s)
  BY <1>1, <1>2, InCall
<1>4. s.draft.mutation = "rotating"
  BY <1>2, <1>3 DEF CallStands, RotatingSteps
<1> QED
  BY <1>1, <1>2, <1>4, RotationTakes

LEMMA CrashingMoves ==
    ASSUME SecretsInvariant, NEW c \in Callers, Crash(c)
    PROVE  SecretsInvariant'
<1>1. trouble' \in 0..MaxTrouble
  BY SecretsFacts DEF Crash, SecretsInvariant
<1> QED
  BY <1>1, DenialMoves DEF Crash

-------------------------------------------------------------------------------
(* Steps that write plans and operations, and the environment.                 *)

LEMMA PlanMove ==
    ASSUME SecretsInvariant, Progresses, PlansStand', UNCHANGED << clock, meta, cloud, trouble >>,
           calls' = [e \in Callers |-> calls'[e]], \A e \in Callers : CallStands(calls[e])'
    PROVE  SecretsInvariant'
<1>1. PICK m : m = meta
  OBVIOUS
<1>2. meta # None => RecordStands(m)'
  BY <1>1, RecordKeeps DEF SecretsInvariant, SecretStands
<1>3. VersionsStand(m) => VersionsStand(m)'
  BY DEF VersionsStand, Versions, Enabled
<1>4. SecretStands'
  BY <1>1, <1>2, <1>3 DEF SecretsInvariant, SecretStands
<1> QED
  BY <1>4 DEF SecretsInvariant

(* The state of an operation moves on, and to succeeded only when it is done.  *)
LEMMA OperationMoves ==
    ASSUME SecretsInvariant, NEW p \in 1..Len(plans), NEW op \in {"queued", "succeeded", "recorded"},
           plans' = [plans EXCEPT ![p].op = op], op # "queued" => Done(p),
           UNCHANGED << clock, meta, cloud >>
    PROVE  Progresses /\ PlansStand' /\ Len(plans') = Len(plans) /\ plans'[p].op = op
           /\ plans'[p].mode = plans[p].mode
<1>1. plans \in Seq(PlanRecord) /\ Len(plans) \in Nat /\ Len(plans) <= MaxPlans
  BY SecretsFacts DEF SecretsInvariant, PlansStand
<1>2. PICK e : e = [plans[p] EXCEPT !.op = op]
  OBVIOUS
<1>3. /\ e \in PlanRecord /\ e.op = op /\ e.mode = plans[p].mode /\ e.workloads = plans[p].workloads
      /\ e.active = plans[p].active
  <2>1. plans[p] \in PlanRecord
    BY SecretsFacts
  <2> QED
    BY <1>2, <2>1 DEF PlanRecord
<1>4. plans' = [plans EXCEPT ![p] = e]
  BY <1>2
<1>5. /\ plans' \in Seq(PlanRecord) /\ Len(plans') = Len(plans)
      /\ \A q \in 1..Len(plans) : plans'[q] = IF q = p THEN e ELSE plans[q]
  BY <1>1, <1>3, <1>4, ExceptSeq
<1>6. \A q \in 1..Len(plans) :
        /\ plans'[q].mode = plans[q].mode /\ plans'[q].workloads = plans[q].workloads
        /\ plans'[q].active = plans[q].active
        /\ plans'[q].op = "none" => plans[q].op = "none"
  BY <1>3, <1>5
<1>7. \A q \in 1..Len(plans) : Done(q) => Done(q)'
  BY <1>6 DEF Done
<1>8. PlansStand'
  <2>1. ASSUME NEW q \in 1..Len(plans)
        PROVE  /\ plans'[q].active <= IF meta = None THEN 0 ELSE meta.active
               /\ plans'[q].op \in {"succeeded", "recorded"} => Done(q)'
    <3>1. plans[q].active <= (IF meta = None THEN 0 ELSE meta.active)
          /\ (plans[q].op \in {"succeeded", "recorded"} => Done(q))
      BY DEF SecretsInvariant, PlansStand
    <3>2. CASE q = p
      BY <3>1, <3>2, <1>3, <1>5, <1>6, <1>7
    <3>3. CASE q # p
      BY <3>1, <3>3, <1>5, <1>6, <1>7
    <3> QED
      BY <3>2, <3>3
  <2> QED
    BY <2>1, <1>1, <1>5 DEF PlansStand
<1>9. meta # None => meta \in SecretRecords /\ Precedes(meta, meta)
  BY PrecedesItself, SecretsFacts
<1>10. Progresses
  BY <1>1, <1>5, <1>6, <1>9, SecretsFacts DEF Progresses, Enabled
<1> QED
  BY <1>3, <1>5, <1>8, <1>10

LEMMA PlanningMoves ==
    ASSUME SecretsInvariant, Plan
    PROVE  SecretsInvariant'
<1>1. PICK workloads \in (SUBSET Workloads) \ {{}} : PlanWrite(workloads) \/ PlanAttach(workloads)
  BY DEF Plan
<1>2. PICK mode \in {"create", "attach", "rotate"} : PlanTo(mode, workloads)
  BY <1>1 DEF PlanWrite, PlanAttach
<1>3. PICK e : e = NewPlan(mode, workloads)
  OBVIOUS
<1>4. e \in PlanRecord /\ e.op = "none" /\ e.active = IF meta = None THEN 0 ELSE meta.active
  <2>1. (IF meta = None THEN 0 ELSE meta.number) \in Nat /\ (IF meta = None THEN 0 ELSE meta.active) \in Nat
    BY SecretsFacts DEF SecretRecords
  <2>2. clock \in 0..MaxTime
    BY SecretsFacts
  <2> QED
    BY <1>3, <2>1, <2>2 DEF NewPlan, PlanRecord
<1>5. Len(plans) < MaxPlans /\ plans' = Append(plans, e)
      /\ UNCHANGED << clock, meta, cloud, calls, trouble >>
  BY <1>2, <1>3 DEF PlanTo
<1>6. plans \in Seq(PlanRecord) /\ Len(plans) \in Nat
  BY SecretsFacts DEF SecretsInvariant, PlansStand
<1>7. /\ plans' \in Seq(PlanRecord) /\ Len(plans') = Len(plans) + 1
      /\ \A q \in 1..Len(plans) : plans'[q] = plans[q]
      /\ plans'[Len(plans) + 1] = e
  BY <1>4, <1>5, <1>6, AppendProperties
<1>8. meta # None => meta \in SecretRecords /\ Precedes(meta, meta)
  BY PrecedesItself, SecretsFacts
<1>9. Progresses
  BY <1>5, <1>6, <1>7, <1>8, SecretsFacts DEF Progresses, Enabled
<1>10. PlansStand'
  <2>1. ASSUME NEW q \in 1..Len(plans')
        PROVE  /\ plans'[q].active <= IF meta = None THEN 0 ELSE meta.active
               /\ plans'[q].op \in {"succeeded", "recorded"} => Done(q)'
    <3>1. CASE q \in 1..Len(plans)
      BY <3>1, <1>5, <1>7 DEF SecretsInvariant, PlansStand, Done
    <3>2. CASE q = Len(plans) + 1
      <4>1. e.active <= IF meta = None THEN 0 ELSE meta.active
        BY <1>4, SecretsFacts DEF SecretRecords
      <4> QED
        BY <3>2, <4>1, <1>4, <1>7
    <3> QED
      BY <3>1, <3>2, <1>6, <1>7
  <2>2. Len(plans') <= MaxPlans
    BY <1>5, <1>6, <1>7, SecretsFacts
  <2> QED
    BY <2>1, <2>2, <1>5, <1>7 DEF PlansStand
<1>11. calls' = [e1 \in Callers |-> calls'[e1]] /\ \A e1 \in Callers : CallStands(calls[e1])'
  BY <1>5, <1>9, NobodyMoves
<1> QED
  BY <1>5, <1>9, <1>10, <1>11, PlanMove

LEMMA ConsumingMoves ==
    ASSUME SecretsInvariant, NEW c \in Callers, Consume(c)
    PROVE  SecretsInvariant'
<1>1. PICK s : s = calls[c]
  OBVIOUS
<1>2. s.at = "consume" /\ UNCHANGED << clock, meta, cloud, trouble >> /\ trouble' \in 0..MaxTrouble
  BY <1>1 DEF Consume, SecretsInvariant
<1>3. CallStands(s) /\ s \in Calls /\ s.now <= clock
  BY <1>1, <1>2, InCall
<1>4. s.plan \in 1..Len(plans)
  BY <1>2, <1>3 DEF CallStands, ApplyingSteps
<1>5. CASE plans[s.plan].op = "none" /\ plans' = [plans EXCEPT ![s.plan].op = "queued"] /\ Goto(c, "stage")
  <2>1. PICK x : x = [s EXCEPT !.at = "stage"]
    OBVIOUS
  <2>2. /\ x \in Calls /\ x.at = "stage" /\ x.plan = s.plan /\ x.draft = s.draft
        /\ x.now = s.now /\ x.new = s.new
    BY <2>1, <1>3, GoingOn
  <2>3. plans[x.plan].mode # "create" => x.draft # None /\ x.draft.mutation = "idle"
    BY <1>2, <1>3, <1>5, <2>2 DEF CallStands
  <2>4. CallStands(x)
    BY <1>2, <1>3, <1>4, <2>2, <2>3
       DEF CallStands, ApplyingSteps, MutatingSteps, RotatingSteps, MakingSteps, NewerSteps,
           ReportingSteps, RetirementSteps
  <2>5. Progresses /\ PlansStand'
    BY <1>2, <1>4, <1>5, OperationMoves
  <2>6. CallStands(x)'
    BY <2>4, <2>5, CallKeeps
  <2>7. calls' = [calls EXCEPT ![c] = x]
    BY <1>1, <1>5, <2>1 DEF Goto
  <2>8. calls' = [e \in Callers |-> calls'[e]] /\ \A e \in Callers : CallStands(calls[e])'
    BY <2>5, <2>6, <2>7, OneCallMoves
  <2> QED
    BY <1>2, <2>5, <2>8, PlanMove
<1>6. CASE UNCHANGED plans /\ Goto(c, "resume")
  <2>1. PICK x : x = [s EXCEPT !.at = "resume"]
    OBVIOUS
  <2>2. /\ x \in Calls /\ x.at = "resume" /\ x.plan = s.plan /\ x.draft = s.draft
        /\ x.now = s.now /\ x.new = s.new
    BY <2>1, <1>3, GoingOn
  <2>3. CallStands(x)
    BY <1>2, <1>3, <1>4, <2>2
       DEF CallStands, ApplyingSteps, MutatingSteps, RotatingSteps, MakingSteps, NewerSteps,
           ReportingSteps, RetirementSteps
  <2>4. calls' = [calls EXCEPT ![c] = x]
    BY <1>1, <1>6, <2>1 DEF Goto
  <2> QED
    BY <1>2, <1>6, <2>3, <2>4, QuietMove
<1>7. CASE UNCHANGED plans /\ Denied(c)
  BY <1>2, <1>7, DenialMoves
<1> QED
  BY <1>1, <1>5, <1>6, <1>7 DEF Consume

LEMMA MarkingMoves ==
    ASSUME SecretsInvariant, NEW c \in Callers, MarkSucceeded(c)
    PROVE  SecretsInvariant'
<1>1. PICK s : s = calls[c]
  OBVIOUS
<1>2. s.at = "mark" /\ UNCHANGED << clock, meta, cloud, trouble >> /\ trouble' \in 0..MaxTrouble
      /\ Goto(c, "result")
  BY <1>1 DEF MarkSucceeded, SecretsInvariant
<1>3. CallStands(s) /\ s \in Calls /\ s.now <= clock
  BY <1>1, <1>2, InCall
<1>4. s.plan \in 1..Len(plans) /\ Done(s.plan)
  BY <1>2, <1>3 DEF CallStands, ApplyingSteps, ReportingSteps
<1>5. PICK x : x = [s EXCEPT !.at = "result"]
  OBVIOUS
<1>6. /\ x \in Calls /\ x.at = "result" /\ x.plan = s.plan /\ x.draft = s.draft
      /\ x.now = s.now /\ x.new = s.new
  BY <1>5, <1>3, GoingOn
<1>7. CallStands(x)
  BY <1>2, <1>3, <1>4, <1>6
     DEF CallStands, ApplyingSteps, MutatingSteps, RotatingSteps, MakingSteps, NewerSteps,
         ReportingSteps, RetirementSteps
<1>8. calls' = [calls EXCEPT ![c] = x]
  BY <1>1, <1>2, <1>5 DEF Goto
<1>9. CASE plans' = [plans EXCEPT ![s.plan].op = "succeeded"]
  <2>1. Progresses /\ PlansStand'
    BY <1>2, <1>4, <1>9, OperationMoves
  <2>2. CallStands(x)'
    BY <1>7, <2>1, CallKeeps
  <2>3. calls' = [e \in Callers |-> calls'[e]] /\ \A e \in Callers : CallStands(calls[e])'
    BY <1>8, <2>1, <2>2, OneCallMoves
  <2> QED
    BY <1>2, <2>1, <2>3, PlanMove
<1>10. CASE UNCHANGED plans
  BY <1>2, <1>7, <1>8, <1>10, QuietMove
<1> QED
  BY <1>1, <1>9, <1>10 DEF MarkSucceeded

LEMMA RecordingResultMoves ==
    ASSUME SecretsInvariant, NEW c \in Callers, RecordResult(c)
    PROVE  SecretsInvariant'
<1>1. PICK s : s = calls[c]
  OBVIOUS
<1>2. s.at = "result" /\ UNCHANGED << clock, meta, cloud, trouble >>
      /\ plans' = [plans EXCEPT ![s.plan].op = "recorded"]
  BY <1>1 DEF RecordResult
<1>3. CallStands(s)
  BY <1>1, <1>2, InCall
<1>4. s.plan \in 1..Len(plans) /\ Done(s.plan)
  BY <1>2, <1>3 DEF CallStands, ApplyingSteps, ReportingSteps
<1>5. Progresses /\ PlansStand'
  BY <1>2, <1>4, OperationMoves
<1>6. PICK x : x = IdleCall
  OBVIOUS
<1>7. calls' = [calls EXCEPT ![c] = x] /\ CallStands(x)'
  BY <1>6, IdleStands DEF RecordResult, Denied
<1>8. calls' = [e \in Callers |-> calls'[e]] /\ \A e \in Callers : CallStands(calls[e])'
  BY <1>5, <1>7, OneCallMoves
<1> QED
  BY <1>2, <1>5, <1>8, PlanMove

LEMMA TickingMoves ==
    ASSUME SecretsInvariant, Tick
    PROVE  SecretsInvariant'
<1>1. clock' = clock + 1 /\ clock' \in 0..MaxTime /\ UNCHANGED << meta, cloud, plans, calls, trouble >>
  BY SecretsFacts DEF Tick
<1>2. meta # None => meta \in SecretRecords /\ Precedes(meta, meta)
  BY PrecedesItself, SecretsFacts
<1>3. Progresses
  BY <1>1, <1>2, SecretsFacts DEF Progresses, Enabled
<1>4. calls' = [e \in Callers |-> calls'[e]] /\ \A e \in Callers : CallStands(calls[e])'
  BY <1>1, <1>3, NobodyMoves
<1>5. SecretStands'
  <2>1. CASE meta = None
    BY <1>1, <2>1 DEF SecretsInvariant, SecretStands
  <2>2. CASE meta # None
    <3>1. meta.updated <= clock + 1
      BY <2>2, SecretsFacts DEF SecretsInvariant, SecretStands, SecretRecords
    <3> QED
      BY <1>1, <2>2, <3>1 
         DEF SecretsInvariant, SecretStands, RecordStands, VersionsStand, Versions, Enabled
  <2> QED
    BY <2>1, <2>2
<1>6. PlansStand'
  BY <1>1 DEF SecretsInvariant, PlansStand, Done
<1> QED
  BY <1>1, <1>4, <1>5, <1>6 DEF SecretsInvariant

LEMMA UnbindingMoves ==
    ASSUME SecretsInvariant, NEW w \in Workloads, Unbind(w)
    PROVE  SecretsInvariant'
<1>1. /\ w \in cloud.readers /\ trouble' = trouble + 1 /\ trouble < MaxTrouble
      /\ cloud' = [cloud EXCEPT !.readers = cloud.readers \ {w}]
      /\ UNCHANGED << clock, meta, plans, calls >>
  BY DEF Unbind
<1>2. trouble' \in 0..MaxTrouble
  BY <1>1, SecretsFacts DEF SecretsInvariant
<1>3. meta # None /\ cloud.readers \subseteq meta.attached \cup meta.pending
  BY <1>1 DEF SecretsInvariant, SecretStands, NoCloud
<1>4. cloud \in CloudRecord
  BY DEF SecretsInvariant
<1>5. PICK readers : readers = cloud.readers \ {w}
  OBVIOUS
<1>6. PICK exists : exists = cloud.exists
  OBVIOUS
<1>7. readers \in SUBSET Workloads /\ exists \in BOOLEAN
  BY <1>4, <1>5, <1>6 DEF CloudRecord
<1>8. cloud' = [cloud EXCEPT !.exists = exists, !.readers = readers]
  BY <1>1, <1>4, <1>5, <1>6 DEF CloudRecord
<1>9. readers \subseteq meta.attached \cup meta.pending
  BY <1>3, <1>5
<1>10. /\ Progresses /\ cloud' \in CloudRecord /\ Len(cloud'.versions) <= MaxVersions
       /\ cloud'.readers \subseteq meta.attached \cup meta.pending /\ VersionsStand(meta)'
  BY <1>1, <1>2, <1>3, <1>7, <1>8, <1>9, BindingMoves
<1>11. calls' = [e \in Callers |-> calls'[e]] /\ \A e \in Callers : CallStands(calls[e])'
  BY <1>1, <1>10, NobodyMoves
<1> QED
  BY <1>1, <1>2, <1>3, <1>10, <1>11, CloudMove

-------------------------------------------------------------------------------
(* Steps that write to Secret Manager.                                         *)

(* A call binds workloads that the record knows, and goes on or is denied.     *)
LEMMA CallBinds ==
    ASSUME SecretsInvariant, meta # None, NEW readers \in SUBSET Workloads,
           cloud' = Bound(readers), readers \subseteq meta.attached \cup meta.pending,
           NEW c \in Callers, NEW x, CallStands(x), calls' = [calls EXCEPT ![c] = x],
           UNCHANGED << clock, meta, plans, trouble >>
    PROVE  SecretsInvariant'
<1>1. cloud' = [cloud EXCEPT !.exists = TRUE, !.readers = readers] /\ trouble' \in 0..MaxTrouble
  BY DEF Bound, SecretsInvariant
<1>2. /\ Progresses /\ cloud' \in CloudRecord /\ Len(cloud'.versions) <= MaxVersions
      /\ cloud'.readers \subseteq meta.attached \cup meta.pending /\ VersionsStand(meta)'
  BY <1>1, BindingMoves
<1>3. CallStands(x)'
  BY <1>2, CallKeeps
<1>4. calls' = [e \in Callers |-> calls'[e]] /\ \A e \in Callers : CallStands(calls[e])'
  BY <1>2, <1>3, OneCallMoves
<1> QED
  BY <1>1, <1>2, <1>4, CloudMove

LEMMA EnsuringMoves ==
    ASSUME SecretsInvariant, NEW c \in Callers, Ensure(c)
    PROVE  SecretsInvariant'
<1>1. PICK s : s = calls[c]
  OBVIOUS
<1>2. s.at = "ensure" /\ UNCHANGED << clock, meta, plans, trouble >> /\ cloud' = Bound(s.draft.pending)
  BY <1>1 DEF Ensure
<1>3. /\ CallStands(s) /\ s \in Calls /\ s.now <= clock
      /\ s.draft # None => /\ meta # None /\ RecordStands(s.draft) /\ Precedes(s.draft, meta)
                           /\ s.draft \in SecretRecords /\ meta \in SecretRecords
  BY <1>1, <1>2, InCall
<1>4. s.draft # None /\ s.draft.mutation # "idle" /\ s.draft.key = s.plan /\ s.plan \in 1..Len(plans)
      /\ s.draft.mutation # "attaching"
  BY <1>2, <1>3 DEF CallStands, ApplyingSteps, MutatingSteps, MakingSteps
<1>5. s.draft.mutation \in {"creating", "rotating"}
  BY <1>3, <1>4 DEF SecretRecords
<1>6. s.draft.pending \in SUBSET Workloads /\ s.draft.pending \subseteq meta.attached \cup meta.pending
  BY <1>3, <1>4 DEF SecretRecords, Precedes
<1>7. Denied(c) \/ Goto(c, "probe") \/ Goto(c, "ensured")
  BY <1>1, <1>5 DEF Ensure
<1>8. PICK x : x = IF Denied(c) THEN IdleCall
                   ELSE IF Goto(c, "probe") THEN [s EXCEPT !.at = "probe"] ELSE [s EXCEPT !.at = "ensured"]
  OBVIOUS
<1>9. calls' = [calls EXCEPT ![c] = x]
  BY <1>1, <1>7, <1>8 DEF Denied, Goto
<1>10. CASE x = IdleCall
  <2>1. CallStands(x)
    BY <1>10, IdleStands
  <2> QED
    BY <1>2, <1>3, <1>4, <1>6, <1>9, <2>1, CallBinds
<1>11. CASE x = [s EXCEPT !.at = "probe"] \/ x = [s EXCEPT !.at = "ensured"]
  <2>1. /\ x \in Calls /\ x.at \in {"probe", "ensured"} /\ x.plan = s.plan /\ x.draft = s.draft
        /\ x.now = s.now /\ x.new = s.new
    BY <1>3, <1>11, GoingOn
  <2>2. CallStands(x)
    BY <1>3, <1>4, <2>1
       DEF CallStands, ApplyingSteps, MutatingSteps, RotatingSteps, MakingSteps, NewerSteps,
           ReportingSteps, RetirementSteps
  <2> QED
    BY <1>2, <1>3, <1>4, <1>6, <1>9, <2>2, CallBinds
<1> QED
  BY <1>8, <1>10, <1>11

LEMMA BindingTheCallMoves ==
    ASSUME SecretsInvariant, NEW c \in Callers, Bind(c)
    PROVE  SecretsInvariant'
<1>1. PICK s : s = calls[c]
  OBVIOUS
<1>2. s.at = "bind" /\ UNCHANGED << clock, meta, plans, trouble >> /\ cloud' = Bound(s.draft.pending)
      /\ Goto(c, "record")
  BY <1>1 DEF Bind
<1>3. /\ CallStands(s) /\ s \in Calls /\ s.now <= clock
      /\ s.draft # None => /\ meta # None /\ RecordStands(s.draft) /\ Precedes(s.draft, meta)
                           /\ s.draft \in SecretRecords /\ meta \in SecretRecords
  BY <1>1, <1>2, InCall
<1>4. s.draft # None /\ s.draft.mutation = "attaching" /\ s.draft.key = s.plan /\ s.plan \in 1..Len(plans)
  BY <1>2, <1>3 DEF CallStands, ApplyingSteps, MutatingSteps
<1>5. s.draft.pending \in SUBSET Workloads /\ s.draft.pending \subseteq meta.attached \cup meta.pending
  BY <1>3, <1>4 DEF SecretRecords, Precedes
<1>6. PICK x : x = [s EXCEPT !.at = "record"]
  OBVIOUS
<1>7. /\ x \in Calls /\ x.at = "record" /\ x.plan = s.plan /\ x.draft = s.draft
      /\ x.now = s.now /\ x.new = s.new
  BY <1>3, <1>6, GoingOn
<1>8. CallStands(x)
  BY <1>3, <1>4, <1>7
     DEF CallStands, ApplyingSteps, MutatingSteps, RotatingSteps, MakingSteps, NewerSteps,
         ReportingSteps, RetirementSteps
<1>9. calls' = [calls EXCEPT ![c] = x]
  BY <1>1, <1>2, <1>6 DEF Goto
<1> QED
  BY <1>2, <1>3, <1>4, <1>5, <1>8, <1>9, CallBinds

LEMMA EnsuringRetirementMoves ==
    ASSUME SecretsInvariant, NEW c \in Callers, EnsureRetiring(c)
    PROVE  SecretsInvariant'
<1>1. PICK s : s = calls[c]
  OBVIOUS
<1>2. s.at = "retire" /\ UNCHANGED << clock, meta, plans, trouble >> /\ cloud' = Bound(s.draft.attached)
      /\ (Goto(c, "destroy") \/ Denied(c))
  BY <1>1 DEF EnsureRetiring
<1>3. /\ CallStands(s) /\ s \in Calls /\ s.now <= clock
      /\ s.draft # None => /\ meta # None /\ RecordStands(s.draft) /\ Precedes(s.draft, meta)
                           /\ s.draft \in SecretRecords /\ meta \in SecretRecords
  BY <1>1, <1>2, InCall
<1>4. s.draft # None /\ s.draft.rotation = "retiring" /\ s.draft.notBefore <= s.now
  BY <1>2, <1>3 DEF CallStands, RetirementSteps
<1>5. s.draft.attached \in SUBSET Workloads /\ s.draft.attached \subseteq meta.attached \cup meta.pending
  BY <1>3, <1>4 DEF SecretRecords, Precedes
<1>6. CASE Denied(c)
  <2>1. PICK x : x = IdleCall
    OBVIOUS
  <2>2. CallStands(x) /\ calls' = [calls EXCEPT ![c] = x]
    BY <1>6, <2>1, IdleStands DEF Denied
  <2> QED
    BY <1>2, <1>3, <1>4, <1>5, <2>2, CallBinds
<1>7. CASE Goto(c, "destroy")
  <2>1. PICK x : x = [s EXCEPT !.at = "destroy"]
    OBVIOUS
  <2>2. /\ x \in Calls /\ x.at = "destroy" /\ x.plan = s.plan /\ x.draft = s.draft
        /\ x.now = s.now /\ x.new = s.new
    BY <1>3, <2>1, GoingOn
  <2>3. CallStands(x)
    BY <1>3, <1>4, <2>2
       DEF CallStands, ApplyingSteps, MutatingSteps, RotatingSteps, MakingSteps, NewerSteps,
           ReportingSteps, RetirementSteps
  <2>4. calls' = [calls EXCEPT ![c] = x]
    BY <1>1, <1>7, <2>1 DEF Goto
  <2> QED
    BY <1>2, <1>3, <1>4, <1>5, <2>3, <2>4, CallBinds
<1> QED
  BY <1>2, <1>6, <1>7

LEMMA AddingMoves ==
    ASSUME SecretsInvariant, NEW c \in Callers, AddVersion(c)
    PROVE  SecretsInvariant'
<1>1. PICK s : s = calls[c]
  OBVIOUS
<1>2. PICK new : new = Len(cloud.versions) + 1
  OBVIOUS
<1>3. PICK e : e = [state |-> "enabled", payload |-> s.payload, since |-> 0]
  OBVIOUS
<1>4. s.at = "add" /\ UNCHANGED << clock, meta, plans, trouble >> /\ new <= MaxVersions
      /\ cloud' = [cloud EXCEPT !.versions = Append(cloud.versions, e)]
      /\ IF s.draft.mutation = "creating" /\ new # 1 THEN Denied(c)
         ELSE calls' = [calls EXCEPT ![c].new = new, ![c].at = "added"]
  BY <1>1, <1>2, <1>3 DEF AddVersion
<1>5. /\ CallStands(s) /\ s \in Calls /\ s.now <= clock
      /\ s.draft # None => /\ meta # None /\ RecordStands(s.draft) /\ Precedes(s.draft, meta)
                           /\ s.draft \in SecretRecords /\ meta \in SecretRecords
  BY <1>1, <1>4, InCall
<1>6. s.draft # None /\ s.draft.mutation # "idle" /\ s.draft.key = s.plan /\ s.plan \in 1..Len(plans)
      /\ s.draft.mutation # "attaching"
  BY <1>4, <1>5 DEF CallStands, ApplyingSteps, MutatingSteps, MakingSteps
<1>7. e \in VersionRecord /\ e.state = "enabled"
  <2>1. s.payload \in Payloads \cup {None} /\ 0 \in 0..MaxTime
    BY <1>5, SecretsFacts DEF Calls
  <2> QED
    BY <1>3, <2>1 DEF VersionRecord
<1>8. cloud \in CloudRecord /\ cloud.versions \in Seq(VersionRecord) /\ Len(cloud.versions) \in Nat
  BY SecretsFacts DEF SecretsInvariant, CloudRecord
<1>9. PICK versions : versions = Append(cloud.versions, e)
  OBVIOUS
<1>10. /\ versions \in Seq(VersionRecord) /\ Len(versions) = new
       /\ \A v \in Versions : versions[v] = cloud.versions[v]
       /\ versions[new] = e
  BY <1>2, <1>7, <1>8, <1>9, AppendProperties DEF Versions
<1>11. cloud' \in CloudRecord /\ cloud'.versions = versions /\ cloud'.readers = cloud.readers
  BY <1>4, <1>8, <1>9, <1>10 DEF CloudRecord
<1>12. Versions' = Versions \cup {new} /\ new \notin Versions
  BY <1>2, <1>8, <1>10, <1>11 DEF Versions
<1>13. (\A v \in Versions : Enabled(v)' <=> Enabled(v)) /\ Enabled(new)'
  BY <1>7, <1>10, <1>11 DEF Enabled
<1>14. Progresses
  <2>1. meta \in SecretRecords /\ Precedes(meta, meta)
    BY <1>5, <1>6, PrecedesItself
  <2>2. \A v \in Versions : ~Enabled(v) =>
          ~Enabled(v)' /\ cloud'.versions[v].since = cloud.versions[v].since
    BY <1>10, <1>11, <1>13
  <2>3. Len(cloud'.versions) \in Nat /\ Len(cloud.versions) <= Len(cloud'.versions)
    BY <1>2, <1>8, <1>10, <1>11
  <2>4. clock' = clock /\ plans' = plans /\ meta' = meta /\ meta # None
    BY <1>4, <2>1, RecordsAreNotNone
  <2> QED
    BY <2>1, <2>2, <2>3, <2>4, SecretsFacts DEF Progresses
<1>15. VersionsStand(meta)'
  <2>1. VersionsStand(meta)
    BY <1>5, <1>6 DEF SecretsInvariant, SecretStands
  <2>2. ASSUME NEW v \in Versions'
        PROVE  /\ meta.active < v \/ (meta.active = v /\ meta.mutation # "rotating") => Enabled(v)'
               /\ ~Enabled(v)' => cloud'.versions[v].since <= meta.updated
    <3>1. CASE v \in Versions
      BY <3>1, <2>1, <1>10, <1>11, <1>13 DEF VersionsStand
    <3>2. CASE v = new
      BY <3>2, <1>13
    <3> QED
      BY <3>1, <3>2, <1>12
  <2> QED
    BY <2>2, <1>4 DEF VersionsStand
<1>16. cloud'.readers \subseteq meta.attached \cup meta.pending
  BY <1>5, <1>6, <1>11 DEF SecretsInvariant, SecretStands
<1>17. \E x : CallStands(x)' /\ calls' = [calls EXCEPT ![c] = x]
  <2>1. CASE s.draft.mutation = "creating" /\ new # 1
    <3>1. calls' = [calls EXCEPT ![c] = IdleCall]
      BY <1>4, <2>1 DEF Denied
    <3> QED
      BY <3>1, IdleStands
  <2>2. CASE ~(s.draft.mutation = "creating" /\ new # 1)
    <3>1. PICK x : x = [s EXCEPT !.at = "added", !.new = new]
      OBVIOUS
    <3>2. /\ x \in Calls /\ x.at = "added" /\ x.plan = s.plan /\ x.draft = s.draft
          /\ x.now = s.now /\ x.new = new
      <4>1. new \in 0..MaxVersions
        BY <1>2, <1>4, <1>8, SecretsFacts
      <4> QED
        BY <1>5, <3>1, <4>1 DEF Calls
    <3>3. calls' = [calls EXCEPT ![c] = x]
      <4>1. calls' = [calls EXCEPT ![c].new = new, ![c].at = "added"]
        BY <1>4, <2>2
      <4>2. [calls EXCEPT ![c].new = new, ![c].at = "added"]
              = [calls EXCEPT ![c] = [s EXCEPT !.at = "added", !.new = new]]
        <5>1. s \in Calls /\ s = calls[c]
          BY <1>1, <1>5
        <5> QED
          BY ZenonT(60), <5>1, TwoFields, Zenon
      <4> QED
        BY <3>1, <4>1, <4>2
    <3>4. CallStands(s)'
      BY <1>5, <1>14, CallKeeps
    <3>5. s.draft.mutation = "rotating" => s.draft.active < new
      BY <1>5, <1>6, <1>2, <1>8 DEF RecordStands, Versions
    <3>6. x.new \in Versions' /\ (s.draft.mutation = "creating" => 1 \in Versions')
      BY <1>12, <2>2, <3>2
    <3>7. CallStands(x)'
      BY <1>6, <3>2, <3>4, <3>5, <3>6, <1>4
         DEF CallStands, ApplyingSteps, MutatingSteps, RotatingSteps, MakingSteps, NewerSteps,
             ReportingSteps, RetirementSteps
    <3> QED
      BY <3>3, <3>7
  <2> QED
    BY <2>1, <2>2
<1>18. calls' = [d \in Callers |-> calls'[d]] /\ \A d \in Callers : CallStands(calls[d])'
  BY <1>14, <1>17, OneCallMoves
<1>19. trouble' \in 0..MaxTrouble /\ Len(cloud'.versions) <= MaxVersions
  BY <1>4, <1>10, <1>11 DEF SecretsInvariant
<1> QED
  BY <1>4, <1>5, <1>6, <1>11, <1>14, <1>15, <1>16, <1>18, <1>19, CloudMove

(* Switching a version off takes nothing back, as long as the record has left  *)
(* it behind or is about to.                                                   *)
LEMMA SwitchingOff ==
    ASSUME SecretsInvariant, meta # None, UNCHANGED << clock, meta, plans >>,
           NEW old \in Versions, NEW e \in VersionRecord,
           cloud' = [cloud EXCEPT !.versions = [cloud.versions EXCEPT ![old] = e]],
           e.state # "enabled", e.since <= meta.updated,
           ~Enabled(old) => e.since = cloud.versions[old].since,
           meta.active >= old, meta.active = old => meta.mutation = "rotating"
    PROVE  /\ Progresses /\ ~Enabled(old)'
           /\ cloud' \in CloudRecord /\ Len(cloud'.versions) <= MaxVersions
           /\ cloud'.readers \subseteq meta.attached \cup meta.pending
           /\ VersionsStand(meta)'
<1>1. cloud \in CloudRecord /\ cloud.versions \in Seq(VersionRecord) /\ Len(cloud.versions) \in Nat
      /\ Len(cloud.versions) <= MaxVersions
  BY SecretsFacts DEF SecretsInvariant, CloudRecord
<1>2. PICK versions : versions = [cloud.versions EXCEPT ![old] = e]
  OBVIOUS
<1>3. /\ versions \in Seq(VersionRecord) /\ Len(versions) = Len(cloud.versions)
      /\ \A v \in Versions : versions[v] = IF v = old THEN e ELSE cloud.versions[v]
  BY <1>1, <1>2, ExceptSeq DEF Versions
<1>4. cloud' \in CloudRecord /\ cloud'.versions = versions /\ cloud'.readers = cloud.readers
  BY <1>1, <1>2, <1>3 DEF CloudRecord
<1>5. Versions' = Versions
  BY <1>3, <1>4 DEF Versions
<1>6. ~Enabled(old)' /\ \A v \in Versions : v # old => (Enabled(v)' <=> Enabled(v))
  BY <1>3, <1>4 DEF Enabled
<1>7. Progresses
  <2>1. meta' = meta /\ meta' \in SecretRecords /\ Precedes(meta, meta')
    BY PrecedesItself, SecretsFacts
  <2>2. \A v \in Versions : ~Enabled(v) =>
          ~Enabled(v)' /\ cloud'.versions[v].since = cloud.versions[v].since
    BY <1>3, <1>4, <1>6
  <2>3. Len(cloud'.versions) \in Nat /\ Len(cloud.versions) <= Len(cloud'.versions)
    BY <1>1, <1>3, <1>4
  <2> QED
    BY <2>1, <2>2, <2>3, SecretsFacts DEF Progresses
<1>8. VersionsStand(meta)'
  <2>1. VersionsStand(meta) /\ meta.active \in Nat /\ old \in Nat
    BY SMTT(30), SecretsFacts DEF SecretsInvariant, SecretStands, SecretRecords, Versions
  <2>2. ASSUME NEW v \in Versions
        PROVE  /\ meta.active < v \/ (meta.active = v /\ meta.mutation # "rotating") => Enabled(v)'
               /\ ~Enabled(v)' => cloud'.versions[v].since <= meta.updated
    <3>1. CASE v # old
      BY <3>1, <2>1, <1>3, <1>4, <1>6 DEF VersionsStand
    <3>2. CASE v = old
      <4>1. ~(meta.active < old) /\ (meta.active = old => meta.mutation = "rotating")
        BY <2>1
      <4>2. cloud'.versions[old].since = e.since
        BY <1>3, <1>4
      <4> QED
        BY <3>2, <4>1, <4>2
    <3> QED
      BY <3>1, <3>2
  <2> QED
    BY <2>2, <1>5 DEF VersionsStand
<1>9. cloud'.readers \subseteq meta.attached \cup meta.pending
  BY <1>4 DEF SecretsInvariant, SecretStands
<1>10. Len(cloud'.versions) <= MaxVersions
  BY <1>1, <1>3, <1>4
<1> QED
  BY <1>4, <1>6, <1>7, <1>8, <1>9, <1>10

LEMMA DisablingMoves ==
    ASSUME SecretsInvariant, NEW c \in Callers, DisableOldVersion(c)
    PROVE  SecretsInvariant'
<1>1. PICK s : s = calls[c]
  OBVIOUS
<1>2. s.at = "disable" /\ UNCHANGED << clock, meta, plans, trouble >> /\ trouble' \in 0..MaxTrouble
  BY <1>1 DEF DisableOldVersion, SecretsInvariant
<1>3. /\ CallStands(s) /\ s \in Calls /\ s.now <= clock /\ s.now \in 0..MaxTime
      /\ s.draft # None => /\ meta # None /\ RecordStands(s.draft) /\ Precedes(s.draft, meta)
                           /\ s.draft \in SecretRecords /\ meta \in SecretRecords
  BY <1>1, <1>2, InCall
<1>4. s.draft # None /\ s.draft.mutation = "rotating" /\ s.draft.key = s.plan /\ s.plan \in 1..Len(plans)
      /\ s.new \in Versions /\ s.draft.active < s.new
  BY <1>2, <1>3 DEF CallStands, ApplyingSteps, MutatingSteps, RotatingSteps, NewerSteps
<1>5. PICK old : old = s.draft.active
  OBVIOUS
<1>6. old \in Versions
  BY <1>3, <1>4, <1>5 DEF RecordStands
<1>7. PICK x : x = [s EXCEPT !.at = "disabled"]
  OBVIOUS
<1>8. /\ x \in Calls /\ x.at = "disabled" /\ x.plan = s.plan /\ x.draft = s.draft
      /\ x.now = s.now /\ x.new = s.new
  BY <1>3, <1>7, GoingOn
<1>9. CASE /\ WholeWindowAhead(s) /\ old \in In("enabled") /\ Goto(c, "disabled")
           /\ cloud' = [cloud EXCEPT !.versions[old].state = "disabled",
                                     !.versions[old].since = s.now]
  <2>1. PICK e : e = [cloud.versions[old] EXCEPT !.state = "disabled", !.since = s.now]
    OBVIOUS
  <2>2. cloud.versions[old] \in VersionRecord /\ Enabled(old)
    BY <1>6, <1>9, SecretsFacts, InEnabled
  <2>3. e \in VersionRecord /\ e.state = "disabled" /\ e.since = s.now
    BY <1>3, <2>1, <2>2 DEF VersionRecord
  <2>4. cloud \in CloudRecord /\ cloud.versions \in Seq(VersionRecord)
        /\ cloud.versions = [v \in Versions |-> cloud.versions[v]]
    BY LenProperties DEF SecretsInvariant, CloudRecord, Versions
  <2>5. cloud' = [cloud EXCEPT !.versions = [cloud.versions EXCEPT ![old] = e]]
    <3>1. [[cloud.versions[old] EXCEPT !.state = "disabled"] EXCEPT !.since = s.now] = e
      BY <2>1, <2>2 DEF VersionRecord
    <3> QED
      BY <1>6, <1>9, <2>4, <3>1 DEF CloudRecord
  <2>6. e.since <= meta.updated
    <3>1. s.now <= s.draft.updated
      <4>1. s.now \in Int /\ s.draft.updated \in Int /\ Window \in Int
        <5>1. s.now \in Nat
          BY <1>3, TimesAreNumbers
        <5>2. s.draft.updated \in Nat /\ Window \in Nat
          BY <1>3, <1>4, TimesAreNumbers
        <5> QED
          BY <5>1, <5>2
      <4> QED
        BY <1>9, <4>1 DEF WholeWindowAhead
    <3>2. s.draft.updated <= meta.updated
      BY <1>3, <1>4 DEF Precedes
    <3>3. s.draft.updated \in Int /\ meta.updated \in Int
      BY <1>3, <1>4 DEF SecretRecords
    <3> QED
      BY <1>3, <2>3, <3>1, <3>2, <3>3
  <2>7. meta.active >= old /\ (meta.active = old => meta.mutation = "rotating")
    <3>1. s.draft.active <= meta.active
          /\ (s.draft.active < meta.active \/ meta.mutation = "rotating")
          /\ s.draft.active \in Nat /\ meta.active \in Nat
      BY <1>3, <1>4 DEF Precedes, SecretRecords
    <3> QED
      BY <3>1, <1>5
  <2>8. /\ Progresses /\ ~Enabled(old)' /\ cloud' \in CloudRecord /\ Len(cloud'.versions) <= MaxVersions
        /\ cloud'.readers \subseteq meta.attached \cup meta.pending /\ VersionsStand(meta)'
    BY <1>2, <1>3, <1>4, <1>6, <2>2, <2>3, <2>5, <2>6, <2>7, SwitchingOff
  <2>9. CallStands(s)'
    BY <1>3, <2>8, CallKeeps
  <2>10. ~Enabled(x.draft.active)'
    BY <1>5, <1>8, <2>8
  <2>11. CallStands(x)'
    BY <1>2, <1>4, <1>8, <2>9, <2>10
       DEF CallStands, ApplyingSteps, MutatingSteps, RotatingSteps, MakingSteps, NewerSteps,
           ReportingSteps, RetirementSteps
  <2>12. calls' = [calls EXCEPT ![c] = x]
    BY <1>1, <1>7, <1>9 DEF Goto
  <2>13. calls' = [d \in Callers |-> calls'[d]] /\ \A d \in Callers : CallStands(calls[d])'
    BY <2>8, <2>11, <2>12, OneCallMoves
  <2> QED
    BY <1>2, <1>3, <1>4, <2>8, <2>13, CloudMove
<1>10. CASE old \in In("disabled") /\ Goto(c, "disabled") /\ UNCHANGED cloud
  <2>1. ~Enabled(x.draft.active)
    BY <1>5, <1>8, <1>10, InEnabled
  <2>2. CallStands(x)
    BY <1>2, <1>3, <1>4, <1>8, <2>1
       DEF CallStands, ApplyingSteps, MutatingSteps, RotatingSteps, MakingSteps, NewerSteps,
           ReportingSteps, RetirementSteps
  <2>3. calls' = [calls EXCEPT ![c] = x]
    BY <1>1, <1>7, <1>10 DEF Goto
  <2> QED
    BY <1>2, <1>10, <2>2, <2>3, QuietMove
<1>11. CASE Denied(c) /\ UNCHANGED cloud
  BY <1>2, <1>11, DenialMoves
<1> QED
  BY <1>1, <1>5, <1>9, <1>10, <1>11 DEF DisableOldVersion, OldVersion

(* What is destroyed was switched off, and by the record a window before.      *)
LEMMA DestroyedInTime ==
    ASSUME SecretsInvariant, NEW c \in Callers, NEW s, s = calls[c], s.at = "destroy"
    PROVE  /\ s.draft # None /\ meta # None
           /\ s.draft.retiring \in Versions /\ ~Enabled(s.draft.retiring)
           /\ cloud.versions[s.draft.retiring].since + Window <= clock
<1>1. /\ CallStands(s) /\ s.now <= clock /\ s.now \in 0..MaxTime
      /\ s.draft # None => /\ meta # None /\ RecordStands(s.draft) /\ s.draft \in SecretRecords
  BY InCall
<1>2. s.draft # None /\ s.draft.rotation = "retiring" /\ s.draft.notBefore <= s.now
  BY <1>1 DEF CallStands, RetirementSteps
<1>3. /\ s.draft.retiring \in Versions /\ ~Enabled(s.draft.retiring)
      /\ cloud.versions[s.draft.retiring].since + Window <= s.draft.notBefore
  BY <1>1, <1>2 DEF RecordStands
<1>4. cloud.versions[s.draft.retiring].since \in 0..MaxTime
  BY <1>3, SecretsFacts DEF VersionRecord
<1>5. s.draft.notBefore \in Int /\ s.now \in Int /\ clock \in Int /\ Window \in Int
      /\ cloud.versions[s.draft.retiring].since \in Int
  <2>1. s.draft.notBefore \in Nat /\ Window \in Nat
    BY <1>1, <1>2, TimesAreNumbers
  <2>2. s.now \in Nat
    BY <1>1, TimesAreNumbers
  <2>3. cloud.versions[s.draft.retiring].since \in Nat
    BY <1>4, TimesAreNumbers
  <2> QED
    BY SMTT(30), <2>1, <2>2, <2>3, SecretsFacts
<1> QED
  BY <1>1, <1>2, <1>3, <1>5

LEMMA DestroyingMoves ==
    ASSUME SecretsInvariant, NEW c \in Callers, DestroyOldVersion(c)
    PROVE  SecretsInvariant'
<1>1. PICK s : s = calls[c]
  OBVIOUS
<1>2. s.at = "destroy" /\ UNCHANGED << clock, meta, plans, trouble >> /\ trouble' \in 0..MaxTrouble
  BY <1>1 DEF DestroyOldVersion, SecretsInvariant
<1>3. /\ CallStands(s) /\ s \in Calls /\ s.now <= clock /\ s.now \in 0..MaxTime
      /\ s.draft # None => /\ meta # None /\ RecordStands(s.draft) /\ Precedes(s.draft, meta)
                           /\ s.draft \in SecretRecords /\ meta \in SecretRecords
  BY <1>1, <1>2, InCall
<1>4. s.draft # None /\ s.draft.rotation = "retiring" /\ s.draft.notBefore <= s.now
  BY <1>2, <1>3 DEF CallStands, RetirementSteps
<1>5. PICK old : old = s.draft.retiring
  OBVIOUS
<1>6. old \in Versions /\ ~Enabled(old)
  BY <1>1, <1>2, <1>5, DestroyedInTime
<1>7. PICK x : x = [s EXCEPT !.at = "destroyed"]
  OBVIOUS
<1>8. /\ x \in Calls /\ x.at = "destroyed" /\ x.plan = s.plan /\ x.draft = s.draft
      /\ x.now = s.now /\ x.new = s.new
  BY <1>3, <1>7, GoingOn
<1>9. CallStands(x)
  BY <1>2, <1>3, <1>4, <1>8
     DEF CallStands, ApplyingSteps, MutatingSteps, RotatingSteps, MakingSteps, NewerSteps,
         ReportingSteps, RetirementSteps
<1>10. CASE Goto(c, "destroyed") /\ cloud' = [cloud EXCEPT !.versions[old].state = "destroyed"]
  <2>1. PICK e : e = [cloud.versions[old] EXCEPT !.state = "destroyed"]
    OBVIOUS
  <2>2. cloud.versions[old] \in VersionRecord
    BY <1>6, SecretsFacts
  <2>3. e \in VersionRecord /\ e.state = "destroyed" /\ e.since = cloud.versions[old].since
    BY <2>1, <2>2 DEF VersionRecord
  <2>4. cloud' = [cloud EXCEPT !.versions = [cloud.versions EXCEPT ![old] = e]]
    BY <1>10, <2>1
  <2>5. /\ e.since <= meta.updated /\ meta.active >= old
        /\ (meta.active = old => meta.mutation = "rotating")
    <3>1. VersionsStand(meta) /\ meta.active \in Nat /\ old \in Nat
      BY SMTT(30), <1>3, <1>4, <1>6 DEF SecretsInvariant, SecretStands, SecretRecords, Versions
    <3> QED
      BY <1>6, <2>3, <3>1 DEF VersionsStand
  <2>6. /\ Progresses /\ cloud' \in CloudRecord /\ Len(cloud'.versions) <= MaxVersions
        /\ cloud'.readers \subseteq meta.attached \cup meta.pending /\ VersionsStand(meta)'
    BY <1>2, <1>3, <1>4, <1>6, <2>3, <2>4, <2>5, SwitchingOff
  <2>7. CallStands(x)'
    BY <1>9, <2>6, CallKeeps
  <2>8. calls' = [calls EXCEPT ![c] = x]
    BY <1>1, <1>7, <1>10 DEF Goto
  <2>9. calls' = [d \in Callers |-> calls'[d]] /\ \A d \in Callers : CallStands(calls[d])'
    BY <2>6, <2>7, <2>8, OneCallMoves
  <2> QED
    BY <1>2, <1>3, <1>4, <2>6, <2>9, CloudMove
<1>11. CASE Goto(c, "destroyed") /\ UNCHANGED cloud
  <2>1. calls' = [calls EXCEPT ![c] = x]
    BY <1>1, <1>7, <1>11 DEF Goto
  <2> QED
    BY <1>2, <1>9, <1>11, <2>1, QuietMove
<1>12. CASE Denied(c) /\ UNCHANGED cloud
  BY <1>2, <1>12, DenialMoves
<1> QED
  BY <1>1, <1>5, <1>10, <1>11, <1>12 DEF DestroyOldVersion

-------------------------------------------------------------------------------
(* Steps that write the record.                                                *)

(* The store takes a new version of the record only from a call that has read  *)
(* the last one; then what the new version says goes on from it.               *)
LEMMA SavedFollows ==
    ASSUME SecretsInvariant, NEW c \in Callers, NEW s, s = calls[c], s.at # "idle", s.draft # None,
           NEW new \in SecretRecords, Saves(c, new),
           new.updated = s.now, new.number = s.draft.number + 1
    PROVE  /\ s.draft = meta /\ LegalUpdate(meta, new) /\ Precedes(meta, new)
           /\ VersionsStand(new) /\ new.updated <= clock
           /\ cloud.readers \subseteq new.attached \cup new.pending
           /\ meta \in SecretRecords /\ RecordStands(meta)
<1>1. /\ CallStands(s) /\ s \in Calls /\ s.now <= clock
      /\ meta # None /\ RecordStands(s.draft) /\ Precedes(s.draft, meta)
      /\ s.draft \in SecretRecords /\ meta \in SecretRecords
  BY InCall
<1>2. meta.number = s.draft.number /\ s.now >= s.draft.updated /\ LegalUpdate(meta, new)
  BY DEF Saves
<1>3. s.draft = meta
  BY <1>1, <1>2 DEF Precedes
<1>4. RecordStands(meta) /\ VersionsStand(meta)
  BY <1>1 DEF SecretsInvariant, SecretStands
<1>5. meta.mutation = "idle" => meta.pending = {}
  BY <1>4 DEF RecordStands
<1>6. meta.mutation # "idle" => meta.attached \subseteq meta.pending
  BY <1>4 DEF RecordStands
<1>7. meta.active \in Nat /\ new.active \in Nat /\ meta.number \in Nat /\ meta.updated \in Nat
      /\ new.updated \in Nat
  <2>1. meta.number \in Nat
    BY <1>1 DEF SecretRecords
  <2> QED
    BY <2>1, <1>1, TimesAreNumbers
<1>8. meta.attached \subseteq new.attached
      /\ meta.attached \cup meta.pending \subseteq new.attached \cup new.pending
  <2>1. CASE Keeps(meta, new)
    BY <2>1 DEF Keeps, SameValues
  <2>2. CASE Begins(meta, new)
    BY <2>2, <1>5 DEF Begins, SameValues
  <2>3. CASE Ends(meta, new)
    BY <2>3, <1>6 DEF Ends
  <2> QED
    BY <1>2, <2>1, <2>2, <2>3 DEF LegalUpdate
<1>9. /\ meta.mutation = "rotating" => meta.active < new.active \/ new.mutation = "rotating"
      /\ meta.active < new.active
           \/ (meta.active = new.active /\ (meta.mutation = "rotating" => new.mutation = "rotating"))
  <2>1. CASE Keeps(meta, new)
    BY <2>1 DEF Keeps, SameValues
  <2>2. CASE Begins(meta, new)
    BY <2>2 DEF Begins, SameValues
  <2>3. CASE Ends(meta, new)
    BY <2>3, <1>7 DEF Ends
  <2> QED
    BY <1>2, <2>1, <2>2, <2>3 DEF LegalUpdate
<1>10. Precedes(meta, new)
  <2>1. meta.number < new.number /\ meta.updated <= new.updated
    BY <1>2, <1>3, <1>7
  <2>2. meta.active <= new.active
    BY <1>7, <1>9
  <2>3. meta.number <= new.number /\ meta.number # new.number
    BY <1>2, <1>3, <1>7
  <2>4. meta.mutation = "rotating" => meta.active < new.active \/ new.mutation = "rotating"
    BY <1>9
  <2> QED
    BY <2>1, <2>2, <2>3, <2>4, <1>8 DEF Precedes
<1>11. VersionsStand(new)
  <2>1. ASSUME NEW v \in Versions
        PROVE  /\ new.active < v \/ (new.active = v /\ new.mutation # "rotating") => Enabled(v)
               /\ ~Enabled(v) => cloud.versions[v].since <= new.updated
    <3>1. v \in Nat
      BY SecretsFacts DEF Versions
    <3>2. /\ meta.active < v \/ (meta.active = v /\ meta.mutation # "rotating") => Enabled(v)
          /\ ~Enabled(v) => cloud.versions[v].since <= meta.updated
      BY <1>4 DEF VersionsStand
    <3>3. cloud.versions[v].since \in Nat
      <4>1. cloud.versions[v].since \in 0..MaxTime
        BY SecretsFacts DEF VersionRecord
      <4> QED
        BY <4>1, TimesAreNumbers
    <3>4. meta.updated <= new.updated
      BY <1>2, <1>3
    <3>5. new.active < v \/ (new.active = v /\ new.mutation # "rotating") => Enabled(v)
      BY <3>1, <3>2, <1>7, <1>9
    <3> QED
      BY <3>2, <3>3, <3>4, <3>5, <1>7
  <2> QED
    BY <2>1 DEF VersionsStand
<1>12. cloud.readers \subseteq new.attached \cup new.pending
  BY <1>1, <1>8 DEF SecretsInvariant, SecretStands
<1> QED
  BY <1>1, <1>2, <1>3, <1>4, <1>10, <1>11, <1>12

(* A save and its call.                                                        *)
LEMMA SavesMove ==
    ASSUME SecretsInvariant, NEW c \in Callers, NEW s, s = calls[c], s.at # "idle", s.draft # None,
           NEW new \in SecretRecords, Saves(c, new), meta' = new,
           new.updated = s.now, new.number = s.draft.number + 1, RecordStands(new),
           UNCHANGED << clock, cloud, plans, trouble >>,
           NEW x, calls' = [calls EXCEPT ![c] = x], CallStands(x)'
    PROVE  SecretsInvariant'
<1>1. /\ Precedes(meta, new) /\ VersionsStand(new) /\ new.updated <= clock
      /\ cloud.readers \subseteq new.attached \cup new.pending
  BY SavedFollows
<1> QED
  BY <1>1, SavingMove

LEMMA TouchedStands ==
    ASSUME NEW m \in SecretRecords, NEW now \in 0..MaxTime, NEW new, new = Touched(m, now)
    PROVE  /\ new \in SecretRecords /\ new.updated = now /\ new.number = m.number + 1
           /\ new.active = m.active /\ new.attached = m.attached /\ new.rotation = m.rotation
           /\ new.retiring = m.retiring /\ new.notBefore = m.notBefore /\ new.mutation = m.mutation
           /\ new.key = m.key /\ new.pending = m.pending /\ new.payload = m.payload
           /\ RecordStands(m) => RecordStands(new)
<1>1. m.number + 1 \in Nat \ {0}
  BY DEF SecretRecords
<1>2. new = [m EXCEPT !.updated = now, !.number = m.number + 1]
  BY DEF Touched
<1>3. /\ new \in SecretRecords /\ new.updated = now /\ new.number = m.number + 1
      /\ new.active = m.active /\ new.attached = m.attached /\ new.rotation = m.rotation
      /\ new.retiring = m.retiring /\ new.notBefore = m.notBefore /\ new.mutation = m.mutation
      /\ new.key = m.key /\ new.pending = m.pending /\ new.payload = m.payload
  BY <1>1, <1>2 DEF SecretRecords
<1>4. RecordStands(m) => RecordStands(new)
  BY <1>3 DEF RecordStands
<1> QED
  BY <1>3, <1>4

(* Recording progress: the call goes on as it would have, with the new draft.  *)
LEMMA TouchingMoves ==
    ASSUME SecretsInvariant, NEW c \in Callers, NEW s, s = calls[c],
           s.at \in {"ensured", "added", "disabled"},
           NEW step \in {"probe", "versions", "disable", "record"},
           NEW y, y = [s EXCEPT !.at = step], CallStands(y),
           SaveThen(c, Touched(s.draft, s.now), step), UNCHANGED << clock, cloud, plans, trouble >>
    PROVE  SecretsInvariant'
<1>1. /\ CallStands(s) /\ s \in Calls /\ s.now <= clock /\ s.now \in 0..MaxTime
      /\ s.draft # None => /\ meta # None /\ RecordStands(s.draft) /\ Precedes(s.draft, meta)
                           /\ s.draft \in SecretRecords /\ meta \in SecretRecords
  BY InCall
<1>2. s.draft # None
  BY <1>1 DEF CallStands, MutatingSteps
<1>3. PICK new : new = Touched(s.draft, s.now)
  OBVIOUS
<1>4. /\ new \in SecretRecords /\ new.updated = s.now /\ new.number = s.draft.number + 1
      /\ new.active = s.draft.active /\ new.mutation = s.draft.mutation /\ new.key = s.draft.key
      /\ new.rotation = s.draft.rotation /\ new.notBefore = s.draft.notBefore
      /\ RecordStands(new)
  BY <1>1, <1>2, <1>3, TouchedStands
<1>5. CASE /\ Saves(c, new) /\ meta' = new
           /\ calls' = [calls EXCEPT ![c].draft = new, ![c].at = step]
  <2>1. Precedes(meta, new)
    BY <1>1, <1>2, <1>4, <1>5, SavedFollows
  <2>2. Progresses
    BY <1>4, <1>5, <2>1, SavingProgresses
  <2>3. CallStands(y)' /\ RecordStands(new)'
    BY <1>4, <2>2, CallKeeps, RecordKeeps
  <2>4. PICK x : x = [s EXCEPT !.at = step, !.draft = new]
    OBVIOUS
  <2>5. /\ y \in Calls /\ y.at = step /\ y.plan = s.plan /\ y.draft = s.draft
        /\ y.now = s.now /\ y.new = s.new
    BY <1>1, GoingOn
  <2>6. /\ x \in Calls /\ x.at = step /\ x.plan = s.plan /\ x.draft = new
        /\ x.now = s.now /\ x.new = s.new
    BY <1>1, <1>4, <2>4 DEF Calls
  <2>7. new # None /\ meta' # None /\ Precedes(new, meta')
    BY <1>4, <1>5, PrecedesItself, RecordsAreNotNone
  <2>8. CallStands(x)'
    BY <1>2, <1>4, <2>3, <2>5, <2>6, <2>7
       DEF CallStands, ApplyingSteps, MutatingSteps, RotatingSteps, MakingSteps, NewerSteps,
           ReportingSteps, RetirementSteps
  <2>9. [calls EXCEPT ![c].draft = new, ![c].at = step]
           = [calls EXCEPT ![c] = [s EXCEPT !.at = step, !.draft = new]]
    BY <1>1, TwoFields, ZenonT(60)
  <2>10. calls' = [calls EXCEPT ![c] = x]
    BY <1>5, <2>4, <2>9
  <2> QED
    BY <1>1, <1>2, <1>4, <1>5, <2>8, <2>10, SavesMove
<1>6. CASE Denied(c) /\ UNCHANGED meta
  <2>1. trouble' \in 0..MaxTrouble
    BY DEF SecretsInvariant
  <2> QED
    BY <1>6, <2>1, DenialMoves
<1> QED
  BY <1>3, <1>5, <1>6 DEF SaveThen

LEMMA SavingEnsuredMoves ==
    ASSUME SecretsInvariant, NEW c \in Callers, SaveEnsured(c)
    PROVE  SecretsInvariant'
<1>1. PICK s : s = calls[c]
  OBVIOUS
<1>2. PICK step : step = IF s.draft.mutation = "creating" THEN "probe" ELSE "versions"
  OBVIOUS
<1>3. s.at = "ensured" /\ UNCHANGED << clock, cloud, plans, trouble >>
      /\ SaveThen(c, Touched(s.draft, s.now), step)
  BY <1>1, <1>2 DEF SaveEnsured
<1>4. CallStands(s) /\ s \in Calls /\ s.now <= clock /\ s.draft \in {None} \cup SecretRecords
  BY <1>1, <1>3, InCall
<1>5. s.draft # None /\ s.draft.mutation # "idle" /\ s.draft.key = s.plan /\ s.plan \in 1..Len(plans)
      /\ s.draft.mutation # "attaching"
  BY <1>3, <1>4 DEF CallStands, ApplyingSteps, MutatingSteps, MakingSteps
<1>6. s.draft.mutation \in {"creating", "rotating"}
  BY <1>4, <1>5 DEF SecretRecords
<1>7. PICK y : y = [s EXCEPT !.at = step]
  OBVIOUS
<1>8. /\ y \in Calls /\ y.at = step /\ y.plan = s.plan /\ y.draft = s.draft
      /\ y.now = s.now /\ y.new = s.new
  BY <1>2, <1>4, <1>7, GoingOn
<1>9. CallStands(y)
  BY <1>2, <1>3, <1>4, <1>5, <1>6, <1>8
     DEF CallStands, ApplyingSteps, MutatingSteps, RotatingSteps, MakingSteps, NewerSteps,
         ReportingSteps, RetirementSteps
<1> QED
  BY <1>1, <1>2, <1>3, <1>7, <1>9, TouchingMoves

LEMMA SavingAddedMoves ==
    ASSUME SecretsInvariant, NEW c \in Callers, SaveAdded(c)
    PROVE  SecretsInvariant'
<1>1. PICK s : s = calls[c]
  OBVIOUS
<1>2. PICK step : step = IF s.draft.mutation = "creating" THEN "record" ELSE "disable"
  OBVIOUS
<1>3. s.at = "added" /\ UNCHANGED << clock, cloud, plans, trouble >>
      /\ SaveThen(c, Touched(s.draft, s.now), step)
  BY <1>1, <1>2 DEF SaveAdded
<1>4. CallStands(s) /\ s \in Calls /\ s.now <= clock /\ s.draft \in {None} \cup SecretRecords
  BY <1>1, <1>3, InCall
<1>5. s.draft # None /\ s.draft.mutation # "idle" /\ s.draft.key = s.plan /\ s.plan \in 1..Len(plans)
      /\ s.draft.mutation # "attaching"
  BY <1>3, <1>4 DEF CallStands, ApplyingSteps, MutatingSteps, MakingSteps
<1>6. s.draft.mutation \in {"creating", "rotating"}
  BY <1>4, <1>5 DEF SecretRecords
<1>7. PICK y : y = [s EXCEPT !.at = step]
  OBVIOUS
<1>8. /\ y \in Calls /\ y.at = step /\ y.plan = s.plan /\ y.draft = s.draft
      /\ y.now = s.now /\ y.new = s.new
  BY <1>2, <1>4, <1>7, GoingOn
<1>9. CallStands(y)
  BY <1>2, <1>3, <1>4, <1>5, <1>6, <1>8
     DEF CallStands, ApplyingSteps, MutatingSteps, RotatingSteps, MakingSteps, NewerSteps,
         ReportingSteps, RetirementSteps
<1> QED
  BY <1>1, <1>2, <1>3, <1>7, <1>9, TouchingMoves

LEMMA SavingDisabledMoves ==
    ASSUME SecretsInvariant, NEW c \in Callers, SaveDisabled(c)
    PROVE  SecretsInvariant'
<1>1. PICK s : s = calls[c]
  OBVIOUS
<1>2. s.at = "disabled" /\ UNCHANGED << clock, cloud, plans, trouble >>
      /\ SaveThen(c, Touched(s.draft, s.now), "record")
  BY <1>1 DEF SaveDisabled
<1>3. CallStands(s) /\ s \in Calls /\ s.now <= clock
  BY <1>1, <1>2, InCall
<1>4. PICK y : y = [s EXCEPT !.at = "record"]
  OBVIOUS
<1>5. /\ y \in Calls /\ y.at = "record" /\ y.plan = s.plan /\ y.draft = s.draft
      /\ y.now = s.now /\ y.new = s.new
  BY <1>3, <1>4, GoingOn
<1>6. s.draft.mutation = "rotating"
  BY <1>2, <1>3 DEF CallStands, RotatingSteps
<1>7. CallStands(y)
  BY <1>2, <1>3, <1>5, <1>6
     DEF CallStands, ApplyingSteps, MutatingSteps, RotatingSteps, MakingSteps, NewerSteps,
         ReportingSteps, RetirementSteps
<1> QED
  BY <1>1, <1>2, <1>4, <1>7, TouchingMoves

(* The first version of the record.                                            *)
LEMMA StagingCreationMoves ==
    ASSUME SecretsInvariant, NEW c \in Callers, NEW s, s = calls[c], s.at = "stage",
           plans[s.plan].mode = "create", StageCreate(c), UNCHANGED << clock, cloud, plans, trouble >>
    PROVE  SecretsInvariant'
<1>1. CallStands(s) /\ s \in Calls /\ s.now <= clock /\ s.now \in 0..MaxTime
  BY InCall
<1>2. s.plan \in 1..Len(plans) /\ plans[s.plan] \in PlanRecord
  BY <1>1, SecretsFacts DEF CallStands, ApplyingSteps
<1>3. PICK new : new = CreateDraft(s.plan, s.payload, s.now)
  OBVIOUS
<1>4. CASE /\ meta = None /\ meta' = new
           /\ calls' = [calls EXCEPT ![c].draft = new, ![c].at = "ensure"]
  <2>1. /\ s.plan \in 0..MaxPlans /\ s.payload \in Payloads \cup {None}
        /\ plans[s.plan].workloads \in SUBSET Workloads
    BY <1>1, <1>2 DEF Calls, PlanRecord
  <2>2. PICK workloads : workloads = plans[s.plan].workloads
    OBVIOUS
  <2>3. new = [ active |-> 1, attached |-> {}, rotation |-> "stable", retiring |-> 0, notBefore |-> 0,
                mutation |-> "creating", key |-> s.plan, pending |-> workloads,
                payload |-> s.payload, updated |-> s.now, number |-> 1 ]
    BY <1>3, <2>2 DEF CreateDraft, IdleRecord
  <2>4. new \in SecretRecords
    BY <1>1, <2>1, <2>2, <2>3 DEF SecretRecords
  <2>5. RecordStands(new)
    <3>1. new.mutation = InFlight(plans[s.plan].mode)
      BY <2>3 DEF InFlight
    <3> QED
      BY <1>2, <2>2, <2>3, <2>4, <3>1 DEF RecordStands
  <2>6. cloud = NoCloud
    BY <1>4 DEF SecretsInvariant, SecretStands
  <2>7. VersionsStand(new) /\ cloud.readers \subseteq new.attached \cup new.pending
    <3>1. cloud.versions = << >> /\ cloud.readers = {}
      BY <2>6 DEF NoCloud
    <3>2. Versions = {}
      BY <3>1 DEF Versions
    <3> QED
      BY <3>1, <3>2 DEF VersionsStand
  <2>8. Progresses
    BY <1>4, <2>4, SavingProgresses
  <2>9. PICK x : x = [s EXCEPT !.at = "ensure", !.draft = new]
    OBVIOUS
  <2>10. /\ x \in Calls /\ x.at = "ensure" /\ x.plan = s.plan /\ x.draft = new
         /\ x.now = s.now /\ x.new = s.new
    BY <1>1, <2>4, <2>9 DEF Calls
  <2>11. RecordStands(new)' /\ meta' # None /\ Precedes(new, meta')
    BY <1>4, <2>4, <2>5, <2>8, RecordKeeps, PrecedesItself, RecordsAreNotNone
  <2>12. new.mutation = "creating" /\ new.key = s.plan /\ new # None
    BY <2>3, <2>4, RecordsAreNotNone
  <2>13. CallStands(x)'
    BY <1>1, <1>2, <2>10, <2>11, <2>12
       DEF CallStands, ApplyingSteps, MutatingSteps, RotatingSteps, MakingSteps, NewerSteps,
           ReportingSteps, RetirementSteps
  <2>14. [calls EXCEPT ![c].draft = new, ![c].at = "ensure"]
           = [calls EXCEPT ![c] = [s EXCEPT !.at = "ensure", !.draft = new]]
    BY <1>1, TwoFields, ZenonT(60)
  <2>15. calls' = [calls EXCEPT ![c] = x]
    BY <1>4, <2>9, <2>14
  <2>16. new.updated <= clock
    BY <1>1, <2>3
  <2> QED
    BY <1>4, <2>4, <2>5, <2>7, <2>13, <2>15, <2>16, SavingMove
<1>5. CASE Denied(c) /\ UNCHANGED meta
  <2>1. trouble' \in 0..MaxTrouble
    BY DEF SecretsInvariant
  <2> QED
    BY <1>5, <2>1, DenialMoves
<1> QED
  BY <1>3, <1>4, <1>5 DEF StageCreate

(* A mutation is staged in a record that is in none.                           *)
LEMMA StagingSaves ==
    ASSUME SecretsInvariant, NEW c \in Callers, NEW s, s = calls[c], s.at = "stage",
           s.draft # None, s.draft.mutation = "idle",
           NEW base \in SecretRecords,
           base.mutation = InFlight(plans[s.plan].mode), base.mutation \in {"attaching", "rotating"},
           base.key = s.plan, base.pending = plans[s.plan].workloads,
           base.active = s.draft.active, base.attached = s.draft.attached, base.number = s.draft.number,
           \/ base.rotation = "rotating"
           \/ base.rotation = s.draft.rotation /\ base.retiring = s.draft.retiring
              /\ base.notBefore = s.draft.notBefore,
           NEW new, new = Touched(base, s.now), SaveThen(c, new, "probe"),
           UNCHANGED << clock, cloud, plans, trouble >>
    PROVE  SecretsInvariant'
<1>1. /\ CallStands(s) /\ s \in Calls /\ s.now <= clock /\ s.now \in 0..MaxTime
      /\ meta # None /\ RecordStands(s.draft) /\ Precedes(s.draft, meta)
      /\ s.draft \in SecretRecords /\ meta \in SecretRecords
  BY InCall
<1>2. s.plan \in 1..Len(plans)
  BY <1>1 DEF CallStands, ApplyingSteps
<1>3. /\ new \in SecretRecords /\ new.updated = s.now /\ new.number = s.draft.number + 1
      /\ new.mutation = base.mutation /\ new.key = base.key /\ new.pending = base.pending
      /\ RecordStands(base) => RecordStands(new)
  BY <1>1, TouchedStands
<1>4. CASE /\ Saves(c, new) /\ meta' = new
           /\ calls' = [calls EXCEPT ![c].draft = new, ![c].at = "probe"]
  <2>1. s.draft = meta /\ LegalUpdate(meta, new) /\ Precedes(meta, new)
    BY <1>3, <1>4, SavedFollows
  <2>2. base.attached \subseteq base.pending
    <3>1. ~Keeps(meta, new) /\ ~Ends(meta, new)
      BY <1>3, <2>1 DEF Keeps, Ends
    <3>2. meta.attached \subseteq new.pending
      BY <2>1, <3>1 DEF LegalUpdate, Begins
    <3> QED
      BY <1>3, <2>1, <3>2
  <2>3. RecordStands(base)
    BY <1>1, <1>2, <2>2 DEF RecordStands
  <2>4. Progresses
    BY <1>3, <1>4, <2>1, SavingProgresses
  <2>5. RecordStands(new)' /\ meta' # None /\ Precedes(new, meta')
    BY <1>3, <1>4, <2>3, <2>4, RecordKeeps, PrecedesItself, RecordsAreNotNone
  <2>6. PICK x : x = [s EXCEPT !.at = "probe", !.draft = new]
    OBVIOUS
  <2>7. /\ x \in Calls /\ x.at = "probe" /\ x.plan = s.plan /\ x.draft = new
        /\ x.now = s.now /\ x.new = s.new
    BY <1>1, <1>3, <2>6 DEF Calls
  <2>8. new # None /\ new.mutation # "idle" /\ new.key = s.plan
    BY <1>3, RecordsAreNotNone
  <2>9. CallStands(x)'
    BY <1>1, <1>2, <1>4, <2>5, <2>7, <2>8
       DEF CallStands, ApplyingSteps, MutatingSteps, RotatingSteps, MakingSteps, NewerSteps,
           ReportingSteps, RetirementSteps
  <2>10. [calls EXCEPT ![c].draft = new, ![c].at = "probe"]
            = [calls EXCEPT ![c] = [s EXCEPT !.at = "probe", !.draft = new]]
    BY <1>1, TwoFields, ZenonT(60)
  <2>11. calls' = [calls EXCEPT ![c] = x]
    BY <1>4, <2>6, <2>10
  <2> QED
    BY ZenonT(60), <1>3, <1>4, <2>3, <2>9, <2>11, SavesMove
<1>5. CASE Denied(c) /\ UNCHANGED meta
  <2>1. trouble' \in 0..MaxTrouble
    BY DEF SecretsInvariant
  <2> QED
    BY <1>5, <2>1, DenialMoves
<1> QED
  BY <1>4, <1>5 DEF SaveThen

LEMMA StagingAttachmentMoves ==
    ASSUME SecretsInvariant, NEW c \in Callers, NEW s, s = calls[c], s.at = "stage",
           plans[s.plan].mode = "attach", StageAttach(c), UNCHANGED << clock, cloud, plans, trouble >>
    PROVE  SecretsInvariant'
<1>1. CallStands(s) /\ s \in Calls /\ s.now <= clock
  BY InCall
<1>2. s.plan \in 1..Len(plans) /\ s.draft # None /\ s.draft.mutation = "idle"
  BY <1>1 DEF CallStands, ApplyingSteps
<1>3. /\ meta # None /\ RecordStands(s.draft) /\ Precedes(s.draft, meta)
      /\ s.draft \in SecretRecords /\ meta \in SecretRecords
  BY <1>2, InCall
<1>4. plans[s.plan] \in PlanRecord
  BY <1>2, SecretsFacts
<1>5. CASE s.draft.attached = plans[s.plan].workloads /\ Goto(c, "mark") /\ UNCHANGED meta
  <2>1. Done(s.plan)
    BY <1>3, <1>5 DEF Done, Precedes
  <2>2. PICK x : x = [s EXCEPT !.at = "mark"]
    OBVIOUS
  <2>3. /\ x \in Calls /\ x.at = "mark" /\ x.plan = s.plan /\ x.draft = s.draft
        /\ x.now = s.now /\ x.new = s.new
    BY <1>1, <2>2, GoingOn
  <2>4. CallStands(x)
    BY <1>1, <1>2, <2>1, <2>3
       DEF CallStands, ApplyingSteps, MutatingSteps, RotatingSteps, MakingSteps, NewerSteps,
           ReportingSteps, RetirementSteps
  <2>5. calls' = [calls EXCEPT ![c] = x] /\ trouble' \in 0..MaxTrouble
    BY <1>5, <2>2 DEF Goto, SecretsInvariant
  <2> QED
    BY <1>5, <2>4, <2>5, QuietMove
<1>6. CASE SaveThen(c, BeginAttachment(s.draft, s.plan, s.now), "probe")
  <2>1. PICK workloads : workloads = plans[s.plan].workloads
    OBVIOUS
  <2>2. PICK base : base = [s.draft EXCEPT !.mutation = "attaching", !.key = s.plan,
                                           !.pending = workloads, !.payload = None]
    OBVIOUS
  <2>3. s.plan \in 0..MaxPlans /\ workloads \in SUBSET Workloads
    BY <1>1, <1>4, <2>1 DEF Calls, PlanRecord
  <2>4. /\ base \in SecretRecords /\ base.mutation = "attaching" /\ base.key = s.plan
        /\ base.pending = workloads /\ base.active = s.draft.active
        /\ base.attached = s.draft.attached /\ base.number = s.draft.number
        /\ base.rotation = s.draft.rotation /\ base.retiring = s.draft.retiring
        /\ base.notBefore = s.draft.notBefore
    BY <1>3, <2>2, <2>3 DEF SecretRecords
  <2>5. base.mutation = InFlight(plans[s.plan].mode)
    BY <2>4 DEF InFlight
  <2>6. PICK new : new = Touched(base, s.now)
    OBVIOUS
  <2>7. SaveThen(c, new, "probe")
    BY <1>6, <2>1, <2>2, <2>6 DEF BeginAttachment
  <2> QED
    BY <1>2, <2>1, <2>4, <2>5, <2>6, <2>7, StagingSaves
<1> QED
  BY <1>5, <1>6 DEF StageAttach

LEMMA StagingRotationMoves ==
    ASSUME SecretsInvariant, NEW c \in Callers, NEW s, s = calls[c], s.at = "stage",
           plans[s.plan].mode = "rotate", StageRotate(c), UNCHANGED << clock, cloud, plans, trouble >>
    PROVE  SecretsInvariant'
<1>1. CallStands(s) /\ s \in Calls /\ s.now <= clock
  BY InCall
<1>2. s.plan \in 1..Len(plans) /\ s.draft # None /\ s.draft.mutation = "idle"
  BY <1>1 DEF CallStands, ApplyingSteps
<1>3. s.draft \in SecretRecords
  BY <1>2, InCall
<1>4. plans[s.plan] \in PlanRecord
  BY <1>2, SecretsFacts
<1>5. CASE SaveThen(c, BeginRotation(s.draft, s.plan, s.payload, s.now), "probe")
  <2>1. PICK workloads : workloads = plans[s.plan].workloads
    OBVIOUS
  <2>2. PICK base : base = [s.draft EXCEPT !.rotation = "rotating", !.mutation = "rotating",
                                           !.key = s.plan, !.pending = workloads,
                                           !.payload = s.payload]
    OBVIOUS
  <2>3. s.plan \in 0..MaxPlans /\ workloads \in SUBSET Workloads /\ s.payload \in Payloads \cup {None}
    BY <1>1, <1>4, <2>1 DEF Calls, PlanRecord
  <2>4. /\ base \in SecretRecords /\ base.mutation = "rotating" /\ base.key = s.plan
        /\ base.pending = workloads /\ base.active = s.draft.active
        /\ base.attached = s.draft.attached /\ base.number = s.draft.number
        /\ base.rotation = "rotating"
    BY <1>3, <2>2, <2>3 DEF SecretRecords
  <2>5. base.mutation = InFlight(plans[s.plan].mode)
    BY <2>4 DEF InFlight
  <2>6. PICK new : new = Touched(base, s.now)
    OBVIOUS
  <2>7. SaveThen(c, new, "probe")
    BY <1>5, <2>1, <2>2, <2>6 DEF BeginRotation
  <2> QED
    BY <1>2, <2>1, <2>4, <2>5, <2>6, <2>7, StagingSaves
<1>6. CASE Denied(c) /\ UNCHANGED meta
  <2>1. trouble' \in 0..MaxTrouble
    BY DEF SecretsInvariant
  <2> QED
    BY <1>6, <2>1, DenialMoves
<1> QED
  BY <1>5, <1>6 DEF StageRotate

LEMMA StagingMoves ==
    ASSUME SecretsInvariant, NEW c \in Callers, Stage(c)
    PROVE  SecretsInvariant'
<1>1. PICK s : s = calls[c]
  OBVIOUS
<1>2. s.at = "stage" /\ UNCHANGED << clock, cloud, plans, trouble >>
  BY <1>1 DEF Stage
<1>3. CallStands(s)
  BY <1>1, <1>2, InCall
<1>4. s.plan \in 1..Len(plans) /\ plans[s.plan] \in PlanRecord
  BY <1>2, <1>3, SecretsFacts DEF CallStands, ApplyingSteps
<1>5. plans[s.plan].mode \in {"create", "attach", "rotate"}
  BY <1>4 DEF PlanRecord
<1>6. \/ plans[s.plan].mode = "create" /\ StageCreate(c)
      \/ plans[s.plan].mode = "attach" /\ StageAttach(c)
      \/ plans[s.plan].mode = "rotate" /\ StageRotate(c)
  BY <1>1, <1>5 DEF Stage
<1> QED
  BY <1>1, <1>2, <1>6, StagingCreationMoves, StagingAttachmentMoves, StagingRotationMoves

(* The mutation is over: the record has what the plan promised.                *)
LEMMA RecordingSaves ==
    ASSUME SecretsInvariant, NEW c \in Callers, NEW s, s = calls[c], s.at = "record",
           NEW base \in SecretRecords,
           base.mutation = "idle", base.key = 0, base.pending = {}, base.payload = None,
           base.attached = s.draft.pending, base.number = s.draft.number, base.active \in Versions,
           s.draft.mutation = "rotating" => s.draft.active < base.active,
           \/ /\ s.draft.mutation # "rotating"
              /\ base.rotation = s.draft.rotation /\ base.retiring = s.draft.retiring
              /\ base.notBefore = s.draft.notBefore
           \/ /\ s.draft.mutation = "rotating"
              /\ base.retiring = s.draft.active /\ base.notBefore = s.draft.updated + Window,
           NEW new, new = Touched(base, s.now), SaveThen(c, new, "mark"),
           UNCHANGED << clock, cloud, plans, trouble >>
    PROVE  SecretsInvariant'
<1>1. CallStands(s) /\ s \in Calls /\ s.now <= clock /\ s.now \in 0..MaxTime
  BY InCall
<1>2. s.draft # None /\ s.draft.mutation # "idle" /\ s.draft.key = s.plan /\ s.plan \in 1..Len(plans)
  BY <1>1 DEF CallStands, ApplyingSteps, MutatingSteps
<1>3. /\ meta # None /\ RecordStands(s.draft) /\ Precedes(s.draft, meta)
      /\ s.draft \in SecretRecords /\ meta \in SecretRecords
  BY <1>2, InCall
<1>4. /\ new \in SecretRecords /\ new.updated = s.now /\ new.number = s.draft.number + 1
      /\ new.active = base.active /\ new.attached = base.attached
      /\ RecordStands(base) => RecordStands(new)
  BY <1>1, TouchedStands
<1>5. CASE /\ Saves(c, new) /\ meta' = new
           /\ calls' = [calls EXCEPT ![c].draft = new, ![c].at = "mark"]
  <2>1. s.draft = meta /\ Precedes(meta, new)
    BY <1>2, <1>4, <1>5, SavedFollows
  <2>2. s.draft.mutation = "rotating" =>
          /\ s.draft.active \in Versions /\ ~Enabled(s.draft.active)
          /\ cloud.versions[s.draft.active].since + Window <= s.draft.updated + Window
    <3> SUFFICES ASSUME s.draft.mutation = "rotating"
                 PROVE  /\ s.draft.active \in Versions /\ ~Enabled(s.draft.active)
                        /\ cloud.versions[s.draft.active].since + Window <= s.draft.updated + Window
      OBVIOUS
    <3>1. s.draft.active \in Versions /\ ~Enabled(s.draft.active)
      BY <1>1, <1>2, <1>3 DEF CallStands, RecordStands
    <3>2. cloud.versions[s.draft.active].since <= s.draft.updated
      BY <2>1, <1>3, <3>1 DEF SecretsInvariant, SecretStands, VersionsStand
    <3>3. cloud.versions[s.draft.active].since \in 0..MaxTime
      BY <3>1, SecretsFacts DEF VersionRecord
    <3>4. cloud.versions[s.draft.active].since \in Nat /\ s.draft.updated \in Nat /\ Window \in Nat
      BY <1>3, <3>3, TimesAreNumbers
    <3> QED
      BY <3>1, <3>2, <3>4
  <2>3. base.rotation = "retiring" =>
          /\ base.retiring \in Versions /\ ~Enabled(base.retiring)
          /\ cloud.versions[base.retiring].since + Window <= base.notBefore
    <3>1. CASE s.draft.mutation # "rotating"
      BY <1>3, <3>1 DEF RecordStands
    <3>2. CASE s.draft.mutation = "rotating"
      BY <2>2, <3>2
    <3> QED
      BY <3>1, <3>2
  <2>4. RecordStands(base)
    BY <2>3 DEF RecordStands
  <2>5. Progresses
    BY <1>4, <1>5, <2>1, SavingProgresses
  <2>6. RecordStands(new)' /\ meta' # None /\ Precedes(new, meta') /\ new # None
    BY <1>4, <1>5, <2>4, <2>5, RecordKeeps, PrecedesItself, RecordsAreNotNone
  <2>7. Done(s.plan)'
    <3>1. /\ s.draft.pending = plans[s.plan].workloads
          /\ s.draft.mutation = InFlight(plans[s.plan].mode)
      BY <1>2, <1>3 DEF RecordStands
    <3>2. plans[s.plan] \in PlanRecord
      BY <1>2, SecretsFacts
    <3>3. plans[s.plan].active <= meta.active
      BY <1>2, <1>3 DEF SecretsInvariant, PlansStand
    <3>4. plans[s.plan].mode = "rotate" => s.draft.mutation = "rotating"
      BY <3>1 DEF InFlight
    <3>5. plans[s.plan].active \in Nat /\ meta.active \in Nat /\ new.active \in Nat
      BY <3>2, <1>3, <1>4, TimesAreNumbers DEF PlanRecord
    <3>6. plans[s.plan].mode = "rotate" => plans[s.plan].active < new.active
      BY <3>3, <3>4, <3>5, <2>1, <1>4
    <3>7. plans[s.plan].workloads \subseteq new.attached
      BY <3>1, <1>4
    <3> QED
      BY <3>6, <3>7, <2>6, <1>5 DEF Done
  <2>8. PICK x : x = [s EXCEPT !.at = "mark", !.draft = new]
    OBVIOUS
  <2>9. /\ x \in Calls /\ x.at = "mark" /\ x.plan = s.plan /\ x.draft = new
        /\ x.now = s.now /\ x.new = s.new
    BY <1>1, <1>4, <2>8 DEF Calls
  <2>10. CallStands(x)'
    BY <1>1, <1>2, <2>6, <2>7, <2>9
       DEF CallStands, ApplyingSteps, MutatingSteps, RotatingSteps, MakingSteps, NewerSteps,
           ReportingSteps, RetirementSteps
  <2>11. [calls EXCEPT ![c].draft = new, ![c].at = "mark"]
            = [calls EXCEPT ![c] = [s EXCEPT !.at = "mark", !.draft = new]]
    BY <1>1, TwoFields, ZenonT(60)
  <2>12. calls' = [calls EXCEPT ![c] = x]
    BY <1>5, <2>8, <2>11
  <2> QED
    BY ZenonT(60), <1>2, <1>4, <1>5, <2>4, <2>10, <2>12, SavesMove
<1>6. CASE Denied(c) /\ UNCHANGED meta
  <2>1. trouble' \in 0..MaxTrouble
    BY DEF SecretsInvariant
  <2> QED
    BY <1>6, <2>1, DenialMoves
<1> QED
  BY <1>5, <1>6 DEF SaveThen

LEMMA RecordingMoves ==
    ASSUME SecretsInvariant, NEW c \in Callers, Record(c)
    PROVE  SecretsInvariant'
<1>1. PICK s : s = calls[c]
  OBVIOUS
<1>2. s.at = "record" /\ UNCHANGED << clock, cloud, plans, trouble >>
      /\ ((Denied(c) /\ UNCHANGED meta) \/ SaveThen(c, Recorded(s), "mark"))
  BY <1>1 DEF Record
<1>3. CallStands(s) /\ s \in Calls /\ s.now <= clock
  BY <1>1, <1>2, InCall
<1>4. s.draft # None /\ s.draft.mutation # "idle"
  BY <1>2, <1>3 DEF CallStands, MutatingSteps
<1>5. s.draft \in SecretRecords /\ RecordStands(s.draft)
  BY <1>1, <1>2, <1>4, InCall
<1>6. s.draft.mutation \in {"creating", "attaching", "rotating"}
  BY <1>4, <1>5 DEF SecretRecords
<1>7. CASE Denied(c) /\ UNCHANGED meta
  <2>1. trouble' \in 0..MaxTrouble
    BY <1>2 DEF SecretsInvariant
  <2> QED
    BY <1>2, <1>7, <2>1, DenialMoves
<1>8. CASE s.draft.mutation \in {"creating", "attaching"} /\ SaveThen(c, Recorded(s), "mark")
  <2>1. PICK base : base = [s.draft EXCEPT !.attached = s.draft.pending, !.mutation = "idle",
                                           !.key = 0, !.pending = {}, !.payload = None]
    OBVIOUS
  <2>2. 0 \in 0..MaxPlans
    BY SecretsFacts
  <2>3. /\ base \in SecretRecords /\ base.mutation = "idle" /\ base.key = 0 /\ base.pending = {}
        /\ base.payload = None /\ base.attached = s.draft.pending /\ base.number = s.draft.number
        /\ base.active = s.draft.active /\ base.rotation = s.draft.rotation
        /\ base.retiring = s.draft.retiring /\ base.notBefore = s.draft.notBefore
    BY <1>5, <2>1, <2>2 DEF SecretRecords
  <2>4. base.active \in Versions
    <3>1. CASE s.draft.mutation = "creating"
      BY <1>2, <1>3, <1>5, <2>3, <3>1 DEF CallStands, RecordStands
    <3>2. CASE s.draft.mutation = "attaching"
      BY <1>5, <2>3, <3>2 DEF RecordStands
    <3> QED
      BY <1>8, <3>1, <3>2
  <2>5. PICK new : new = Touched(base, s.now)
    OBVIOUS
  <2>6. Recorded(s) = new
    <3>1. base = Settled([s.draft EXCEPT !.attached = s.draft.pending])
      BY <1>5, <2>1 DEF Settled, SecretRecords
    <3>2. Recorded(s) = Touched(Settled([s.draft EXCEPT !.attached = s.draft.pending]), s.now)
      BY <1>8 DEF Recorded, FinalizeCreation, FinalizeAttachment
    <3> QED
      BY <3>1, <3>2, <2>5
  <2> QED
    BY <1>1, <1>2, <1>8, <2>3, <2>4, <2>5, <2>6, RecordingSaves
<1>9. CASE s.draft.mutation = "rotating" /\ SaveThen(c, Recorded(s), "mark")
  <2>1. s.new \in Versions /\ s.draft.active < s.new
    BY <1>2, <1>3, <1>9 DEF CallStands, NewerSteps
  <2>2. PICK base : base = [s.draft EXCEPT !.active = s.new, !.attached = s.draft.pending,
                              !.rotation = "retiring", !.retiring = s.draft.active,
                              !.notBefore = s.draft.updated + Window, !.mutation = "idle",
                              !.key = 0, !.pending = {}, !.payload = None]
    OBVIOUS
  <2>3. 0 \in 0..MaxPlans /\ s.draft.updated + Window \in Nat /\ s.new \in Nat \ {0}
    <3>1. s.draft.updated \in Nat /\ Window \in Nat
      BY <1>5, TimesAreNumbers
    <3>2. s.new \in Nat \ {0}
      BY <2>1, SecretsFacts DEF Versions
    <3> QED
      BY <3>1, <3>2, SecretsFacts
  <2>4. /\ base \in SecretRecords /\ base.mutation = "idle" /\ base.key = 0 /\ base.pending = {}
        /\ base.payload = None /\ base.attached = s.draft.pending /\ base.number = s.draft.number
        /\ base.active = s.new /\ base.retiring = s.draft.active
        /\ base.notBefore = s.draft.updated + Window
    BY <1>5, <2>2, <2>3 DEF SecretRecords
  <2>5. PICK new : new = Touched(base, s.now)
    OBVIOUS
  <2>6. Recorded(s) = new
    <3>1. PICK moved : moved = [s.draft EXCEPT !.active = s.new, !.attached = s.draft.pending,
                                  !.rotation = "retiring", !.retiring = s.draft.active,
                                  !.notBefore = s.draft.updated + Window]
      OBVIOUS
    <3>2. base = Settled(moved)
      BY <1>5, <2>2, <3>1 DEF Settled, SecretRecords
    <3>3. Recorded(s) = Touched(Settled(moved), s.now)
      BY <1>9, <3>1 DEF Recorded, RecordRotation
    <3> QED
      BY <3>2, <3>3, <2>5
  <2> QED
    BY <1>1, <1>2, <1>9, <2>1, <2>4, <2>5, <2>6, RecordingSaves
<1> QED
  BY <1>2, <1>6, <1>7, <1>8, <1>9

LEMMA SavingRetiredMoves ==
    ASSUME SecretsInvariant, NEW c \in Callers, SaveRetired(c)
    PROVE  SecretsInvariant'
<1>1. PICK s : s = calls[c]
  OBVIOUS
<1>2. PICK new : new = CompleteRetirement(s.draft, s.now)
  OBVIOUS
<1>3. s.at = "destroyed" /\ UNCHANGED << clock, cloud, plans, trouble >> /\ Denied(c)
      /\ IF Saves(c, new) THEN meta' = new ELSE UNCHANGED meta
  BY <1>1, <1>2 DEF SaveRetired
<1>4. CallStands(s) /\ s \in Calls /\ s.now \in 0..MaxTime
  BY <1>1, <1>3, InCall
<1>5. s.draft # None
  BY <1>3, <1>4 DEF CallStands, RetirementSteps
<1>6. s.draft \in SecretRecords /\ RecordStands(s.draft)
  BY <1>1, <1>3, <1>5, InCall
<1>7. PICK base : base = [s.draft EXCEPT !.rotation = "stable", !.retiring = 0, !.notBefore = 0]
  OBVIOUS
<1>8. /\ base \in SecretRecords /\ base.rotation = "stable" /\ base.active = s.draft.active
      /\ base.attached = s.draft.attached /\ base.mutation = s.draft.mutation
      /\ base.key = s.draft.key /\ base.pending = s.draft.pending
      /\ base.payload = s.draft.payload /\ base.number = s.draft.number
  BY <1>6, <1>7 DEF SecretRecords
<1>9. RecordStands(base)
  BY <1>6, <1>8 DEF RecordStands
<1>10. new = Touched(base, s.now)
  BY <1>2, <1>7 DEF CompleteRetirement
<1>11. new \in SecretRecords /\ new.updated = s.now /\ new.number = s.draft.number + 1
       /\ RecordStands(new)
  BY <1>4, <1>8, <1>9, <1>10, TouchedStands
<1>12. CASE Saves(c, new) /\ meta' = new
  <2>1. PICK x : x = IdleCall
    OBVIOUS
  <2>2. CallStands(x)' /\ calls' = [calls EXCEPT ![c] = x]
    BY <1>3, <2>1, IdleStands DEF Denied
  <2> QED
    BY <1>1, <1>3, <1>5, <1>11, <1>12, <2>2, SavesMove
<1>13. CASE UNCHANGED meta
  <2>1. trouble' \in 0..MaxTrouble
    BY <1>3 DEF SecretsInvariant
  <2> QED
    BY <1>3, <1>13, <2>1, DenialMoves
<1> QED
  BY <1>3, <1>12, <1>13

-------------------------------------------------------------------------------
(* The invariant.                                                              *)

LEMMA SecretsStart ==
    ASSUME Init
    PROVE  SecretsInvariant
<1>1. clock = 0 /\ plans = << >> /\ calls = [c \in Callers |-> IdleCall] /\ trouble = 0
  BY DEF Init
<1>2. /\ 0 \in 0..MaxTime /\ 0 \in 0..MaxTrouble /\ 0 \in 0..MaxPlans
      /\ MaxPlans \in Nat /\ MaxVersions \in Nat \ {0} /\ Window \in Nat
  BY SecretParameters DEF SecretParameters
<1>3. calls = [c \in Callers |-> calls[c]] /\ \A c \in Callers : CallStands(calls[c])
  BY <1>1, IdleStands
<1>4. PlansStand
  <2>1. plans \in Seq(PlanRecord) /\ Len(plans) = 0
    BY <1>1, EmptySeq
  <2> QED
    BY <2>1, <1>2 DEF PlansStand
<1>5. CASE meta = None /\ cloud = NoCloud
  <2>1. cloud.versions = << >> /\ cloud \in CloudRecord
    BY <1>5, EmptySeq DEF NoCloud, CloudRecord
  <2>2. Len(cloud.versions) <= MaxVersions
    BY <2>1, <1>2
  <2>3. SecretStands
    BY <1>5 DEF SecretStands
  <2> QED
    BY <1>1, <1>2, <1>3, <1>4, <1>5, <2>1, <2>2, <2>3 DEF SecretsInvariant
<1>6. CASE \E w \in Workloads, payload \in Payloads :
             /\ meta = IdleRecord(1, {w}, 1)
             /\ cloud = [exists |-> TRUE, readers |-> {w}, versions |->
                  << [state |-> "enabled", payload |-> payload, since |-> 0] >>]
  <2>1. PICK w \in Workloads, payload \in Payloads :
             /\ meta = IdleRecord(1, {w}, 1)
             /\ cloud = [exists |-> TRUE, readers |-> {w}, versions |->
                  << [state |-> "enabled", payload |-> payload, since |-> 0] >>]
    BY <1>6
  <2>2. PICK e : e = [state |-> "enabled", payload |-> payload, since |-> 0]
    OBVIOUS
  <2>3. e \in VersionRecord
    BY <2>2, <1>2 DEF VersionRecord
  <2>4. PICK versions : versions = << e >>
    OBVIOUS
  <2>5. versions \in Seq(VersionRecord) /\ Len(versions) = 1 /\ versions[1] = e
    BY <2>3, <2>4
  <2>6. cloud = [exists |-> TRUE, readers |-> {w}, versions |-> versions]
    BY <2>1, <2>2, <2>4
  <2>7. cloud \in CloudRecord /\ Len(cloud.versions) <= MaxVersions
    <3>1. {w} \in SUBSET Workloads
      BY <2>1
    <3>2. Len(versions) <= MaxVersions
      BY <2>5, <1>2
    <3> QED
      BY <2>5, <2>6, <3>1, <3>2 DEF CloudRecord
  <2>8. Versions = {1} /\ Enabled(1) /\ cloud.readers = {w}
    BY <2>2, <2>5, <2>6 DEF Versions, Enabled
  <2>9. /\ meta.active = 1 /\ meta.attached = {w} /\ meta.rotation = "stable"
        /\ meta.mutation = "idle" /\ meta.key = 0 /\ meta.pending = {} /\ meta.payload = None
        /\ meta.updated = 0
    BY <2>1 DEF IdleRecord
  <2>10. meta \in SecretRecords
    BY <2>1, <1>2 DEF IdleRecord, SecretRecords
  <2>11. RecordStands(meta)
    BY <2>8, <2>9, <2>10 DEF RecordStands
  <2>12. VersionsStand(meta)
    BY <2>8 DEF VersionsStand
  <2>13. SecretStands
    BY <1>1, <2>8, <2>9, <2>10, <2>11, <2>12, RecordsAreNotNone DEF SecretStands
  <2> QED
    BY <1>1, <1>2, <1>3, <1>4, <2>7, <2>10, <2>13 DEF SecretsInvariant
<1> QED
  BY <1>5, <1>6 DEF Init

LEMMA SecretsStep ==
    ASSUME SecretsInvariant, [Next]_vars
    PROVE  SecretsInvariant'
<1>1. CASE Plan
  BY <1>1, PlanningMoves
<1>2. ASSUME NEW c \in Callers,
             \/ \E p \in 1..Len(plans), payload \in Payloads : BeginApply(c, p, payload)
             \/ BeginRetirement(c)
             \/ Crash(c)
      PROVE  SecretsInvariant'
  BY <1>2, BeginningMoves, BeginningRetirementMoves, CrashingMoves
<1>3. ASSUME NEW c \in Callers, Step(c)
      PROVE  SecretsInvariant'
  <2>1. CASE Consume(c) \/ Stage(c) \/ Resume(c)
    BY <2>1, ConsumingMoves, StagingMoves, ResumingMoves
  <2>2. CASE Ensure(c) \/ SaveEnsured(c) \/ Probe(c) \/ ProbeVersions(c) \/ Bind(c)
    BY <2>2, EnsuringMoves, SavingEnsuredMoves, ProbingMoves, ProbingVersionsMoves, BindingTheCallMoves
  <2>3. CASE AddVersion(c) \/ SaveAdded(c) \/ DisableOldVersion(c) \/ SaveDisabled(c)
    BY <2>3, AddingMoves, SavingAddedMoves, DisablingMoves, SavingDisabledMoves
  <2>4. CASE Record(c) \/ MarkSucceeded(c) \/ RecordResult(c)
    BY <2>4, RecordingMoves, MarkingMoves, RecordingResultMoves
  <2>5. CASE EnsureRetiring(c) \/ DestroyOldVersion(c) \/ SaveRetired(c)
    BY <2>5, EnsuringRetirementMoves, DestroyingMoves, SavingRetiredMoves
  <2> QED
    BY <1>3, <2>1, <2>2, <2>3, <2>4, <2>5 DEF Step
<1>4. ASSUME NEW w \in Workloads, Unbind(w)
      PROVE  SecretsInvariant'
  BY <1>4, UnbindingMoves
<1>5. CASE Tick
  BY <1>5, TickingMoves
<1>6. CASE UNCHANGED vars
  <2>1. clock' = clock /\ meta' = meta /\ cloud' = cloud /\ plans' = plans /\ calls' = calls
        /\ trouble' = trouble
    BY <1>6 DEF vars
  <2>2. Versions' = Versions /\ \A v : Enabled(v)' <=> Enabled(v)
    BY <2>1 DEF Versions, Enabled
  <2>3. \A m : RecordStands(m)' <=> RecordStands(m)
    BY <2>1, <2>2 DEF RecordStands
  <2>4. \A m : VersionsStand(m)' <=> VersionsStand(m)
    BY <2>1, <2>2 DEF VersionsStand
  <2>5. SecretStands' <=> SecretStands
    BY <2>1, <2>3, <2>4 DEF SecretStands
  <2>6. \A p : Done(p)' <=> Done(p)
    BY <2>1 DEF Done
  <2>7. PlansStand' <=> PlansStand
    BY <2>1, <2>6 DEF PlansStand
  <2>8. \A c \in Callers : CallStands(calls[c])' <=> CallStands(calls[c])
    BY <2>1, <2>2, <2>3, <2>6 DEF CallStands
  <2> QED
    BY <2>1, <2>5, <2>7, <2>8 DEF SecretsInvariant
<1> QED
  BY <1>1, <1>2, <1>3, <1>4, <1>5, <1>6 DEF Next

THEOREM SecretsInvariantHolds == Spec => []SecretsInvariant
<1> QED
  BY SecretsStart, SecretsStep, PTL DEF Spec

-------------------------------------------------------------------------------
(* What follows.                                                               *)

(* The record, Secret Manager's versions, the plans and every call in flight   *)
(* stay within the shapes domain/models.py gives them, and a record in no      *)
(* mutation has forgotten the key, workloads and hash of the last one          *)
(* (SecretMetadata, save_secret_metadata).                                     *)
THEOREM SecretsAreTyped == Spec => []TypeOK
<1>1. SecretsInvariant => TypeOK
  <2> SUFFICES ASSUME SecretsInvariant
               PROVE  TypeOK
    OBVIOUS
  <2>1. cloud.exists \in BOOLEAN /\ cloud.readers \in SUBSET Workloads
    BY DEF SecretsInvariant, CloudRecord
  <2>2. \A p \in 1..Len(plans) : plans[p].op \in {"none", "queued", "succeeded", "recorded"}
    BY SecretsFacts DEF PlanRecord
  <2>3. \A c \in Callers : calls[c] \in Calls \cup {IdleCall}
    BY DEF SecretsInvariant, CallStands
  <2>4. ASSUME meta # None
        PROVE  /\ meta.mutation = "idle" => meta.key = 0 /\ meta.pending = {} /\ meta.payload = None
               /\ meta.mutation # "idle" => meta.pending # {} /\ meta.attached \subseteq meta.pending
    <3>1. RecordStands(meta)
      BY <2>4 DEF SecretsInvariant, SecretStands
    <3>2. CASE meta.mutation = "idle"
      BY <3>1, <3>2 DEF RecordStands
    <3>3. CASE meta.mutation # "idle"
      <4>1. meta.key \in 1..Len(plans) /\ meta.pending = plans[meta.key].workloads
            /\ meta.attached \subseteq meta.pending
        BY <3>1, <3>3 DEF RecordStands
      <4>2. plans[meta.key].workloads # {}
        <5>1. plans[meta.key] \in PlanRecord
          BY <4>1, SecretsFacts
        <5>2. PICK q : q = plans[meta.key]
          OBVIOUS
        <5>3. q.workloads \in (SUBSET Workloads) \ {{}}
          BY <5>1, <5>2 DEF PlanRecord
        <5> QED
          BY <5>2, <5>3
      <4> QED
        BY <3>3, <4>1, <4>2
    <3> QED
      BY <3>2, <3>3
  <2> QED
    BY <2>1, <2>2, <2>3, <2>4 DEF TypeOK, SecretsInvariant
<1> QED
  BY <1>1, SecretsInvariantHolds, PTL

(* Whoever works on a rotation and wherever it dies, the version the record    *)
(* names can be read, and the one it has left behind is switched off           *)
(* (_resume_rotate_secret, finalize_secret_retirement).                        *)
THEOREM TheActiveVersionIsReadable == Spec => []VersionsFollowTheRecord
<1>1. SecretsInvariant => VersionsFollowTheRecord
  <2> SUFFICES ASSUME SecretsInvariant, meta # None
               PROVE  /\ meta.mutation = "idle" => meta.active \in In("enabled")
                      /\ meta.rotation = "retiring" => meta.retiring \notin In("enabled")
    BY DEF VersionsFollowTheRecord
  <2>1. RecordStands(meta) /\ VersionsStand(meta)
    BY DEF SecretsInvariant, SecretStands
  <2>2. meta.mutation = "idle" => meta.active \in In("enabled")
    BY <2>1, InEnabled DEF RecordStands, VersionsStand
  <2>3. meta.rotation = "retiring" => meta.retiring \notin In("enabled")
    BY <2>1, InEnabled DEF RecordStands
  <2> QED
    BY <2>2, <2>3
<1> QED
  BY <1>1, SecretsInvariantHolds, PTL

(* Nobody can read the secret who is not in the record or in the reviewed      *)
(* mutation it is in, although each write replaces the whole policy and may    *)
(* come from a call that was overtaken (ensure_exact_bindings).                *)
THEOREM OnlyReviewedReaders == Spec => []ReadersAreReviewed
<1>1. SecretsInvariant => ReadersAreReviewed
  BY DEF SecretsInvariant, SecretStands, ReadersAreReviewed, NoCloud
<1> QED
  BY <1>1, SecretsInvariantHolds, PTL

(* A plan is reported as done only when the record keeps what it promised, and *)
(* later plans keep it too (_is_final_exact_state, _mark_operation_succeeded). *)
THEOREM SuccessIsKept == Spec => []SucceededIsDone
<1>1. SecretsInvariant => SucceededIsDone
  <2> SUFFICES ASSUME SecretsInvariant, NEW p \in 1..Len(plans),
                      plans[p].op \in {"succeeded", "recorded"}
               PROVE  /\ meta # None
                      /\ plans[p].workloads \subseteq meta.attached
                      /\ plans[p].mode = "rotate" => meta.active > plans[p].active
    BY DEF SucceededIsDone
  <2>1. Done(p)
    BY DEF SecretsInvariant, PlansStand
  <2>2. plans[p].active \in Nat /\ (meta # None => meta.active \in Nat)
    BY SecretsFacts, TimesAreNumbers DEF PlanRecord
  <2> QED
    BY <2>1, <2>2 DEF Done
<1> QED
  BY <1>1, SecretsInvariantHolds, PTL

(* Only finalize_secret_retirement destroys a version.                         *)
LEMMA OnlyRetirementDestroys ==
    ASSUME SecretsInvariant, Next, NEW v \in In("disabled"), cloud'.versions[v].state = "destroyed"
    PROVE  \E c \in Callers : calls[c].at = "destroy" /\ v = calls[c].draft.retiring
<1>1. /\ v \in Versions /\ cloud.versions[v].state = "disabled"
      /\ cloud \in CloudRecord /\ cloud.versions \in Seq(VersionRecord)
      /\ cloud.versions[v] \in VersionRecord
  BY SecretsFacts DEF In, SecretsInvariant, CloudRecord
<1>2. cloud.versions = [u \in Versions |-> cloud.versions[u]]
  BY <1>1, LenProperties DEF Versions
<1>3. cloud'.versions # cloud.versions
  BY <1>1
<1>4. cloud' # cloud
  BY <1>3
<1>5. PICK c \in Callers : Ensure(c) \/ Bind(c) \/ AddVersion(c) \/ DisableOldVersion(c)
                           \/ EnsureRetiring(c) \/ DestroyOldVersion(c)
  <2>1. ~Plan /\ ~Tick
    BY <1>4 DEF Plan, PlanWrite, PlanAttach, PlanTo, Tick
  <2>2. \A w \in Workloads : ~Unbind(w)
    BY <1>1, <1>3 DEF Unbind, CloudRecord
  <2>3. PICK c \in Callers :
          \/ \E p \in 1..Len(plans), payload \in Payloads : BeginApply(c, p, payload)
          \/ BeginRetirement(c) \/ Step(c) \/ Crash(c)
    BY <2>1, <2>2 DEF Next
  <2>4. Step(c)
    BY <1>4, <2>3 DEF BeginApply, BeginRetirement, Crash
  <2> QED
    BY <1>4, <2>4
       DEF Step, Consume, Stage, Resume, SaveEnsured, Probe, ProbeVersions, SaveAdded, SaveDisabled,
           Record, MarkSucceeded, RecordResult, SaveRetired
<1>6. PICK s : s = calls[c]
  OBVIOUS
<1>7. ~Ensure(c) /\ ~Bind(c) /\ ~EnsureRetiring(c)
  BY <1>1, <1>3 DEF Ensure, Bind, EnsureRetiring, Bound, CloudRecord
<1>8. ~AddVersion(c)
  <2> SUFFICES ASSUME AddVersion(c) PROVE FALSE
    OBVIOUS
  <2>1. PICK e : e = [state |-> "enabled", payload |-> s.payload, since |-> 0]
    OBVIOUS
  <2>2. s.at = "add" /\ cloud' = [cloud EXCEPT !.versions = Append(cloud.versions, e)]
    BY <1>6, <2>1 DEF AddVersion
  <2>3. s \in Calls
    BY <1>6, <2>2, InCall
  <2>4. e \in VersionRecord
    <3>1. s.payload \in Payloads \cup {None} /\ 0 \in 0..MaxTime
      BY <2>3, SecretsFacts DEF Calls
    <3> QED
      BY <2>1, <3>1 DEF VersionRecord
  <2>5. cloud'.versions = Append(cloud.versions, e)
    BY <1>1, <2>2 DEF CloudRecord
  <2>6. cloud'.versions[v] = cloud.versions[v]
    BY <1>1, <2>4, <2>5, AppendProperties DEF Versions
  <2> QED
    BY <1>1, <2>6
<1>9. ~DisableOldVersion(c)
  <2> SUFFICES ASSUME DisableOldVersion(c) PROVE FALSE
    OBVIOUS
  <2>1. PICK old : old = s.draft.active
    OBVIOUS
  <2>2. /\ old \in In("enabled")
        /\ cloud' = [cloud EXCEPT !.versions[old].state = "disabled", !.versions[old].since = s.now]
    BY <1>4, <1>6, <2>1 DEF DisableOldVersion, OldVersion
  <2>3. old # v
    BY <1>1, <2>2 DEF In
  <2>4. cloud'.versions[v] = cloud.versions[v]
    BY <1>1, <1>2, <2>2, <2>3 DEF CloudRecord
  <2> QED
    BY <1>1, <2>4
<1>10. DestroyOldVersion(c)
  BY <1>5, <1>7, <1>8, <1>9
<1>11. PICK old : old = s.draft.retiring
  OBVIOUS
<1>12. s.at = "destroy" /\ cloud' = [cloud EXCEPT !.versions[old].state = "destroyed"]
  BY <1>4, <1>6, <1>10, <1>11 DEF DestroyOldVersion
<1>13. v = old
  <2> SUFFICES ASSUME v # old PROVE FALSE
    OBVIOUS
  <2>1. cloud'.versions[v] = cloud.versions[v]
    BY <1>1, <1>2, <1>12 DEF CloudRecord
  <2> QED
    BY <1>1, <2>1
<1> QED
  BY <1>6, <1>11, <1>12, <1>13

(* A version that was switched off can be brought back for the whole window:   *)
(* it is destroyed no sooner than Window after the call that switched it off   *)
(* had read the clock, whichever calls overlap and whichever saves are lost    *)
(* (destroy_old_version, retirement_not_before).                               *)
THEOREM TheWindowIsKept == Spec => WindowIsKept
<1> DEFINE Kept == \A v \in In("disabled") :
                     cloud'.versions[v].state = "destroyed" => clock >= cloud.versions[v].since + Window
<1>1. SecretsInvariant /\ [Next]_vars => Kept
  <2> SUFFICES ASSUME SecretsInvariant, [Next]_vars, NEW v \in In("disabled"),
                      cloud'.versions[v].state = "destroyed"
               PROVE  clock >= cloud.versions[v].since + Window
    OBVIOUS
  <2>1. v \in Versions /\ cloud.versions[v].state = "disabled"
    BY DEF In
  <2>2. Next
    BY <2>1 DEF vars
  <2>3. PICK c \in Callers : calls[c].at = "destroy" /\ v = calls[c].draft.retiring
    BY <2>2, OnlyRetirementDestroys
  <2>4. cloud.versions[v].since + Window <= clock
    BY <2>3, DestroyedInTime
  <2>5. cloud.versions[v].since \in Nat /\ Window \in Nat /\ clock \in Nat
    <3>1. cloud.versions[v].since \in 0..MaxTime
      BY <2>1, SecretsFacts DEF VersionRecord
    <3> QED
      BY <3>1, TimesAreNumbers, SecretsFacts
  <2> QED
    BY <2>4, <2>5
<1>2. SecretsInvariant /\ [Next]_vars => [Kept]_vars
  BY <1>1
<1> QED
  BY <1>2, SecretsInvariantHolds, PTL DEF Spec, WindowIsKept

-------------------------------------------------------------------------------
(* Calls that do not overlap: the value that was submitted.                    *)
NoOverlap == \A c, d \in Callers : c # d => calls[c].at = "idle" \/ calls[d].at = "idle"

(* The enabled versions a mutation would make active.                          *)
Ahead == {v \in Versions : Enabled(v) /\ (meta.active < v \/ meta.mutation = "creating")}

SubmittedKept ==
    meta # None =>
        IF meta.mutation \in {"creating", "rotating"}
        THEN \A v \in Ahead : cloud.versions[v].payload = meta.payload
        ELSE Ahead = {}

(* A call that is alone has the record as it is.                               *)
CallIsCurrent(x) ==
    x.at # "idle" =>
        /\ x.draft = meta
        /\ x.at \in MutatingSteps /\ meta.mutation # "attaching" =>
              /\ x.payload = meta.payload
              /\ x.at = "add" => Ahead = {}
              /\ x.at \in NewerSteps => Ahead = {x.new}

SubmittedInvariant == SubmittedKept /\ \A c \in Callers : CallIsCurrent(calls[c])

(* What a step that ends a mutation has made active.                           *)
Submits ==
    Mutating({"creating", "rotating"}) /\ meta'.mutation = "idle" =>
        cloud.versions[meta'.active].payload = meta.payload

LEMMA AloneMoves ==
    ASSUME SecretsInvariant, NoOverlap, SubmittedKept', NEW c \in Callers, calls[c].at # "idle",
           NEW x, calls' = [calls EXCEPT ![c] = x], CallIsCurrent(x)'
    PROVE  SubmittedInvariant'
<1>1. calls' = [e \in Callers |-> IF e = c THEN x ELSE calls[e]]
  BY DEF SecretsInvariant
<1>2. ASSUME NEW e \in Callers PROVE CallIsCurrent(calls[e])'
  <2>1. CASE e = c
    <3>1. calls'[e] = x
      BY <1>1, <2>1
    <3> QED BY <3>1 DEF CallIsCurrent
  <2>2. CASE e # c
    <3>1. calls'[e] = calls[e] /\ calls[e].at = "idle"
      BY <1>1, <2>2 DEF NoOverlap
    <3> QED BY <3>1 DEF CallIsCurrent
  <2> QED BY <2>1, <2>2
<1> QED BY <1>2 DEF SubmittedInvariant

LEMMA IdleIsCurrent == CallIsCurrent(IdleCall) /\ CallIsCurrent(IdleCall)'
BY CallsAreNotIdle DEF CallIsCurrent

LEMMA AloneIsOver ==
    ASSUME SecretsInvariant, NoOverlap, SubmittedKept', NEW c \in Callers, calls[c].at # "idle",
           Denied(c)
    PROVE  SubmittedInvariant'
<1>1. PICK x : x = IdleCall
  OBVIOUS
<1>2. CallIsCurrent(x)'
  BY <1>1, IdleIsCurrent
<1>3. calls' = [calls EXCEPT ![c] = x]
  BY <1>1 DEF Denied
<1> QED BY <1>2, <1>3, AloneMoves

(* Neither the record nor the versions move.                                   *)
LEMMA NothingSubmitted ==
    ASSUME UNCHANGED meta, cloud'.versions = cloud.versions
    PROVE  /\ SubmittedKept <=> SubmittedKept'
           /\ \A x : CallIsCurrent(x) <=> CallIsCurrent(x)'
           /\ meta # None /\ meta.mutation # "idle" => meta'.mutation # "idle"
<1>1. Versions' = Versions /\ \A v : Enabled(v)' <=> Enabled(v)
  BY DEF Versions, Enabled
<1>2. Ahead' = Ahead
  BY <1>1 DEF Ahead
<1> QED BY <1>2 DEF SubmittedKept, CallIsCurrent

LEMMA QuietSubmits ==
    ASSUME UNCHANGED meta PROVE Submits
BY DEF Submits, Mutating

LEMMA AloneRests ==
    ASSUME SubmittedInvariant, UNCHANGED << meta, calls >>, cloud'.versions = cloud.versions
    PROVE  SubmittedInvariant'
<1>1. SubmittedKept'
  BY NothingSubmitted DEF SubmittedInvariant
<1>2. ASSUME NEW e \in Callers PROVE CallIsCurrent(calls[e])'
  <2>1. PICK y : y = calls[e] /\ CallIsCurrent(y)
    BY DEF SubmittedInvariant
  <2>2. CallIsCurrent(y)' /\ calls'[e] = y
    BY <2>1, NothingSubmitted
  <2> QED BY <2>2 DEF CallIsCurrent
<1> QED BY <1>1, <1>2 DEF SubmittedInvariant

(* A call that begins reads the record as it is.                               *)
LEMMA BeginningSubmits ==
    ASSUME SecretsInvariant, SubmittedInvariant, NEW c \in Callers, calls[c].at = "idle",
           NEW x, x.at \notin MutatingSteps, x.draft = meta,
           calls' = [calls EXCEPT ![c] = x], UNCHANGED meta, cloud'.versions = cloud.versions
    PROVE  SubmittedInvariant'
<1>1. calls' = [e \in Callers |-> IF e = c THEN x ELSE calls[e]]
  BY DEF SecretsInvariant
<1>2. SubmittedKept'
  BY NothingSubmitted DEF SubmittedInvariant
<1>3. CallIsCurrent(x)
  BY DEF CallIsCurrent
<1>4. ASSUME NEW e \in Callers PROVE CallIsCurrent(calls[e])'
  <2>1. PICK y : y = (IF e = c THEN x ELSE calls[e]) /\ CallIsCurrent(y)
    BY <1>3 DEF SubmittedInvariant
  <2>2. CallIsCurrent(y)' /\ calls'[e] = y
    BY <1>1, <2>1, NothingSubmitted
  <2> QED BY <2>2 DEF CallIsCurrent
<1> QED BY <1>2, <1>4 DEF SubmittedInvariant

(* A call goes on without touching the record or the versions.                 *)
LEMMA GoingOnSubmits ==
    ASSUME SecretsInvariant, SubmittedInvariant, NoOverlap,
           NEW c \in Callers, calls[c].at # "idle",
           UNCHANGED meta, cloud'.versions = cloud.versions,
           \/ Denied(c)
           \/ \E step, new : /\ calls' = [calls EXCEPT ![c].at = step, ![c].new = new]
                             /\ CallIsCurrent([calls[c] EXCEPT !.at = step, !.new = new])
           \/ \E step : /\ Goto(c, step)
                        /\ CallIsCurrent([calls[c] EXCEPT !.at = step])
    PROVE  SubmittedInvariant' /\ Submits
<1>1. SubmittedKept' /\ Submits
  BY NothingSubmitted, QuietSubmits DEF SubmittedInvariant
<1>2. CASE Denied(c)
  BY <1>1, <1>2, AloneIsOver
<1>3. calls = [e \in Callers |-> calls[e]]
  BY DEF SecretsInvariant
<1>4. ASSUME NEW step, NEW new, calls' = [calls EXCEPT ![c].at = step, ![c].new = new],
             CallIsCurrent([calls[c] EXCEPT !.at = step, !.new = new])
      PROVE  SubmittedInvariant'
  <2>1. PICK x : x = [calls[c] EXCEPT !.at = step, !.new = new]
    OBVIOUS
  <2>2. calls' = [calls EXCEPT ![c] = x]
    BY <1>3, <1>4, <2>1
  <2>3. CallIsCurrent(x)'
    BY <1>4, <2>1, NothingSubmitted
  <2> QED BY <1>1, <2>2, <2>3, AloneMoves
<1>5. ASSUME NEW step, Goto(c, step), CallIsCurrent([calls[c] EXCEPT !.at = step])
      PROVE  SubmittedInvariant'
  <2>1. PICK x : x = [calls[c] EXCEPT !.at = step]
    OBVIOUS
  <2>2. calls' = [calls EXCEPT ![c] = x]
    BY <1>3, <1>5, <2>1 DEF Goto
  <2>3. CallIsCurrent(x)'
    BY <1>5, <2>1, NothingSubmitted
  <2> QED BY <1>1, <2>2, <2>3, AloneMoves
<1> QED BY <1>1, <1>2, <1>4, <1>5

LEMMA DenialSubmits ==
    ASSUME SecretsInvariant, SubmittedInvariant, NoOverlap, NEW c \in Callers, calls[c].at # "idle",
           UNCHANGED meta, cloud'.versions = cloud.versions, Denied(c)
    PROVE  SubmittedInvariant' /\ Submits
<1>1. SubmittedKept' /\ Submits
  BY NothingSubmitted, QuietSubmits DEF SubmittedInvariant
<1> QED BY <1>1, AloneIsOver

(* What is known of a call that is alone and at a step.                        *)
LEMMA AloneFacts ==
    ASSUME SecretsInvariant, SubmittedInvariant, NEW c \in Callers, calls[c].at # "idle"
    PROVE  /\ calls[c] \in Calls /\ CallStands(calls[c]) /\ CallIsCurrent(calls[c])
           /\ calls[c].draft = meta
<1>1. PICK s : s = calls[c] /\ CallStands(s) /\ CallIsCurrent(s) /\ s.at # "idle"
  BY DEF SecretsInvariant, SubmittedInvariant
<1>2. s \in Calls /\ s.draft = meta
  BY <1>1 DEF CallStands, CallIsCurrent
<1> QED BY <1>1, <1>2

LEMMA MovedCall ==
    ASSUME NEW s \in Calls, NEW step, NEW x, x = [s EXCEPT !.at = step]
    PROVE  x.at = step /\ x.draft = s.draft /\ x.payload = s.payload /\ x.new = s.new
BY DEF Calls

(* From one step to another of the same mutation.                              *)
LEMMA StepsStayCurrent ==
    ASSUME NEW s \in Calls, CallIsCurrent(s), s.at # "idle", NEW step,
           \/ step \notin MutatingSteps
           \/ meta.mutation = "attaching"
           \/ s.at \in MutatingSteps /\ step \notin NewerSteps \cup {"add"}
           \/ s.at \in NewerSteps /\ step \in NewerSteps
    PROVE  CallIsCurrent([s EXCEPT !.at = step])
<1>1. PICK x : x = [s EXCEPT !.at = step]
  OBVIOUS
<1>4. x.at = step /\ x.draft = s.draft /\ x.payload = s.payload /\ x.new = s.new
  BY <1>1, MovedCall
<1>2. NewerSteps \subseteq MutatingSteps /\ "add" \notin NewerSteps
  BY DEF NewerSteps, MutatingSteps
<1>3. CallIsCurrent(x)
  BY <1>4, <1>2 DEF CallIsCurrent
<1> QED BY <1>1, <1>3

LEMMA ConsumingSubmits ==
    ASSUME SecretsInvariant, SubmittedInvariant, NoOverlap, NEW c \in Callers,
           Consume(c) \/ MarkSucceeded(c) \/ RecordResult(c) \/ EnsureRetiring(c)
    PROVE  SubmittedInvariant' /\ Submits
<1>1. calls[c].at # "idle"
  BY DEF Consume, MarkSucceeded, RecordResult, EnsureRetiring
<1>2. \A step : step \notin MutatingSteps => CallIsCurrent([calls[c] EXCEPT !.at = step])
  BY <1>1, AloneFacts, StepsStayCurrent
<1>3. {"stage", "resume", "result", "destroy"} \cap MutatingSteps = {}
  BY DEF MutatingSteps
<1>4. UNCHANGED meta /\ cloud'.versions = cloud.versions
  BY DEF Consume, MarkSucceeded, RecordResult, EnsureRetiring, Bound, SecretsInvariant, CloudRecord
<1>5. Denied(c) \/ \E step \in {"stage", "resume", "result", "destroy"} : Goto(c, step)
  BY DEF Consume, MarkSucceeded, RecordResult, EnsureRetiring
<1> QED BY <1>1, <1>2, <1>3, <1>4, <1>5, GoingOnSubmits

(* A later call carries on with the value the record was staged with.          *)
LEMMA ResumingSubmits ==
    ASSUME SecretsInvariant, SubmittedInvariant, NoOverlap, NEW c \in Callers, Resume(c)
    PROVE  SubmittedInvariant' /\ Submits
<1>1. PICK s : s = calls[c]
  OBVIOUS
<1>2. s.at = "resume" /\ UNCHANGED << meta, cloud >>
  BY <1>1 DEF Resume
<1>3. s \in Calls /\ CallStands(s) /\ CallIsCurrent(s) /\ s.draft = meta
  BY <1>1, <1>2, AloneFacts
<1>4. PICK plan : plan = plans[s.plan] /\ plan.mode \in {"create", "attach", "rotate"}
  <2>1. s.plan \in 1..Len(plans)
    BY <1>2, <1>3 DEF CallStands, ApplyingSteps
  <2> QED BY <2>1, SecretsFacts DEF PlanRecord
<1>5. \/ Denied(c) \/ Goto(c, "mark")
      \/ Resumable(s, plan) /\ Goto(c, IF plan.mode = "create" THEN "ensure" ELSE "probe")
  BY <1>1, <1>4 DEF Resume
<1>6. CASE Denied(c)
  BY <1>1, <1>2, <1>6, GoingOnSubmits
<1>7. CASE Goto(c, "mark")
  <2>1. CallIsCurrent([s EXCEPT !.at = "mark"])
    BY <1>2, <1>3, StepsStayCurrent DEF MutatingSteps
  <2> QED BY <1>1, <1>2, <1>7, <2>1, GoingOnSubmits
<1>8. ASSUME NEW step \in {"ensure", "probe"}, Goto(c, step), Resumable(s, plan)
      PROVE  SubmittedInvariant' /\ Submits
  <2>1. PICK x : x = [s EXCEPT !.at = step]
    OBVIOUS
  <2>5. x.at = step /\ x.draft = s.draft /\ x.payload = s.payload
    BY <1>3, <2>1, MovedCall
  <2>2. meta.mutation = InFlight(plan.mode)
    BY <1>3, <1>8 DEF Resumable
  <2>3. meta.mutation # "attaching" => x.payload = meta.payload
    BY <1>3, <1>4, <1>8, <2>5, <2>2, FlightsDiffer DEF Resumable
  <2>4. CallIsCurrent(x)
    BY <1>3, <1>8, <2>5, <2>3 DEF CallIsCurrent, NewerSteps
  <2> QED BY <1>1, <1>2, <1>8, <2>1, <2>4, GoingOnSubmits
<1> QED BY <1>5, <1>6, <1>7, <1>8

(* A call finds the versions it has to make or has made.                       *)
LEMMA AheadIsNewer ==
    ASSUME SecretsInvariant, meta # None, NEW s, s.draft = meta
    PROVE  /\ meta.mutation = "rotating" => Newer(s) = Ahead
           /\ meta.mutation = "creating" => In("enabled") = Ahead
           /\ IsFiniteSet(Ahead)
           /\ \A v \in Versions : v \in Nat /\ meta.active \in Nat
<1>1. meta.active \in Nat /\ Len(cloud.versions) \in Nat
  BY SecretsFacts DEF SecretRecords
<1>2. \A v \in Versions : v \in Nat
  BY <1>1 DEF Versions
<1>3. \A v \in Versions : meta.active < v <=> v > meta.active
  BY <1>1, <1>2
<1>4. IsFiniteSet(Versions) /\ Ahead \in SUBSET Versions
  BY <1>1, FS_Interval DEF Versions, Ahead
<1>5. IsFiniteSet(Ahead)
  BY <1>4, FS_Subset
<1> QED BY <1>1, <1>2, <1>3, <1>5 DEF Newer, In, Ahead, Enabled

LEMMA OneIsAll ==
    ASSUME NEW T, IsFiniteSet(T), NEW x \in T, ~(Cardinality(T) > 1)
    PROVE  T = {x}
<1>1. {x} \in SUBSET T /\ Cardinality({x}) = 1 /\ Cardinality(T) \in Nat
  BY FS_Singleton, FS_CardinalityType
<1>2. Cardinality({x}) <= Cardinality(T) /\ (Cardinality(T) = Cardinality({x}) => T = {x})
  BY <1>1, FS_Subset
<1> QED BY <1>1, <1>2

LEMMA TakingSubmits ==
    ASSUME SecretsInvariant, SubmittedInvariant, NoOverlap, NEW c \in Callers,
           calls[c].at \in {"probe", "versions"}, UNCHANGED << meta, cloud >>, meta # None,
           \/ meta.mutation = "creating" /\ Take(c, CreateStep)
           \/ meta.mutation = "rotating" /\ Take(c, RotateStep(calls[c]))
    PROVE  SubmittedInvariant' /\ Submits
<1>1. PICK s : s = calls[c]
  OBVIOUS
<1>2. s.at # "idle" /\ s.at \in MutatingSteps
  BY <1>1 DEF MutatingSteps
<1>3. s \in Calls /\ CallIsCurrent(s) /\ s.draft = meta
  BY <1>1, <1>2, AloneFacts
<1>4. s.payload = meta.payload
  BY <1>2, <1>3 DEF CallIsCurrent
<1>5. ASSUME NEW step, NEW new, calls' = [calls EXCEPT ![c].at = step, ![c].new = new],
             step = "add" => Ahead = {}, step \in NewerSteps => Ahead = {new}, step # "idle"
      PROVE  SubmittedInvariant' /\ Submits
  <2>1. PICK x : x = [s EXCEPT !.at = step, !.new = new]
    OBVIOUS
  <2>3. x.at = step /\ x.draft = s.draft /\ x.payload = s.payload /\ x.new = new
    <3>1. s \in Calls
      BY <1>3
    <3> QED BY <3>1, <2>1 DEF Calls
  <2>4. x.draft = meta /\ x.payload = meta.payload
    BY <1>3, <1>4, <2>3
  <2>5. (x.at = "add" => Ahead = {}) /\ (x.at \in NewerSteps => Ahead = {x.new})
    BY <1>5, <2>3
  <2>2. CallIsCurrent(x)
    BY <2>4, <2>5 DEF CallIsCurrent
  <2> QED BY <1>1, <1>2, <1>5, <2>1, <2>2, GoingOnSubmits
<1>6. ASSUME Denied(c) PROVE SubmittedInvariant' /\ Submits
  BY <1>1, <1>2, <1>6, GoingOnSubmits
<1>7. CASE meta.mutation = "creating" /\ Take(c, CreateStep)
  <2>1. In("enabled") = Ahead
    BY <1>3, <1>7, AheadIsNewer
  <2>2. \/ CreateStep = "denied"
        \/ CreateStep = "add" /\ Ahead = {}
        \/ CreateStep = "record" /\ Ahead = {1}
    <3>1. CASE Ahead = {}
      BY <2>1, <3>1 DEF CreateStep
    <3>2. CASE Ahead = {1} /\ Len(cloud.versions) = 1
      BY <2>1, <3>2 DEF CreateStep
    <3>3. CASE Ahead # {} /\ ~(Ahead = {1} /\ Len(cloud.versions) = 1)
      BY <2>1, <3>3 DEF CreateStep
    <3> QED BY <3>1, <3>2, <3>3
  <2>3. Denied(c) \/ calls' = [calls EXCEPT ![c].at = CreateStep, ![c].new = 1]
    BY <1>1, <1>3, <1>7 DEF Take
  <2>4. CreateStep = "denied" => Denied(c)
    BY <1>7 DEF Take
  <2>5. "add" \notin NewerSteps
    BY DEF NewerSteps
  <2> QED BY <1>5, <1>6, <2>2, <2>3, <2>4, <2>5
<1>8. CASE meta.mutation = "rotating" /\ Take(c, RotateStep(calls[c]))
  <2>1. Newer(s) = Ahead /\ IsFiniteSet(Ahead)
    BY <1>3, <1>8, AheadIsNewer
  <2>2. PICK step : step = RotateStep(s)
    OBVIOUS
  <2>3. \/ step = "denied"
        \/ step = "add" /\ Ahead = {}
        \/ step \in {"disable", "record"} /\ Ahead # {} /\ ~(Cardinality(Ahead) > 1)
    <3>1. CASE Cardinality(Ahead) > 1
      BY <2>1, <2>2, <3>1 DEF RotateStep
    <3>2. CASE ~(Cardinality(Ahead) > 1) /\ Ahead = {}
      BY <2>1, <2>2, <3>2 DEF RotateStep
    <3>3. CASE ~(Cardinality(Ahead) > 1) /\ Ahead # {}
      BY <2>1, <2>2, <3>3 DEF RotateStep
    <3> QED BY <3>1, <3>2, <3>3
  <2>4. IF step = "denied" THEN Denied(c)
        ELSE calls' = [calls EXCEPT ![c].at = step,
                 ![c].new = IF Ahead = {} THEN 0 ELSE CHOOSE v \in Ahead : TRUE]
    BY <1>1, <1>3, <1>8, <2>1, <2>2 DEF Take
  <2>5. PICK new : new = IF Ahead = {} THEN 0 ELSE CHOOSE v \in Ahead : TRUE
    OBVIOUS
  <2>6. step \in {"disable", "record"} => Ahead = {new}
    BY <2>1, <2>3, <2>5, OneIsAll
  <2>7. "add" \notin NewerSteps
    BY DEF NewerSteps
  <2>8. step \in NewerSteps => Ahead = {new}
    BY <2>3, <2>6, <2>7 DEF NewerSteps
  <2> QED BY <1>5, <1>6, <2>3, <2>4, <2>5, <2>8
<1> QED BY <1>7, <1>8

(* A call in the middle of a mutation that is alone has the record's mutation. *)
LEMMA MutatingFacts ==
    ASSUME SecretsInvariant, SubmittedInvariant, NEW c \in Callers, NEW s, s = calls[c],
           s.at \in MutatingSteps
    PROVE  /\ s \in Calls /\ s.at # "idle" /\ CallIsCurrent(s) /\ CallStands(s)
           /\ s.draft = meta /\ meta # None /\ meta \in SecretRecords
           /\ meta.mutation \in {"creating", "attaching", "rotating"}
           /\ meta.mutation # "attaching" => s.payload = meta.payload
<1>1. s.at # "idle"
  BY DEF MutatingSteps
<1>2. s \in Calls /\ CallIsCurrent(s) /\ CallStands(s) /\ s.draft = meta
  BY <1>1, AloneFacts
<1>3. meta # None /\ meta.mutation # "idle"
  BY <1>1, <1>2 DEF CallStands
<1>4. meta \in SecretRecords
  BY <1>3, SecretsFacts
<1>5. meta.mutation \in {"creating", "attaching", "rotating"}
  BY <1>3, <1>4 DEF SecretRecords
<1> QED BY <1>1, <1>2, <1>3, <1>4, <1>5 DEF CallIsCurrent

LEMMA BindingSubmits ==
    ASSUME SecretsInvariant, SubmittedInvariant, NoOverlap, NEW c \in Callers,
           Ensure(c) \/ Bind(c)
    PROVE  SubmittedInvariant' /\ Submits
<1>1. PICK s : s = calls[c]
  OBVIOUS
<1>2. s.at \in {"ensure", "bind"} /\ s.at \in MutatingSteps
  BY <1>1 DEF Ensure, Bind, MutatingSteps
<1>3. /\ s \in Calls /\ s.at # "idle" /\ CallIsCurrent(s) /\ CallStands(s) /\ s.draft = meta
      /\ meta.mutation \in {"creating", "attaching", "rotating"}
  BY <1>1, <1>2, MutatingFacts
<1>4. UNCHANGED meta /\ cloud'.versions = cloud.versions
  BY DEF Ensure, Bind, Bound, SecretsInvariant, CloudRecord
<1>5. \/ Denied(c)
      \/ \E step \in {"ensured", "probe"} : Goto(c, step)
      \/ Goto(c, "record") /\ meta.mutation = "attaching"
  <2>1. CASE Ensure(c)
    <3>1. s.at = "ensure" /\ meta.mutation # "attaching"
      BY <1>1, <1>2, <1>3, <2>1 DEF Ensure, CallStands, MakingSteps
    <3>2. CASE meta.mutation = "creating"
      BY <1>1, <1>3, <2>1, <3>2 DEF Ensure
    <3>3. CASE meta.mutation = "rotating"
      BY <1>1, <1>3, <2>1, <3>3 DEF Ensure
    <3> QED BY <1>3, <3>1, <3>2, <3>3
  <2>2. CASE Bind(c)
    BY <1>1, <1>3, <2>2 DEF Bind, CallStands
  <2> QED BY <2>1, <2>2
<1>6. \A step : step \in {"ensured", "probe"} \/ meta.mutation = "attaching" =>
         CallIsCurrent([s EXCEPT !.at = step])
  <2>1. {"ensured", "probe"} \cap (NewerSteps \cup {"add"}) = {}
    BY DEF NewerSteps
  <2> QED BY <1>2, <1>3, <2>1, StepsStayCurrent
<1> QED BY <1>1, <1>3, <1>4, <1>5, <1>6, GoingOnSubmits

LEMMA ProbingSubmits ==
    ASSUME SecretsInvariant, SubmittedInvariant, NoOverlap, NEW c \in Callers,
           Probe(c) \/ ProbeVersions(c)
    PROVE  SubmittedInvariant' /\ Submits
<1>1. PICK s : s = calls[c]
  OBVIOUS
<1>2. s.at \in {"probe", "versions"} /\ s.at \in MutatingSteps
  BY <1>1 DEF Probe, ProbeVersions, MutatingSteps
<1>3. /\ s \in Calls /\ s.at # "idle" /\ CallIsCurrent(s) /\ CallStands(s) /\ s.draft = meta
      /\ meta # None /\ meta.mutation \in {"creating", "attaching", "rotating"}
  BY <1>1, <1>2, MutatingFacts
<1>4. UNCHANGED << meta, cloud >>
  BY DEF Probe, ProbeVersions
<1>5. \/ Denied(c)
      \/ meta.mutation = "creating" /\ Take(c, CreateStep)
      \/ meta.mutation = "attaching" /\ Goto(c, IF Exact(s) THEN "record" ELSE "bind")
      \/ meta.mutation = "rotating" /\ Take(c, RotateStep(s))
      \/ meta.mutation = "rotating" /\ Goto(c, "ensure")
  <2>1. CASE Probe(c)
    BY <1>1, <1>3, <2>1 DEF Probe
  <2>2. CASE ProbeVersions(c)
    BY <1>1, <1>3, <2>2 DEF ProbeVersions, CallStands, RotatingSteps
  <2> QED BY <2>1, <2>2
<1>6. CASE Denied(c)
  BY <1>1, <1>3, <1>4, <1>6, GoingOnSubmits
<1>7. CASE \/ meta.mutation = "creating" /\ Take(c, CreateStep)
           \/ meta.mutation = "rotating" /\ Take(c, RotateStep(s))
  BY <1>1, <1>2, <1>3, <1>4, <1>7, TakingSubmits
<1>8. ASSUME NEW step, Goto(c, step), meta.mutation = "attaching" \/ step = "ensure"
      PROVE  SubmittedInvariant' /\ Submits
  <2>1. "ensure" \notin NewerSteps \cup {"add"}
    BY DEF NewerSteps
  <2>2. CallIsCurrent([s EXCEPT !.at = step])
    BY <1>2, <1>3, <1>8, <2>1, StepsStayCurrent
  <2> QED BY <1>1, <1>3, <1>4, <1>8, <2>2, GoingOnSubmits
<1> QED BY <1>5, <1>6, <1>7, <1>8

(* A call adds the version it was submitted with when it has found none.       *)
LEMMA AddingSubmits ==
    ASSUME SecretsInvariant, SubmittedInvariant, NoOverlap, NEW c \in Callers, AddVersion(c)
    PROVE  SubmittedInvariant' /\ Submits
<1>1. PICK s : s = calls[c]
  OBVIOUS
<1>2. s.at = "add" /\ s.at \in MutatingSteps /\ UNCHANGED meta
  BY <1>1 DEF AddVersion, MutatingSteps
<1>3. /\ s \in Calls /\ s.at # "idle" /\ CallIsCurrent(s) /\ CallStands(s) /\ s.draft = meta
      /\ meta # None /\ meta \in SecretRecords /\ meta.mutation \in {"creating", "attaching", "rotating"}
  BY <1>1, <1>2, MutatingFacts
<1>4. meta.mutation \in {"creating", "rotating"} /\ s.payload = meta.payload /\ Ahead = {}
  BY <1>2, <1>3 DEF CallStands, MakingSteps, CallIsCurrent
<1>5. PICK n : n = Len(cloud.versions) + 1
  OBVIOUS
<1>6. PICK v : v = [state |-> "enabled", payload |-> s.payload, since |-> 0]
  OBVIOUS
<1>7. Len(cloud.versions) \in Nat /\ n \in Nat /\ meta.active \in Nat
  BY <1>3, <1>5, SecretsFacts DEF SecretRecords
<1>8. cloud.versions \in Seq(VersionRecord) /\ cloud'.versions = Append(cloud.versions, v)
  BY <1>1, <1>6 DEF AddVersion, SecretsInvariant, CloudRecord
<1>9. Versions' = Versions \cup {n} /\ n \notin Versions
      /\ cloud'.versions[n] = v /\ \A x \in Versions : cloud'.versions[x] = cloud.versions[x]
  <2>1. v \in VersionRecord \/ v \notin VersionRecord
    OBVIOUS
  <2>2. Len(cloud'.versions) = n
    BY <1>5, <1>8
  <2>3. 1..n = (1..Len(cloud.versions)) \cup {n}
    BY <1>5, <1>7
  <2>4. cloud'.versions[n] = v /\ \A x \in 1..Len(cloud.versions) : cloud'.versions[x] = cloud.versions[x]
    BY <1>5, <1>7, <1>8
  <2> QED BY <1>5, <1>7, <2>2, <2>3, <2>4 DEF Versions
<1>10. Ahead' \subseteq {n} /\ Enabled(n)'
  <2>1. Enabled(n)' /\ \A x \in Versions : Enabled(x)' <=> Enabled(x)
    BY <1>6, <1>9 DEF Enabled
  <2>2. \A x \in Versions : x \notin Ahead'
    BY <1>2, <1>4, <2>1 DEF Ahead
  <2> QED BY <1>9, <2>1, <2>2 DEF Ahead
<1>11. n \in Ahead'
  <2>1. CASE meta.mutation = "creating"
    BY <1>2, <1>9, <1>10, <2>1 DEF Ahead
  <2>2. CASE meta.mutation = "rotating"
    <3>1. meta.active \in Versions
      BY <1>3, <2>2 DEF SecretsInvariant, SecretStands, RecordStands
    <3>2. meta.active < n
      BY <1>5, <1>7, <3>1 DEF Versions
    <3> QED BY <1>2, <1>9, <1>10, <3>2 DEF Ahead
  <2> QED BY <1>4, <2>1, <2>2
<1>12. SubmittedKept'
  BY <1>2, <1>4, <1>6, <1>9, <1>10 DEF SubmittedKept
<1>13. CASE Denied(c)
  BY <1>1, <1>2, <1>3, <1>12, <1>13, AloneIsOver, QuietSubmits
<1>14. CASE calls' = [calls EXCEPT ![c].new = n, ![c].at = "added"]
  <2>1. PICK x : x = [s EXCEPT !.at = "added", !.new = n]
    OBVIOUS
  <2>2. x.at = "added" /\ x.draft = s.draft /\ x.payload = s.payload /\ x.new = n
    <3>1. s \in Calls
      BY <1>3
    <3> QED BY <3>1, <2>1 DEF Calls
  <2>3. calls' = [calls EXCEPT ![c] = x]
    <3>1. s \in Calls
      BY <1>3
    <3>2. [calls EXCEPT ![c].new = n, ![c].at = "added"]
             = [calls EXCEPT ![c] = [s EXCEPT !.at = "added", !.new = n]]
      BY <1>1, <3>1, TwoFields, ZenonT(60)
    <3> QED BY <1>14, <2>1, <3>2
  <2>4. CallIsCurrent(x)'
    BY <1>2, <1>3, <1>4, <1>10, <1>11, <2>2 DEF CallIsCurrent
  <2> QED BY <1>1, <1>2, <1>3, <1>12, <2>3, <2>4, AloneMoves, QuietSubmits
<1> QED BY <1>1, <1>5, <1>13, <1>14 DEF AddVersion

(* What is switched off or destroyed is not ahead.                             *)
LEMMA SwitchingSubmits ==
    ASSUME SecretsInvariant, SubmittedInvariant, NoOverlap, NEW c \in Callers,
           DisableOldVersion(c) \/ DestroyOldVersion(c)
    PROVE  SubmittedInvariant' /\ Submits
<1>1. PICK s : s = calls[c]
  OBVIOUS
<1>2. s.at \in {"disable", "destroy"} /\ s.at # "idle" /\ UNCHANGED meta
  BY <1>1 DEF DisableOldVersion, DestroyOldVersion
<1>3. s \in Calls /\ CallIsCurrent(s) /\ CallStands(s) /\ s.draft = meta
  BY <1>1, <1>2, AloneFacts
<1>4. meta # None /\ meta \in SecretRecords
  BY <1>2, <1>3, SecretsFacts DEF CallStands, MutatingSteps, RetirementSteps
<1>5. CASE Denied(c) /\ UNCHANGED cloud
  BY <1>1, <1>2, <1>5, GoingOnSubmits
<1>6. ASSUME NEW step, Goto(c, step),
             \/ s.at = "disable" /\ step = "disabled"
             \/ s.at = "destroy" /\ step = "destroyed"
      PROVE  CallIsCurrent([s EXCEPT !.at = step])
  <2>1. {"disable", "disabled"} \subseteq NewerSteps /\ "destroyed" \notin MutatingSteps
    BY DEF NewerSteps, MutatingSteps
  <2> QED BY <1>2, <1>3, <1>6, <2>1, StepsStayCurrent
<1>7. PICK step : \/ s.at = "disable" /\ step = "disabled"
                  \/ s.at = "destroy" /\ step = "destroyed"
  BY <1>2
<1>8. CASE Goto(c, step) /\ UNCHANGED cloud
  BY <1>1, <1>2, <1>6, <1>7, <1>8, GoingOnSubmits
<1>9. ASSUME NEW old \in Versions, NEW to \in {"disabled", "destroyed"}, NEW v, Goto(c, step),
             cloud'.versions = [cloud.versions EXCEPT ![old] = v], v.state = to,
             \/ ~Enabled(old)
             \/ meta.mutation = "rotating" /\ old = meta.active
      PROVE  SubmittedInvariant' /\ Submits
  <2>1. cloud.versions \in Seq(VersionRecord) /\ meta.active \in Nat
    BY <1>4 DEF SecretsInvariant, CloudRecord, SecretRecords
  <2>2. Len(cloud'.versions) = Len(cloud.versions)
        /\ cloud'.versions[old] = v
        /\ \A x \in Versions \ {old} : cloud'.versions[x] = cloud.versions[x]
    BY <1>9, <2>1 DEF Versions
  <2>3. Versions' = Versions /\ ~Enabled(old)' /\ \A x \in Versions \ {old} : Enabled(x)' <=> Enabled(x)
    BY <1>9, <2>2 DEF Versions, Enabled
  <2>4. old \notin Ahead
    BY <1>9, <2>1 DEF Ahead
  <2>5. Ahead' = Ahead
    BY <1>2, <2>3, <2>4 DEF Ahead
  <2>6. \A x \in Ahead : cloud'.versions[x] = cloud.versions[x]
    BY <2>2, <2>4 DEF Ahead
  <2>7. SubmittedKept'
    BY <1>2, <2>5, <2>6 DEF SubmittedInvariant, SubmittedKept
  <2>8. PICK x : x = [s EXCEPT !.at = step] /\ CallIsCurrent(x)
    BY <1>6, <1>7, <1>9
  <2>9. CallIsCurrent(x)'
    BY <1>2, <2>5, <2>8 DEF CallIsCurrent
  <2>10. calls' = [calls EXCEPT ![c] = x]
    BY <1>1, <1>9, <2>8 DEF Goto, SecretsInvariant
  <2> QED BY <1>1, <1>2, <2>7, <2>9, <2>10, AloneMoves, QuietSubmits
<1>10. CASE DisableOldVersion(c)
  <2>1. s.at = "disable" /\ step = "disabled" /\ meta.mutation = "rotating"
    BY <1>1, <1>3, <1>7, <1>10 DEF DisableOldVersion, CallStands, RotatingSteps
  <2>2. PICK old : old = s.draft.active
    OBVIOUS
  <2>3. old = meta.active /\ old \in Versions
    BY <1>3, <1>4, <2>1, <2>2 DEF SecretsInvariant, SecretStands, RecordStands
  <2>4. CASE /\ cloud' = [cloud EXCEPT !.versions[old].state = "disabled",
                                       !.versions[old].since = s.now]
             /\ Goto(c, "disabled")
    <3>1. cloud \in CloudRecord /\ cloud.versions[old] \in VersionRecord
      BY <2>3, SecretsFacts DEF SecretsInvariant
    <3>2. PICK v : v = [cloud.versions[old] EXCEPT !.state = "disabled", !.since = s.now]
      OBVIOUS
    <3>3. v.state = "disabled"
      BY <3>1, <3>2 DEF VersionRecord
    <3>4. cloud'.versions = [cloud.versions EXCEPT ![old] = v]
      BY <2>3, <2>4, <3>1, <3>2 DEF CloudRecord, VersionRecord, Versions
    <3> QED BY <1>9, <2>1, <2>3, <2>4, <3>3, <3>4
  <2>5. CASE Goto(c, "disabled") /\ UNCHANGED cloud
    BY <1>8, <2>1, <2>5
  <2> QED BY <1>1, <1>5, <1>10, <2>2, <2>4, <2>5 DEF DisableOldVersion, OldVersion
<1>11. CASE DestroyOldVersion(c)
  <2>1. s.at = "destroy" /\ step = "destroyed"
    BY <1>1, <1>7, <1>11 DEF DestroyOldVersion
  <2>2. PICK old : old = s.draft.retiring
    OBVIOUS
  <2>3. CASE /\ old \in In("disabled") /\ Goto(c, "destroyed")
             /\ cloud' = [cloud EXCEPT !.versions[old].state = "destroyed"]
    <3>1. old \in Versions /\ ~Enabled(old)
      BY <2>3, InEnabled
    <3>2. cloud \in CloudRecord /\ cloud.versions[old] \in VersionRecord
      BY <3>1, SecretsFacts DEF SecretsInvariant
    <3>3. PICK v : v = [cloud.versions[old] EXCEPT !.state = "destroyed"]
      OBVIOUS
    <3>4. v.state = "destroyed" /\ cloud'.versions = [cloud.versions EXCEPT ![old] = v]
      BY <2>3, <3>2, <3>3 DEF CloudRecord, VersionRecord
    <3> QED BY <1>9, <2>1, <2>3, <3>1, <3>4
  <2>4. CASE Goto(c, "destroyed") /\ UNCHANGED cloud
    BY <1>8, <2>1, <2>4
  <2> QED BY <1>1, <1>5, <1>11, <2>2, <2>3, <2>4 DEF DestroyOldVersion
<1> QED BY <1>10, <1>11

(* What becomes of the versions ahead when the record is saved.                *)
KeepsSubmitted(m, versions) ==
    IF m.mutation \in {"creating", "rotating"}
    THEN \A v \in versions : cloud.versions[v].payload = m.payload
    ELSE versions = {}

LEMMA SavedSubmits ==
    ASSUME NEW new, new # None, meta' = new, UNCHANGED cloud, NEW versions,
           versions = {v \in Versions : Enabled(v) /\ (new.active < v \/ new.mutation = "creating")},
           KeepsSubmitted(new, versions)
    PROVE  Ahead' = versions /\ SubmittedKept'
<1>1. Versions' = Versions /\ \A v : Enabled(v)' <=> Enabled(v)
  BY DEF Versions, Enabled
<1>2. Ahead' = versions
  BY <1>1 DEF Ahead
<1> QED BY <1>2 DEF SubmittedKept, KeepsSubmitted

(* A call saves the record and goes on with what it has saved.                 *)
LEMMA SavingSubmits ==
    ASSUME SecretsInvariant, NoOverlap, NEW c \in Callers, NEW s \in Calls, s = calls[c],
           NEW new \in SecretRecords, meta' = new, UNCHANGED cloud, NEW versions, NEW step,
           versions = {v \in Versions : Enabled(v) /\ (new.active < v \/ new.mutation = "creating")},
           KeepsSubmitted(new, versions),
           calls' = [calls EXCEPT ![c].draft = new, ![c].at = step],
           step \in MutatingSteps /\ new.mutation # "attaching" =>
              /\ s.payload = new.payload /\ step # "add"
              /\ step \in NewerSteps => versions = {s.new}
    PROVE  SubmittedInvariant'
<1>1. Ahead' = versions /\ SubmittedKept'
  BY SavedSubmits, RecordsAreNotNone
<1>2. PICK x : x = [s EXCEPT !.at = step, !.draft = new]
  OBVIOUS
<1>3. x.at = step /\ x.draft = new /\ x.payload = s.payload /\ x.new = s.new
  BY <1>2 DEF Calls
<1>4. [calls EXCEPT ![c].draft = new, ![c].at = step]
         = [calls EXCEPT ![c] = [s EXCEPT !.at = step, !.draft = new]]
  BY TwoFields, ZenonT(60)
<1>5. calls' = [calls EXCEPT ![c] = x]
  BY <1>2, <1>4
<1>6. CallIsCurrent(x)'
  BY <1>1, <1>3 DEF CallIsCurrent
<1>7. calls[c].at # "idle"
  BY CallsAreNotIdle
<1> QED BY <1>1, <1>5, <1>6, <1>7, AloneMoves

(* Progress is saved: nothing of the mutation changes.                         *)
LEMMA TouchingSubmits ==
    ASSUME SecretsInvariant, SubmittedInvariant, NoOverlap, NEW c \in Callers,
           NEW s, s = calls[c], s.at \in {"ensured", "added", "disabled"},
           NEW step \in {"probe", "versions", "disable", "record"},
           SaveThen(c, Touched(s.draft, s.now), step), UNCHANGED cloud,
           step \in NewerSteps => s.at \in NewerSteps
    PROVE  SubmittedInvariant' /\ Submits
<1>1. s.at \in MutatingSteps
  BY DEF MutatingSteps
<1>2. /\ s \in Calls /\ s.at # "idle" /\ CallIsCurrent(s) /\ s.draft = meta
      /\ meta # None /\ meta \in SecretRecords
      /\ meta.mutation \in {"creating", "attaching", "rotating"}
      /\ meta.mutation # "attaching" => s.payload = meta.payload
  BY <1>1, MutatingFacts
<1>3. PICK new : new = Touched(meta, s.now)
  OBVIOUS
<1>4. s.now \in 0..MaxTime
  BY <1>2 DEF Calls
<1>5. /\ new \in SecretRecords /\ new.active = meta.active /\ new.mutation = meta.mutation
      /\ new.payload = meta.payload
  BY <1>2, <1>3, <1>4, TouchedStands
<1>6. PICK versions : versions = {v \in Versions : Enabled(v)
                                     /\ (new.active < v \/ new.mutation = "creating")}
  OBVIOUS
<1>7. versions = Ahead
  BY <1>5, <1>6 DEF Ahead
<1>8. CASE meta' = new /\ calls' = [calls EXCEPT ![c].draft = new, ![c].at = step]
  <2>1. KeepsSubmitted(new, versions)
    BY <1>2, <1>5, <1>7 DEF SubmittedInvariant, SubmittedKept, KeepsSubmitted
  <2>2. step # "add" /\ (step \in NewerSteps /\ meta.mutation # "attaching" => versions = {s.new})
    BY <1>1, <1>2, <1>7 DEF CallIsCurrent
  <2>3. SubmittedInvariant'
    BY <1>2, <1>5, <1>6, <1>8, <2>1, <2>2, SavingSubmits, ZenonT(60)
  <2>4. Submits
    BY <1>2, <1>5, <1>8 DEF Submits, Mutating
  <2> QED BY <2>3, <2>4
<1>9. CASE Denied(c) /\ UNCHANGED meta
  <2>1. calls[c].at # "idle" /\ UNCHANGED meta /\ cloud'.versions = cloud.versions
    BY <1>2, <1>9
  <2> QED BY <1>9, <2>1, DenialSubmits
<1> QED BY <1>2, <1>3, <1>8, <1>9 DEF SaveThen

LEMMA SavingProgressSubmits ==
    ASSUME SecretsInvariant, SubmittedInvariant, NoOverlap, NEW c \in Callers,
           SaveEnsured(c) \/ SaveAdded(c) \/ SaveDisabled(c)
    PROVE  SubmittedInvariant' /\ Submits
<1>1. PICK s : s = calls[c]
  OBVIOUS
<1>2. {"probe", "versions"} \cap NewerSteps = {} /\ {"added", "disabled"} \subseteq NewerSteps
  BY DEF NewerSteps
<1>3. PICK step : step = IF s.at = "ensured"
                         THEN IF s.draft.mutation = "creating" THEN "probe" ELSE "versions"
                         ELSE IF s.at = "added" /\ s.draft.mutation # "creating" THEN "disable"
                         ELSE "record"
  OBVIOUS
<1>4. /\ s.at \in {"ensured", "added", "disabled"} /\ UNCHANGED cloud
      /\ SaveThen(c, Touched(s.draft, s.now), step)
  <2>1. CASE SaveEnsured(c)
    BY <1>1, <1>3, <2>1 DEF SaveEnsured
  <2>2. CASE SaveAdded(c)
    <3>1. s.at = "added" /\ step = IF s.draft.mutation = "creating" THEN "record" ELSE "disable"
      BY <1>1, <1>3, <2>2 DEF SaveAdded
    <3> QED BY <1>1, <2>2, <3>1 DEF SaveAdded
  <2>3. CASE SaveDisabled(c)
    BY <1>1, <1>3, <2>3 DEF SaveDisabled
  <2> QED BY <2>1, <2>2, <2>3
<1>5. step \in {"probe", "versions", "disable", "record"} /\ (step \in NewerSteps => s.at \in NewerSteps)
  BY <1>2, <1>3, <1>4
<1> QED BY <1>1, <1>4, <1>5, TouchingSubmits

(* The mutation is staged: nothing is ahead of the record, and its payload is  *)
(* the call's.                                                                 *)
LEMMA StagingSubmits ==
    ASSUME SecretsInvariant, SubmittedInvariant, NoOverlap, NEW c \in Callers, Stage(c)
    PROVE  SubmittedInvariant' /\ Submits
<1>1. PICK s : s = calls[c]
  OBVIOUS
<1>2. s.at = "stage" /\ s.at # "idle" /\ UNCHANGED cloud
  BY <1>1 DEF Stage
<1>3. s \in Calls /\ CallStands(s) /\ CallIsCurrent(s) /\ s.draft = meta /\ s.now \in 0..MaxTime
      /\ s.payload \in Payloads \cup {None}
  <2>1. s \in Calls /\ CallStands(s) /\ CallIsCurrent(s) /\ s.draft = meta
    BY <1>1, <1>2, AloneFacts
  <2> QED BY <2>1 DEF Calls
<1>4. s.plan \in 1..Len(plans) /\ s.plan \in 0..MaxPlans /\ plans[s.plan] \in PlanRecord
  BY <1>2, <1>3, SecretsFacts DEF CallStands, ApplyingSteps, Calls
<1>5. plans[s.plan].mode \in {"create", "attach", "rotate"}
      /\ plans[s.plan].workloads \in SUBSET Workloads
  BY <1>4 DEF PlanRecord
<1>6. CASE Denied(c) /\ UNCHANGED meta
  <2>1. calls[c].at # "idle" /\ UNCHANGED meta /\ cloud'.versions = cloud.versions
    BY <1>1, <1>2, <1>6
  <2> QED BY <1>6, <2>1, DenialSubmits
<1>7. ASSUME NEW new \in SecretRecords, NEW step \in {"ensure", "probe"}, meta' = new,
             calls' = [calls EXCEPT ![c].draft = new, ![c].at = step],
             new.mutation # "idle", new.mutation = "attaching" \/ new.payload = s.payload,
             {v \in Versions : Enabled(v) /\ (new.active < v \/ new.mutation = "creating")} = {},
             Submits
      PROVE  SubmittedInvariant' /\ Submits
  <2>1. PICK versions : versions = {v \in Versions : Enabled(v)
                                       /\ (new.active < v \/ new.mutation = "creating")}
    OBVIOUS
  <2>2. KeepsSubmitted(new, versions)
    BY <1>7, <2>1 DEF KeepsSubmitted
  <2>3. step # "add" /\ step \notin NewerSteps
    BY DEF NewerSteps
  <2> QED BY <1>1, <1>2, <1>3, <1>7, <2>1, <2>2, <2>3, SavingSubmits
<1>8. CASE plans[s.plan].mode = "create" /\ StageCreate(c)
  <2>1. PICK new : new = CreateDraft(s.plan, s.payload, s.now)
    OBVIOUS
  <2>2. CASE meta = None /\ meta' = new /\ calls' = [calls EXCEPT ![c].draft = new, ![c].at = "ensure"]
    <3>1. PICK workloads : workloads = plans[s.plan].workloads
      OBVIOUS
    <3>2. new = [ active |-> 1, attached |-> {}, rotation |-> "stable", retiring |-> 0, notBefore |-> 0,
                  mutation |-> "creating", key |-> s.plan, pending |-> workloads,
                  payload |-> s.payload, updated |-> s.now, number |-> 1 ]
      BY <2>1, <3>1 DEF CreateDraft, IdleRecord
    <3>3. new \in SecretRecords /\ new.mutation = "creating" /\ new.payload = s.payload
      BY <1>3, <1>4, <1>5, <3>1, <3>2 DEF SecretRecords
    <3>4. Versions = {}
      BY <2>2 DEF SecretsInvariant, SecretStands, NoCloud, Versions
    <3>5. Submits
      BY <2>2 DEF Submits, Mutating
    <3> QED BY <1>7, <2>2, <3>3, <3>4, <3>5
  <2> QED BY <1>1, <1>6, <1>8, <2>1, <2>2 DEF StageCreate
<1>9. ASSUME meta # None, meta.mutation = "idle", NEW base \in SecretRecords,
             base.active = meta.active, base.mutation \in {"attaching", "rotating"},
             base.mutation = "attaching" \/ base.payload = s.payload,
             SaveThen(c, Touched(base, s.now), "probe")
      PROVE  SubmittedInvariant' /\ Submits
  <2>1. PICK new : new = Touched(base, s.now)
    OBVIOUS
  <2>2. new \in SecretRecords /\ new.active = base.active /\ new.mutation = base.mutation
        /\ new.payload = base.payload
    BY <1>3, <2>1, TouchedStands
  <2>3. CASE meta' = new /\ calls' = [calls EXCEPT ![c].draft = new, ![c].at = "probe"]
    <3>1. Ahead = {}
      BY <1>9 DEF SubmittedInvariant, SubmittedKept
    <3>2. {v \in Versions : Enabled(v) /\ (new.active < v \/ new.mutation = "creating")} = {}
      BY <1>9, <2>2, <3>1 DEF Ahead
    <3>3. Submits
      BY <1>9 DEF Submits, Mutating
    <3> QED BY <1>7, <1>9, <2>2, <2>3, <3>2, <3>3
  <2> QED BY <1>6, <1>9, <2>1, <2>3 DEF SaveThen
<1>10. CASE plans[s.plan].mode = "attach" /\ StageAttach(c)
  <2>1. meta # None /\ meta.mutation = "idle" /\ meta \in SecretRecords
    BY <1>2, <1>3, <1>10, SecretsFacts DEF CallStands
  <2>2. CASE Goto(c, "mark") /\ UNCHANGED meta
    <3>1. CallIsCurrent([s EXCEPT !.at = "mark"])
      BY <1>2, <1>3, StepsStayCurrent DEF MutatingSteps
    <3>2. calls[c].at # "idle" /\ UNCHANGED meta /\ cloud'.versions = cloud.versions
      BY <1>1, <1>2, <2>2
    <3> QED BY <1>1, <2>2, <3>1, <3>2, GoingOnSubmits
  <2>3. CASE SaveThen(c, BeginAttachment(meta, s.plan, s.now), "probe")
    <3>1. PICK workloads : workloads = plans[s.plan].workloads
      OBVIOUS
    <3>2. PICK base : base = [meta EXCEPT !.mutation = "attaching", !.key = s.plan,
                                          !.pending = workloads, !.payload = None]
      OBVIOUS
    <3>3. base \in SecretRecords /\ base.mutation = "attaching" /\ base.active = meta.active
      BY <1>4, <1>5, <2>1, <3>1, <3>2 DEF SecretRecords
    <3>4. SaveThen(c, Touched(base, s.now), "probe")
      BY <2>3, <3>1, <3>2 DEF BeginAttachment
    <3> QED BY <1>9, <2>1, <3>3, <3>4
  <2> QED BY <1>1, <1>3, <1>10, <2>2, <2>3 DEF StageAttach
<1>11. CASE plans[s.plan].mode = "rotate" /\ StageRotate(c)
  <2>1. meta # None /\ meta.mutation = "idle" /\ meta \in SecretRecords
    BY <1>2, <1>3, <1>11, SecretsFacts DEF CallStands
  <2>2. CASE SaveThen(c, BeginRotation(meta, s.plan, s.payload, s.now), "probe")
    <3>1. PICK workloads : workloads = plans[s.plan].workloads
      OBVIOUS
    <3>2. PICK base : base = [meta EXCEPT !.rotation = "rotating", !.mutation = "rotating",
                                          !.key = s.plan, !.pending = workloads,
                                          !.payload = s.payload]
      OBVIOUS
    <3>3. base \in SecretRecords /\ base.mutation = "rotating" /\ base.active = meta.active
          /\ base.payload = s.payload
      BY <1>3, <1>4, <1>5, <2>1, <3>1, <3>2 DEF SecretRecords
    <3>4. SaveThen(c, Touched(base, s.now), "probe")
      BY <2>2, <3>1, <3>2 DEF BeginRotation
    <3> QED BY <1>9, <2>1, <3>3, <3>4
  <2> QED BY <1>1, <1>3, <1>6, <1>11, <2>2 DEF StageRotate
<1>12. \/ plans[s.plan].mode = "create" /\ StageCreate(c)
       \/ plans[s.plan].mode = "attach" /\ StageAttach(c)
       \/ plans[s.plan].mode = "rotate" /\ StageRotate(c)
  BY <1>1, <1>5 DEF Stage
<1> QED BY <1>8, <1>10, <1>11, <1>12

(* What is recorded is what was submitted, and nothing is left ahead of it.    *)
LEMMA RecordingSubmits ==
    ASSUME SecretsInvariant, SubmittedInvariant, NoOverlap, NEW c \in Callers, Record(c)
    PROVE  SubmittedInvariant' /\ Submits
<1>1. PICK s : s = calls[c]
  OBVIOUS
<1>2. /\ s.at = "record" /\ s.at \in MutatingSteps /\ s.at \in NewerSteps /\ UNCHANGED cloud
      /\ ((Denied(c) /\ UNCHANGED meta) \/ SaveThen(c, Recorded(s), "mark"))
  BY <1>1 DEF Record, MutatingSteps, NewerSteps
<1>3. /\ s \in Calls /\ s.at # "idle" /\ CallIsCurrent(s) /\ CallStands(s) /\ s.draft = meta
      /\ meta # None /\ meta \in SecretRecords
      /\ meta.mutation \in {"creating", "attaching", "rotating"}
  BY <1>1, <1>2, MutatingFacts
<1>4. s.now \in 0..MaxTime
  BY <1>3 DEF Calls
<1>5. CASE Denied(c) /\ UNCHANGED meta
  <2>1. calls[c].at # "idle" /\ UNCHANGED meta /\ cloud'.versions = cloud.versions
    BY <1>1, <1>2, <1>3, <1>5
  <2> QED BY <1>5, <2>1, DenialSubmits
<1>6. ASSUME NEW base \in SecretRecords, base.mutation = "idle",
             Recorded(s) = Touched(base, s.now), SaveThen(c, Recorded(s), "mark"),
             \A v \in Versions : Enabled(v) => ~(base.active < v),
             meta.mutation # "attaching" => cloud.versions[base.active].payload = meta.payload
      PROVE  SubmittedInvariant' /\ Submits
  <2>1. PICK new : new = Touched(base, s.now)
    OBVIOUS
  <2>2. new \in SecretRecords /\ new.active = base.active /\ new.mutation = "idle"
    BY <1>4, <1>6, <2>1, TouchedStands
  <2>3. CASE meta' = new /\ calls' = [calls EXCEPT ![c].draft = new, ![c].at = "mark"]
    <3>1. PICK versions : versions = {v \in Versions : Enabled(v)
                                         /\ (new.active < v \/ new.mutation = "creating")}
      OBVIOUS
    <3>2. KeepsSubmitted(new, versions)
      BY <1>6, <2>2, <3>1 DEF KeepsSubmitted
    <3>3. "mark" \notin MutatingSteps
      BY DEF MutatingSteps
    <3>4. SubmittedInvariant'
      BY <1>1, <1>2, <1>3, <2>2, <2>3, <3>1, <3>2, <3>3, SavingSubmits
    <3>5. Submits
      BY <1>6, <2>2, <2>3 DEF Submits, Mutating
    <3> QED BY <3>4, <3>5
  <2> QED BY <1>5, <1>6, <2>1, <2>3 DEF SaveThen
<1>7. 0 \in 0..MaxPlans
  BY SecretsFacts
<1>8. CASE meta.mutation \in {"creating", "attaching"} /\ SaveThen(c, Recorded(s), "mark")
  <2>1. PICK base : base = [meta EXCEPT !.attached = meta.pending, !.mutation = "idle",
                                        !.key = 0, !.pending = {}, !.payload = None]
    OBVIOUS
  <2>2. base \in SecretRecords /\ base.mutation = "idle" /\ base.active = meta.active
    BY <1>3, <1>7, <2>1 DEF SecretRecords
  <2>3. Recorded(s) = Touched(base, s.now)
    <3>1. base = Settled([meta EXCEPT !.attached = meta.pending])
      BY <1>3, <2>1 DEF Settled, SecretRecords
    <3>2. Recorded(s) = Touched(Settled([meta EXCEPT !.attached = meta.pending]), s.now)
      BY <1>3, <1>8 DEF Recorded, FinalizeCreation, FinalizeAttachment
    <3> QED BY <3>1, <3>2
  <2>4. CASE meta.mutation = "attaching"
    <3>1. Ahead = {}
      BY <1>3, <2>4 DEF SubmittedInvariant, SubmittedKept
    <3>2. \A v \in Versions : Enabled(v) => ~(base.active < v)
      BY <2>2, <3>1 DEF Ahead
    <3> QED BY <1>6, <1>8, <2>2, <2>3, <2>4, <3>2
  <2>5. CASE meta.mutation = "creating"
    <3>1. meta.active = 1 /\ 1 \in Versions /\ Enabled(1)
      BY <1>2, <1>3, <2>5 DEF CallStands, RecordStands, SecretsInvariant, SecretStands, VersionsStand
    <3>2. 1 \in Ahead /\ Ahead = {s.new}
      BY <1>2, <1>3, <2>5, <3>1 DEF Ahead, CallIsCurrent
    <3>3. cloud.versions[base.active].payload = meta.payload
      BY <1>3, <2>2, <2>5, <3>1, <3>2 DEF SubmittedInvariant, SubmittedKept
    <3>4. \A v \in Versions : Enabled(v) => ~(base.active < v)
      BY <2>2, <2>5, <3>1, <3>2 DEF Ahead
    <3> QED BY <1>6, <1>8, <2>2, <2>3, <3>3, <3>4
  <2> QED BY <1>8, <2>4, <2>5
<1>9. CASE meta.mutation = "rotating" /\ SaveThen(c, Recorded(s), "mark")
  <2>1. Ahead = {s.new} /\ s.new \in Versions /\ meta.active < s.new
    BY <1>2, <1>3, <1>9 DEF CallIsCurrent, CallStands
  <2>2. PICK base : base = [meta EXCEPT !.active = s.new, !.attached = meta.pending,
                              !.rotation = "retiring", !.retiring = meta.active,
                              !.notBefore = meta.updated + Window, !.mutation = "idle",
                              !.key = 0, !.pending = {}, !.payload = None]
    OBVIOUS
  <2>3. meta.updated + Window \in Nat /\ s.new \in Nat \ {0} /\ meta.active \in Nat
    <3>1. meta.updated \in Nat /\ Window \in Nat
      BY <1>3, TimesAreNumbers
    <3>2. s.new \in Nat \ {0}
      BY <2>1, SecretsFacts DEF Versions
    <3> QED BY <1>3, <3>1, <3>2 DEF SecretRecords
  <2>4. base \in SecretRecords /\ base.mutation = "idle" /\ base.active = s.new
    <3>1. meta \in SecretRecords
      BY <1>3
    <3> QED BY <1>7, <2>2, <2>3, <3>1 DEF SecretRecords
  <2>5. Recorded(s) = Touched(base, s.now)
    <3>1. PICK moved : moved = [meta EXCEPT !.active = s.new, !.attached = meta.pending,
                                  !.rotation = "retiring", !.retiring = meta.active,
                                  !.notBefore = meta.updated + Window]
      OBVIOUS
    <3>2. base = Settled(moved)
      BY <1>3, <2>2, <3>1 DEF Settled, SecretRecords
    <3>3. Recorded(s) = Touched(Settled(moved), s.now)
      BY <1>3, <1>9, <3>1 DEF Recorded, RecordRotation
    <3> QED BY <3>2, <3>3
  <2>6. cloud.versions[base.active].payload = meta.payload
    BY <1>3, <1>9, <2>1, <2>4 DEF SubmittedInvariant, SubmittedKept
  <2>7. \A v \in Versions : Enabled(v) => ~(base.active < v)
    <3> SUFFICES ASSUME NEW v \in Versions, Enabled(v), s.new < v PROVE FALSE
      BY <2>4
    <3>1. v \in Nat
      BY SecretsFacts DEF Versions
    <3>2. meta.active < v
      BY <2>1, <2>3, <3>1
    <3>3. v \in Ahead
      BY <3>2 DEF Ahead
    <3> QED BY <2>1, <2>3, <3>1, <3>3
  <2> QED BY <1>6, <1>9, <2>4, <2>5, <2>6, <2>7
<1> QED BY <1>2, <1>3, <1>5, <1>8, <1>9

(* A retirement leaves the active version and the mutation as they are.        *)
LEMMA RetiringSubmits ==
    ASSUME SecretsInvariant, SubmittedInvariant, NoOverlap, NEW c \in Callers, SaveRetired(c)
    PROVE  SubmittedInvariant' /\ Submits
<1>1. PICK s : s = calls[c]
  OBVIOUS
<1>2. PICK new : new = CompleteRetirement(s.draft, s.now)
  OBVIOUS
<1>3. s.at = "destroyed" /\ s.at # "idle" /\ UNCHANGED cloud /\ Denied(c)
      /\ (meta' = new \/ meta' = meta)
  BY <1>1, <1>2 DEF SaveRetired
<1>4. s \in Calls /\ CallStands(s) /\ s.draft = meta
  BY <1>1, <1>3, AloneFacts
<1>5. meta # None /\ meta \in SecretRecords /\ s.now \in 0..MaxTime
  <2>1. s.now \in 0..MaxTime
    BY <1>4 DEF Calls
  <2> QED BY <1>3, <1>4, <2>1, SecretsFacts DEF CallStands, RetirementSteps
<1>6. CASE meta' = meta
  <2>1. calls[c].at # "idle" /\ UNCHANGED meta /\ cloud'.versions = cloud.versions
    BY <1>1, <1>3, <1>6
  <2> QED BY <1>3, <1>6, <2>1, DenialSubmits
<1>7. CASE meta' = new
  <2>1. PICK base : base = [meta EXCEPT !.rotation = "stable", !.retiring = 0, !.notBefore = 0]
    OBVIOUS
  <2>2. base \in SecretRecords /\ base.active = meta.active /\ base.mutation = meta.mutation
        /\ base.payload = meta.payload
    BY <1>5, <2>1 DEF SecretRecords
  <2>3. new = Touched(base, s.now)
    BY <1>2, <1>4, <2>1 DEF CompleteRetirement
  <2>4. new \in SecretRecords /\ new.active = meta.active /\ new.mutation = meta.mutation
        /\ new.payload = meta.payload
    BY <1>5, <2>2, <2>3, TouchedStands
  <2>5. PICK versions : versions = {v \in Versions : Enabled(v)
                                       /\ (new.active < v \/ new.mutation = "creating")}
    OBVIOUS
  <2>6. versions = Ahead
    BY <2>4, <2>5 DEF Ahead
  <2>7. KeepsSubmitted(new, versions)
    BY <1>5, <2>4, <2>6 DEF SubmittedInvariant, SubmittedKept, KeepsSubmitted
  <2>8. SubmittedKept'
    BY <1>3, <1>7, <2>4, <2>5, <2>7, SavedSubmits, RecordsAreNotNone
  <2>9. Submits
    BY <1>7, <2>4 DEF Submits, Mutating
  <2> QED BY <1>1, <1>3, <2>8, <2>9, AloneIsOver
<1> QED BY <1>3, <1>6, <1>7

LEMMA SubmittedStep ==
    ASSUME SecretsInvariant, SubmittedInvariant, NoOverlap, [Next]_vars
    PROVE  SubmittedInvariant' /\ Submits
<1>1. CASE UNCHANGED << meta, calls >> /\ cloud'.versions = cloud.versions
  BY <1>1, AloneRests, QuietSubmits
<1>2. CASE Plan \/ Tick \/ UNCHANGED vars \/ \E w \in Workloads : Unbind(w)
  <2>1. cloud \in CloudRecord
    BY DEF SecretsInvariant
  <2>2. UNCHANGED << meta, calls >> /\ cloud'.versions = cloud.versions
    <3>1. CASE Plan \/ Tick \/ UNCHANGED vars
      BY <3>1 DEF Plan, PlanWrite, PlanAttach, PlanTo, Tick, vars
    <3>2. ASSUME NEW w \in Workloads, Unbind(w)
          PROVE  UNCHANGED << meta, calls >> /\ cloud'.versions = cloud.versions
      BY <2>1, <3>2 DEF Unbind, CloudRecord
    <3> QED BY <1>2, <3>1, <3>2
  <2> QED BY <1>1, <2>2
<1>3. ASSUME NEW c \in Callers, NEW p \in 1..Len(plans), NEW payload \in Payloads,
             BeginApply(c, p, payload)
      PROVE  SubmittedInvariant' /\ Submits
  <2>1. PICK x : x = [at |-> "consume", plan |-> p, payload |-> payload, now |-> clock,
                      draft |-> meta, new |-> 0]
    OBVIOUS
  <2>2. x.at \notin MutatingSteps /\ x.draft = meta
    BY <2>1 DEF MutatingSteps
  <2>3. calls[c].at = "idle" /\ calls' = [calls EXCEPT ![c] = x]
    BY <1>3, <2>1 DEF BeginApply
  <2>4. UNCHANGED meta /\ cloud'.versions = cloud.versions
    BY <1>3 DEF BeginApply
  <2>5. Submits
    BY <2>4, QuietSubmits
  <2>6. SubmittedInvariant'
    BY <2>2, <2>3, <2>4, BeginningSubmits, ZenonT(60)
  <2> QED BY <2>5, <2>6
<1>4. ASSUME NEW c \in Callers, BeginRetirement(c)
      PROVE  SubmittedInvariant' /\ Submits
  <2>1. PICK x : x = [at |-> "retire", plan |-> 0, payload |-> None, now |-> clock,
                      draft |-> meta, new |-> 0]
    OBVIOUS
  <2>2. x.at \notin MutatingSteps /\ x.draft = meta
    BY <2>1 DEF MutatingSteps
  <2>3. calls[c].at = "idle" /\ calls' = [calls EXCEPT ![c] = x]
    BY <1>4, <2>1 DEF BeginRetirement
  <2>4. UNCHANGED meta /\ cloud'.versions = cloud.versions
    BY <1>4 DEF BeginRetirement
  <2>5. Submits
    BY <2>4, QuietSubmits
  <2>6. SubmittedInvariant'
    BY <2>2, <2>3, <2>4, BeginningSubmits, ZenonT(60)
  <2> QED BY <2>5, <2>6
<1>5. ASSUME NEW c \in Callers, Crash(c)
      PROVE  SubmittedInvariant' /\ Submits
  <2>1. calls[c].at # "idle" /\ Denied(c) /\ UNCHANGED meta /\ cloud'.versions = cloud.versions
    BY <1>5 DEF Crash
  <2> QED BY <2>1, DenialSubmits
<1>6. ASSUME NEW c \in Callers, Step(c)
      PROVE  SubmittedInvariant' /\ Submits
  <2>1. CASE Consume(c) \/ MarkSucceeded(c) \/ RecordResult(c) \/ EnsureRetiring(c)
    BY <2>1, ConsumingSubmits
  <2>2. CASE Stage(c) \/ Resume(c) \/ Record(c) \/ SaveRetired(c)
    BY <2>2, StagingSubmits, ResumingSubmits, RecordingSubmits, RetiringSubmits
  <2>3. CASE Ensure(c) \/ Bind(c) \/ Probe(c) \/ ProbeVersions(c)
    BY <2>3, BindingSubmits, ProbingSubmits
  <2>4. CASE SaveEnsured(c) \/ SaveAdded(c) \/ SaveDisabled(c)
    BY <2>4, SavingProgressSubmits
  <2>5. CASE AddVersion(c) \/ DisableOldVersion(c) \/ DestroyOldVersion(c)
    BY <2>5, AddingSubmits, SwitchingSubmits
  <2> QED BY <1>6, <2>1, <2>2, <2>3, <2>4, <2>5 DEF Step
<1> QED BY <1>2, <1>3, <1>4, <1>5, <1>6 DEF Next

LEMMA SubmittedStart ==
    ASSUME Init PROVE SubmittedInvariant
<1>1. \A c \in Callers : CallIsCurrent(calls[c])
  BY CallsAreNotIdle DEF Init, CallIsCurrent
<1>2. SubmittedKept
  <2>1. CASE meta = None
    BY <2>1 DEF SubmittedKept
  <2>2. ASSUME NEW w \in Workloads, NEW payload \in Payloads,
               meta = IdleRecord(1, {w}, 1),
               cloud = [exists |-> TRUE, readers |-> {w}, versions |->
                          << [state |-> "enabled", payload |-> payload, since |-> 0] >>]
        PROVE  SubmittedKept
    <3>1. meta.active = 1 /\ meta.mutation = "idle"
      BY <2>2 DEF IdleRecord
    <3>2. Len(cloud.versions) = 1
      BY <2>2
    <3>3. \A v \in Versions : v = 1
      BY <3>2 DEF Versions
    <3>4. Ahead = {}
      BY <3>1, <3>3 DEF Ahead
    <3> QED BY <3>1, <3>4 DEF SubmittedKept
  <2> QED BY <2>1, <2>2 DEF Init
<1> QED BY <1>1, <1>2 DEF SubmittedInvariant

(* When creations and rotations of a secret do not overlap, the version that   *)
(* becomes active holds the value that was submitted for this mutation, also   *)
(* when calls died after they had added a version and a later one finds it     *)
(* (_require_payload_match, newer_enabled).                                    *)
THEOREM TheSubmittedValueIsStored == Spec /\ []NoOverlap => StoredIsSubmitted
<1>1. Init => SubmittedInvariant
  BY SubmittedStart
<1>2. SecretsInvariant /\ SubmittedInvariant /\ NoOverlap /\ [Next]_vars => SubmittedInvariant'
  BY SubmittedStep
<1>3. SecretsInvariant /\ SubmittedInvariant /\ NoOverlap /\ [Next]_vars
        => [Mutating({"creating", "rotating"}) /\ meta'.mutation = "idle" =>
              cloud.versions[meta'.active].payload = meta.payload]_vars
  BY SubmittedStep DEF Submits
<1> QED BY <1>1, <1>2, <1>3, SecretsInvariantHolds, PTL DEF Spec, StoredIsSubmitted
==============================================================================
