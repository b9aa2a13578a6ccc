---------------------------- MODULE LifecycleProofs ----------------------------
(***************************************************************************)
(* What holds of the lifecycle job whatever the number of sweeps, crashes,  *)
(* lapsed leases, workloads and secrets.                                   *)
(*                                                                         *)
(* Nothing a sweep takes away comes back: a host that is down stays down,  *)
(* a reader that was cut stays cut, a locked secret stays locked, what is  *)
(* archived stays archived, what is deleted stays deleted, and a version   *)
(* only grows (Progresses). So whatever a sweep has done or read before    *)
(* still stands when another sweep, a crash or the owner moves in between  *)
(* (SweepStands), and the records follow from what the sweep that saves    *)
(* them has done at every one of its earlier steps.                        *)
(***************************************************************************)
EXTENDS Lifecycle, TLAPS

ReadSteps    == {"host", "unbind", "lock", "save"}
ArchiveSteps == {"archive", "archived", "delete", "retire", "mark"}
DoingSteps   == ArchiveSteps \cup {"revalidate", "reread", "finish"}
UserSteps    == ReadSteps \cup {"deny", "quarantine", "revoke", "schedule", "disable", "admin"}
HoldingSteps == UserSteps \cup DoingSteps \cup {"plan", "persist", "recover", "execute"}

(* What was read of a record is what it still is, or its version is older.  *)
ReadBefore(then, rec) ==
    then.version <= rec.version /\ (then.version = rec.version => then = rec)

Down(w)        == w \in WebApps => hosts[w] # "active"
Retired(w)     == w \in WebApps => hosts[w] = "retired"
Unscheduled(w) == w \in Scripts => schedules[w].state = "archived"
Erased(w)      == ~compute[w] /\ (w \in Scripts => timers[w] = "deleted")
Unread(w, x)   == w \in AttachedTo[x] => w \notin readers[x]
Unheld(w)      == \E h \in HoldSets : w \notin h

(* What a sweep knows from its own earlier steps, whatever is stored.       *)
SweepKnows(s) ==
    /\ s \in SweepRecord
    /\ s.pc \in HoldingSteps => s.holds \in HoldSets
    /\ s.pc \in UserSteps => s.user \in UserRecord
    /\ s.pc \in {"schedule", "disable"} => s.todo \subseteq Scripts
    /\ s.pc \in ReadSteps \cup ArchiveSteps => s.work \in Workloads /\ s.read \in WorkRecord
    /\ s.pc \in {"unbind", "lock"} => s.seen \in [Secrets -> SecretRecord]
    /\ s.pc = "unbind" => \A x \in s.cuts : s.work \in AttachedTo[x]
    /\ s.pc \in {"disable", "archived"} => s.work \in Scripts /\ s.schedule \in ScheduleRecord
    /\ s.pc \in DoingSteps => s.doing \in Planned
    /\ s.pc \in ArchiveSteps => s.doing.id.workload = s.work
    /\ s.pc \in DoingSteps \ {"finish"} => s.doing.id.why # "warning"
    /\ s.pc \in DoingSteps /\ s.doing.id.why # "warning" => Unheld(s.doing.id.workload)
    /\ \A p \in s.plan : p.id.why # "warning" => Unheld(p.id.workload)
    /\ \A a \in s.wanted : a.state = "planned"

(* What of it is still so.                                                  *)
SweepSees(s) ==
    /\ s.pc \in ReadSteps \cup ArchiveSteps => ReadBefore(s.read, works[s.work])
    /\ s.pc \in {"disable", "archived"} => ReadBefore(s.schedule, schedules[s.work])
    /\ s.pc \in {"unbind", "lock", "save"} => Down(s.work)
    /\ s.pc = "unbind" => \A x \in Secrets : x \in s.cuts \/ Unread(s.work, x)
    /\ s.pc \in {"lock", "save"} => \A x \in Secrets : Unread(s.work, x)
    /\ s.pc \in {"unbind", "lock"} =>
          \A x \in Secrets :
             /\ s.seen[x].state # "active" => secrets[x].state = "locked"
             /\ s.work \in AttachedTo[x] => x \in s.attached \/ secrets[x].state = "locked"
    /\ s.pc = "save" => \A x \in Secrets : s.work \in AttachedTo[x] => secrets[x].state = "locked"
    /\ s.pc \in {"delete", "retire", "mark"} => Unscheduled(s.work)
    /\ s.pc \in {"retire", "mark"} => Erased(s.work)
    /\ s.pc = "mark" => Retired(s.work)
    /\ s.pc = "finish" /\ s.doing.id.why # "warning" =>
          works[s.doing.id.workload].state = "archived"

SweepStands(s) == SweepKnows(s) /\ SweepSees(s)

ClockKept == day \in Days /\ account \in UserRecord /\ trouble \in 0..MaxTrouble

StoredTyped ==
    /\ works \in [Workloads -> WorkRecord]
    /\ hosts \in [WebApps -> BindingStates]
    /\ compute \in [Workloads -> BOOLEAN]
    /\ schedules \in [Scripts -> ScheduleRecord]
    /\ timers \in [Scripts -> {"enabled", "paused", "deleted"}]
    /\ secrets \in [Secrets -> SecretRecord]
    /\ readers \in [Secrets -> SUBSET Workloads]
    /\ grant \in BOOLEAN

ActionsTyped ==
    /\ actions \subseteq ActionRecord
    /\ \A a, b \in actions : a.id = b.id => a = b

(* Compute is only gone where some document of holds left the workload out, *)
(* or from before the start.                                                *)
GoneIsUnheld ==
    \A w \in Workloads : ~compute[w] => Unheld(w) \/ \E g \in GoneBefore : w \in g

RecordsKept ==
    /\ StoredTyped /\ ActionsTyped
    /\ QuarantinedIsCut /\ ArchivedIsGone /\ GoneIsUnheld

JobKept ==
    /\ lease \in [holder : Sweeps \cup {None}, over : BOOLEAN] /\ status \in JobStatus
    /\ LeaseExcludes
    /\ sweeps = [r \in Sweeps |-> sweeps[r]]
    /\ \A r \in Sweeps : SweepStands(sweeps[r])

LifecycleInvariant == ClockKept /\ RecordsKept /\ JobKept

(* What no step gives back, whoever takes it.                               *)
Progresses ==
    /\ \A w \in Workloads : /\ ReadBefore(works[w], works'[w])
                            /\ works[w].state = "archived" => works'[w].state = "archived"
                            /\ ~compute[w] => ~compute'[w]
    /\ \A w \in Scripts : /\ ReadBefore(schedules[w], schedules'[w])
                          /\ schedules[w].state = "archived" => schedules'[w].state = "archived"
                          /\ timers[w] = "deleted" => timers'[w] = "deleted"
    /\ \A w \in WebApps : /\ hosts[w] # "active" => hosts'[w] # "active"
                          /\ hosts[w] = "retired" => hosts'[w] = "retired"
    /\ \A x \in Secrets : /\ \A w \in AttachedTo[x] : w \notin readers[x] => w \notin readers'[x]
                          /\ secrets[x].state = "locked" => secrets'[x].state = "locked"


--------------------------------------------------------------------------------
LEMMA DaysNamed == 0 \in Days /\ Days \subseteq Nat
BY LifecycleParameters DEF Days

LEMMA RecordsAreVersioned ==
  /\ \A x \in WorkRecord : x.version \in Nat /\ x.updated \in Days /\ x.used \in Days
  /\ \A x \in ScheduleRecord : x.version \in Nat /\ x.updated \in Days
  /\ \A x \in SecretRecord : x.version \in Nat
BY DEF WorkRecord, ScheduleRecord, SecretRecord

(* What was read before a record moved on was read before what it is now.   *)
LEMMA ReadBeforeFollows ==
  ASSUME NEW then, NEW rec, NEW next, then.version \in Nat, rec.version \in Nat,
         next.version \in Nat, ReadBefore(then, rec), ReadBefore(rec, next)
  PROVE  ReadBefore(then, next)
BY DEF ReadBefore

LEMMA ReadBeforeItself ==
  ASSUME NEW rec, rec.version \in Nat PROVE ReadBefore(rec, rec)
BY DEF ReadBefore

(* Where a sweep stood it still stands, whoever moved.                      *)
LEMMA ProgressStands ==
  ASSUME StoredTyped, StoredTyped', Progresses, NEW s, SweepStands(s)
  PROVE  SweepStands(s)'
<1>1. SweepKnows(s)'
  BY DEF SweepStands, SweepKnows, Unheld
<1>2. SweepKnows(s) /\ SweepSees(s)
  BY DEF SweepStands
<1>3. s.pc \in ReadSteps \cup ArchiveSteps => ReadBefore(s.read, works'[s.work])
  <2> SUFFICES ASSUME s.pc \in ReadSteps \cup ArchiveSteps PROVE ReadBefore(s.read, works'[s.work])
    OBVIOUS
  <2>1. /\ s.work \in Workloads /\ s.read.version \in Nat
        /\ ReadBefore(s.read, works[s.work])
    BY <1>2, RecordsAreVersioned DEF SweepKnows, SweepSees
  <2>2. works[s.work].version \in Nat /\ works'[s.work].version \in Nat
    BY <2>1, RecordsAreVersioned DEF StoredTyped
  <2>3. ReadBefore(works[s.work], works'[s.work])
    BY <2>1 DEF Progresses
  <2> QED BY <2>1, <2>2, <2>3, ReadBeforeFollows
<1>4. s.pc \in {"disable", "archived"} => ReadBefore(s.schedule, schedules'[s.work])
  <2> SUFFICES ASSUME s.pc \in {"disable", "archived"} PROVE ReadBefore(s.schedule, schedules'[s.work])
    OBVIOUS
  <2>1. /\ s.work \in Scripts /\ s.schedule.version \in Nat
        /\ ReadBefore(s.schedule, schedules[s.work])
    BY <1>2, RecordsAreVersioned DEF SweepKnows, SweepSees
  <2>2. schedules[s.work].version \in Nat /\ schedules'[s.work].version \in Nat
    BY <2>1, RecordsAreVersioned DEF StoredTyped
  <2>3. ReadBefore(schedules[s.work], schedules'[s.work])
    BY <2>1 DEF Progresses
  <2> QED BY <2>1, <2>2, <2>3, ReadBeforeFollows
<1>5. /\ s.pc \in {"unbind", "lock", "save"} => Down(s.work)'
      /\ s.pc = "unbind" => \A x \in Secrets : x \in s.cuts \/ Unread(s.work, x)'
      /\ s.pc \in {"lock", "save"} => \A x \in Secrets : Unread(s.work, x)'
  BY <1>2 DEF SweepSees, Progresses, Down, Unread
<1>6. /\ s.pc \in {"unbind", "lock"} =>
          \A x \in Secrets :
             /\ s.seen[x].state # "active" => secrets'[x].state = "locked"
             /\ s.work \in AttachedTo[x] => x \in s.attached \/ secrets'[x].state = "locked"
      /\ s.pc = "save" => \A x \in Secrets : s.work \in AttachedTo[x] => secrets'[x].state = "locked"
  BY <1>2 DEF SweepSees, Progresses
<1>7. s.pc \in ArchiveSteps => s.work \in Workloads
  BY <1>2 DEF SweepKnows
<1>8. /\ s.pc \in {"delete", "retire", "mark"} => Unscheduled(s.work)'
      /\ s.pc \in {"retire", "mark"} => Erased(s.work)'
      /\ s.pc = "mark" => Retired(s.work)'
  BY <1>2, <1>7 DEF SweepSees, Progresses, Unscheduled, Erased, Retired, ArchiveSteps
<1>9. s.pc = "finish" /\ s.doing.id.why # "warning" => works'[s.doing.id.workload].state = "archived"
  <2>1. s.pc = "finish" => s.doing.id.workload \in Workloads
    BY <1>2 DEF SweepKnows, DoingSteps, Planned, ActionIds
  <2> QED BY <1>2, <2>1 DEF SweepSees, Progresses
<1> QED BY <1>1, <1>3, <1>4, <1>5, <1>6, <1>8, <1>9 DEF SweepStands, SweepSees

LEMMA SweepFacts ==
  ASSUME LifecycleInvariant, NEW r \in Sweeps
  PROVE  /\ SweepStands(sweeps[r]) /\ SweepKnows(sweeps[r]) /\ SweepSees(sweeps[r])
         /\ sweeps[r] \in SweepRecord
         /\ ClockKept /\ RecordsKept /\ StoredTyped /\ ActionsTyped
BY DEF LifecycleInvariant, JobKept, SweepStands, SweepKnows, RecordsKept

(* One sweep goes on; the others, and the lease, stand where they were.     *)
LEMMA SweepMoves ==
  ASSUME LifecycleInvariant, NEW r \in Sweeps, NEW x,
         sweeps' = [sweeps EXCEPT ![r] = x], SweepStands(x)', RecordsKept', Progresses,
         sweeps[r].pc # "idle", x.lapsed = sweeps[r].lapsed,
         UNCHANGED << day, account, trouble, lease, status >>
  PROVE  LifecycleInvariant'
<1>1. sweeps = [q \in Sweeps |-> sweeps[q]]
  BY DEF LifecycleInvariant, JobKept
<1>2. \A q \in Sweeps : sweeps'[q] = IF q = r THEN x ELSE sweeps[q]
  BY <1>1
<1>3. sweeps' = [q \in Sweeps |-> sweeps'[q]]
  BY <1>1
<1>4. \A q \in Sweeps : SweepStands(sweeps[q])'
  <2> SUFFICES ASSUME NEW q \in Sweeps PROVE SweepStands(sweeps[q])'
    OBVIOUS
  <2>1. CASE q = r
    <3>1. PICK z : z = x
      OBVIOUS
    <3>2. sweeps'[q] = x
      BY <1>2, <2>1
    <3> QED BY <3>2 DEF SweepStands, SweepKnows, SweepSees
  <2>2. CASE q # r
    <3>1. PICK z : z = sweeps[q]
      OBVIOUS
    <3>2. SweepStands(z)
      BY <3>1, SweepFacts
    <3>3. SweepStands(z)'
      BY <3>2, ProgressStands DEF LifecycleInvariant, RecordsKept
    <3>4. sweeps'[q] = z
      BY <1>2, <2>2, <3>1
    <3> QED BY <3>3, <3>4 DEF SweepStands, SweepKnows, SweepSees
  <2> QED BY <2>1, <2>2
<1>5. LeaseExcludes'
  BY <1>2 DEF LifecycleInvariant, JobKept, LeaseExcludes, AtWork
<1>6. ClockKept' /\ lease' \in [holder : Sweeps \cup {None}, over : BOOLEAN] /\ status' \in JobStatus
  BY DEF LifecycleInvariant, JobKept, ClockKept
<1> QED BY <1>3, <1>4, <1>5, <1>6 DEF LifecycleInvariant, JobKept

(* While no workload and no action is saved, what is kept of the records    *)
(* follows from what no step gives back.                                    *)
LEMMA RecordsFollow ==
  ASSUME RecordsKept, StoredTyped', Progresses, UNCHANGED << works, actions >>,
         notices \subseteq notices',
         \A w \in Workloads : compute[w] /\ ~compute'[w] => Unheld(w)
  PROVE  RecordsKept'
<1>1. QuarantinedIsCut'
  BY DEF RecordsKept, QuarantinedIsCut, Progresses
<1>2. ArchivedIsGone'
  <2>1. \A w \in Workloads : works'[w].state = "archived" =>
           /\ ~compute'[w]
           /\ w \in WebApps => hosts'[w] = "retired"
           /\ w \in Scripts => schedules'[w].state = "archived" /\ timers'[w] = "deleted"
    BY DEF RecordsKept, ArchivedIsGone, Progresses
  <2>2. \A a \in actions' : a.state = "executed" =>
           IF a.id.why = "warning" THEN << "owner", a.id.workload >> \in notices'
                                   ELSE works'[a.id.workload].state = "archived"
    BY DEF RecordsKept, ArchivedIsGone
  <2> QED BY <2>1, <2>2 DEF ArchivedIsGone
<1>3. GoneIsUnheld'
  BY DEF RecordsKept, StoredTyped, GoneIsUnheld, Unheld
<1>4. ActionsTyped'
  BY DEF RecordsKept, ActionsTyped
<1> QED BY <1>1, <1>2, <1>3, <1>4 DEF RecordsKept

LEMMA NothingMoves ==
  ASSUME StoredTyped,
         UNCHANGED << works, hosts, compute, schedules, timers, secrets, readers >>
  PROVE  Progresses
BY RecordsAreVersioned, ReadBeforeItself DEF StoredTyped, Progresses

LEMMA RecordsRest ==
  ASSUME RecordsKept, UNCHANGED recordVars
  PROVE  RecordsKept' /\ Progresses
<1>1. Progresses
  BY NothingMoves DEF RecordsKept, recordVars
<1>2. StoredTyped'
  BY DEF RecordsKept, StoredTyped, recordVars
<1> QED BY <1>1, <1>2, RecordsFollow DEF recordVars

(* A sweep goes on and stores nothing.                                      *)
LEMMA SweepGoesOn ==
  ASSUME LifecycleInvariant, NEW r \in Sweeps, NEW x,
         sweeps' = [sweeps EXCEPT ![r] = x], SweepStands(x),
         sweeps[r].pc # "idle", x.lapsed = sweeps[r].lapsed,
         UNCHANGED << Environment, recordVars, jobVars >>
  PROVE  LifecycleInvariant'
<1>1. RecordsKept' /\ Progresses /\ StoredTyped /\ StoredTyped'
  BY RecordsRest DEF LifecycleInvariant, RecordsKept
<1>2. SweepStands(x)'
  BY <1>1, ProgressStands
<1>3. UNCHANGED << day, account, trouble, lease, status >>
  BY DEF Environment, jobVars
<1> QED BY <1>1, <1>2, <1>3, SweepMoves

(* A sweep goes on and tells somebody.                                      *)
LEMMA SweepNotifies ==
  ASSUME LifecycleInvariant, NEW r \in Sweeps, NEW x,
         sweeps' = [sweeps EXCEPT ![r] = x], SweepStands(x),
         sweeps[r].pc # "idle", x.lapsed = sweeps[r].lapsed, notices \subseteq notices',
         UNCHANGED << works, hosts, compute, schedules, timers, secrets, readers, grant, actions >>,
         UNCHANGED << Environment, jobVars >>
  PROVE  LifecycleInvariant'
<1>1. RecordsKept /\ StoredTyped
  BY DEF LifecycleInvariant, RecordsKept
<1>2. Progresses
  BY <1>1, NothingMoves
<1>3. StoredTyped'
  BY <1>1 DEF StoredTyped
<1>4. RecordsKept'
  BY <1>1, <1>2, <1>3, RecordsFollow
<1>5. SweepStands(x)'
  BY <1>1, <1>2, <1>3, ProgressStands
<1>6. UNCHANGED << day, account, trouble, lease, status >>
  BY DEF Environment, jobVars
<1> QED BY <1>2, <1>4, <1>5, <1>6, SweepMoves

BareSteps == {"idle", "start", "begin", "terminal", "release"}

(* A sweep that has read nothing, or has nothing to do any more.            *)
LEMMA BareSweepStands ==
  ASSUME NEW x \in SweepRecord, x.pc \in BareSteps,
         \A p \in x.plan : p.id.why # "warning" => Unheld(p.id.workload),
         \A a \in x.wanted : a.state = "planned"
  PROVE  SweepStands(x) /\ SweepStands(x)'
BY DEF SweepStands, SweepKnows, SweepSees, BareSteps, HoldingSteps, UserSteps, ReadSteps,
   ArchiveSteps, DoingSteps, Unheld

LEMMA IdleSweepIsTyped == IdleSweep \in SweepRecord
BY DaysNamed DEF IdleSweep, SweepRecord, SweepSteps

LEMMA IdleSweepStands == SweepStands(IdleSweep) /\ SweepStands(IdleSweep)'
<1>1. IdleSweep \in SweepRecord /\ IdleSweep.pc \in BareSteps
      /\ IdleSweep.plan = {} /\ IdleSweep.wanted = {}
  BY IdleSweepIsTyped DEF IdleSweep, BareSteps
<1> QED BY <1>1, BareSweepStands

(* The user is done, or whatever a sweep does not handle happened: it ends, *)
(* and has nothing in its hands.                                            *)
LEMMA EndedSweep ==
  ASSUME LifecycleInvariant, NEW r \in Sweeps, EndUser(r)
  PROVE  \E x : /\ sweeps' = [sweeps EXCEPT ![r] = x] /\ x.lapsed = sweeps[r].lapsed
                /\ SweepStands(x) /\ SweepStands(x)'
<1>1. PICK x : x = [IdleSweep EXCEPT !.pc = "terminal", !.lapsed = sweeps[r].lapsed]
  OBVIOUS
<1>2. sweeps[r].lapsed \in BOOLEAN
  BY SweepFacts DEF SweepRecord
<1>3. /\ x \in SweepRecord /\ x.pc = "terminal" /\ x.lapsed = sweeps[r].lapsed
      /\ x.plan = {} /\ x.wanted = {}
  BY ZenonT(60), <1>1, <1>2, IdleSweepIsTyped DEF IdleSweep, SweepRecord, SweepSteps
<1>4. SweepStands(x) /\ SweepStands(x)'
  BY <1>3, BareSweepStands DEF BareSteps
<1> QED BY <1>1, <1>3, <1>4 DEF EndUser, Put

LEMMA UserEnds ==
  ASSUME LifecycleInvariant, NEW r \in Sweeps, EndUser(r), sweeps[r].pc # "idle",
         UNCHANGED << Environment, recordVars, jobVars >>
  PROVE  LifecycleInvariant'
BY EndedSweep, SweepGoesOn

(* A sweep that looks for the actions of an earlier one keeps its clock and *)
(* the holds it has read.                                                   *)
LEMMA RecoveringSweepStands ==
  ASSUME NEW s, SweepKnows(s), s.pc \in HoldingSteps, NEW x,
         x = [IdleSweep EXCEPT !.pc = "recover", !.at = s.at, !.lock = s.lock,
                               !.holds = s.holds, !.lapsed = s.lapsed]
  PROVE  SweepStands(x)
<1>1. /\ s.at \in Days /\ s.lock \in Days \cup {None} /\ s.holds \in SUBSET Workloads
      /\ s.lapsed \in BOOLEAN /\ s.holds \in HoldSets
  BY DEF SweepKnows, SweepRecord
<1>2. /\ x \in SweepRecord /\ x.pc = "recover" /\ x.holds = s.holds
      /\ x.plan = {} /\ x.wanted = {}
  BY ZenonT(60), <1>1, IdleSweepIsTyped DEF IdleSweep, SweepRecord, SweepSteps
<1> QED BY <1>1, <1>2 DEF SweepStands, SweepKnows, SweepSees, HoldingSteps, UserSteps, ReadSteps,
           ArchiveSteps, DoingSteps

LEMMA SweepRecovers ==
  ASSUME LifecycleInvariant, NEW r \in Sweeps, Recover(r), sweeps[r].pc \in HoldingSteps,
         UNCHANGED << Environment, recordVars, jobVars >>
  PROVE  LifecycleInvariant'
<1>1. PICK s : s = sweeps[r]
  OBVIOUS
<1>2. SweepKnows(s) /\ s.pc \in HoldingSteps
  BY <1>1, SweepFacts
<1>3. PICK x : x = [IdleSweep EXCEPT !.pc = "recover", !.at = s.at, !.lock = s.lock,
                                     !.holds = s.holds, !.lapsed = s.lapsed]
  OBVIOUS
<1>4. sweeps' = [sweeps EXCEPT ![r] = x]
  BY <1>1, <1>3 DEF Recover, Put
<1>5. x.lapsed = s.lapsed
  BY <1>3 DEF IdleSweep
<1>6. s.pc # "idle"
  BY <1>2 DEF HoldingSteps, UserSteps, DoingSteps, ReadSteps, ArchiveSteps
<1>7. SweepStands(x)
  BY <1>2, <1>3, RecoveringSweepStands
<1> QED BY <1>1, <1>4, <1>5, <1>6, <1>7, SweepGoesOn

(* What is planned is well formed, and only a warning is planned for a      *)
(* workload that is held.                                                   *)
LEMMA PlanIsTyped ==
  ASSUME NEW user \in UserRecord, NEW work \in WorkRecord, NEW w \in Workloads,
         NEW why \in {"warning", "inactive", "locked"}, NEW eligible \in Nat
  PROVE  /\ Plan(w, work, user, why, eligible) \in Planned
         /\ Plan(w, work, user, why, eligible).id.why = why
         /\ Plan(w, work, user, why, eligible).id.workload = w
<1>1. ActionId(w, work, why, eligible) \in ActionIds
  BY RecordsAreVersioned DEF ActionId, ActionIds
<1>2. user.state \in {"active"} \cup LockedStates
  BY DEF UserRecord
<1>3. [user |-> user, work |-> work] \in Guards
  BY DEF Guards
<1>4. Plan(w, work, user, why, eligible) \in Planned
  BY <1>1, <1>2, <1>3 DEF Plan, Planned
<1> QED BY <1>4 DEF Plan, ActionId

LEMMA PlansAreTyped ==
  ASSUME NEW user \in UserRecord, NEW ws \in [Workloads -> WorkRecord],
         NEW holds \in SUBSET Workloads, NEW lock \in Days \cup {None}, NEW at \in Days,
         NEW p \in PlannedActions(user, ws, holds, lock, at)
  PROVE  p \in Planned /\ (p.id.why # "warning" => p.id.workload \notin holds)
<1>1. CASE p \in LockedCleanups(user, ws, holds, lock, at)
  <2>1. PICK w \in Workloads : /\ p = Plan(w, ws[w], user, "locked", lock + GraceDays)
                               /\ w \notin holds /\ lock # None
    BY <1>1 DEF LockedCleanups
  <2>2. lock + GraceDays \in Nat
    BY <2>1, DaysNamed, LifecycleParameters
  <2>3. ws[w] \in WorkRecord
    OBVIOUS
  <2> QED BY <2>1, <2>2, <2>3, PlanIsTyped
<1>2. CASE p \in InactivityActions(user, ws, holds, at)
  <2>1. PICK w \in Workloads :
           \/ /\ p = Plan(w, ws[w], user, "inactive", ws[w].used + CleanupDays)
              /\ w \notin holds
           \/ p = Plan(w, ws[w], user, "warning", ws[w].used + WarningDays)
    BY <1>2 DEF InactivityActions
  <2>2. ws[w] \in WorkRecord
    OBVIOUS
  <2>3. ws[w].used \in Nat
    BY <2>2, RecordsAreVersioned, DaysNamed
  <2>4. ws[w].used + CleanupDays \in Nat /\ ws[w].used + WarningDays \in Nat
    BY <2>3, LifecycleParameters
  <2> QED BY <2>1, <2>2, <2>4, PlanIsTyped
<1> QED BY <1>1, <1>2 DEF PlannedActions

--------------------------------------------------------------------------------
(* The steps that only read.                                                *)

LEMMA BeginUserKeeps ==
  ASSUME LifecycleInvariant, NEW r \in Sweeps, BeginUser(r)
  PROVE  LifecycleInvariant'
<1>1. PICK s : s = sweeps[r]
  OBVIOUS
<1>2. s \in SweepRecord /\ SweepKnows(s) /\ s.pc = "begin"
  BY <1>1, SweepFacts DEF BeginUser
<1>3. PICK lock : lock = IF Locked(account) THEN account.updated ELSE None
  OBVIOUS
<1>4. lock \in Days \cup {None}
  BY <1>3, SweepFacts DEF ClockKept, UserRecord
<1>5. PICK h \in HoldSets :
         sweeps' = [sweeps EXCEPT ![r] = [s EXCEPT !.pc = "plan", !.holds = h, !.lock = lock]]
  BY <1>1, <1>3 DEF BeginUser, Put
<1>6. PICK x : x = [s EXCEPT !.pc = "plan", !.holds = h, !.lock = lock]
  OBVIOUS
<1>7. /\ x \in SweepRecord /\ x.pc = "plan" /\ x.holds = h /\ x.lapsed = s.lapsed
      /\ x.plan = s.plan /\ x.wanted = s.wanted
  BY ZenonT(60), <1>2, <1>4, <1>5, <1>6, LifecycleParameters DEF SweepRecord, SweepSteps
<1>8. SweepStands(x)
  BY <1>2, <1>5, <1>7 DEF SweepStands, SweepKnows, SweepSees, HoldingSteps, UserSteps, ReadSteps,
     ArchiveSteps, DoingSteps
<1>9. UNCHANGED << Environment, recordVars, jobVars >>
  BY DEF BeginUser
<1> QED BY <1>1, <1>2, <1>5, <1>6, <1>7, <1>8, <1>9, SweepGoesOn

LEMMA HoldsDeniedKeeps ==
  ASSUME LifecycleInvariant, NEW r \in Sweeps, HoldsDenied(r)
  PROVE  LifecycleInvariant'
BY UserEnds DEF HoldsDenied, FailUser

LEMMA ReadAndPlanKeeps ==
  ASSUME LifecycleInvariant, NEW r \in Sweeps, ReadAndPlan(r)
  PROVE  LifecycleInvariant'
<1>1. PICK s : s = sweeps[r]
  OBVIOUS
<1>2. s \in SweepRecord /\ SweepKnows(s) /\ s.pc = "plan"
  BY <1>1, SweepFacts DEF ReadAndPlan
<1>3. s.holds \in HoldSets /\ s.holds \in SUBSET Workloads /\ s.lock \in Days \cup {None} /\ s.at \in Days
  BY <1>2 DEF SweepKnows, HoldingSteps, SweepRecord
<1>4. account \in UserRecord /\ works \in [Workloads -> WorkRecord]
  BY SweepFacts DEF ClockKept, StoredTyped
<1>5. PICK plan : plan = PlannedActions(account, works, s.holds, s.lock, s.at)
  OBVIOUS
<1>6. \A p \in plan : p \in Planned /\ (p.id.why # "warning" => p.id.workload \notin s.holds)
  BY <1>3, <1>4, <1>5, PlansAreTyped
<1>7. PICK wanted : wanted = { [id |-> p.id, reason |-> p.reason, created |-> s.at,
                                state |-> "planned"] : p \in plan }
  OBVIOUS
<1>8. /\ wanted \in SUBSET ActionRecord
      /\ \A a \in wanted : a.state = "planned"
  <2> SUFFICES ASSUME NEW a \in wanted PROVE a \in ActionRecord /\ a.state = "planned"
    OBVIOUS
  <2>1. PICK p \in plan : a = [id |-> p.id, reason |-> p.reason, created |-> s.at, state |-> "planned"]
    BY <1>7
  <2>2. p.id \in ActionIds /\ p.reason \in {"active"} \cup LockedStates
    BY <1>6, <2>1 DEF Planned
  <2> QED BY <1>3, <2>1, <2>2 DEF ActionRecord
<1>9. PICK todo : todo = QuarantineProposals(account, works)
  OBVIOUS
<1>10. todo \in SUBSET Workloads
  BY <1>9 DEF QuarantineProposals
<1>11. PICK next \in {"deny", "persist"} : next = IF Locked(account) THEN "deny" ELSE "persist"
  OBVIOUS
<1>12. PICK user \in UserRecord : user = account
  BY <1>4
<1>13. PICK x : x = [s EXCEPT !.pc = next, !.user = user, !.todo = todo, !.plan = plan, !.wanted = wanted]
  OBVIOUS
<1>14. sweeps' = [sweeps EXCEPT ![r] = x]
  BY <1>1, <1>5, <1>7, <1>9, <1>11, <1>12, <1>13 DEF ReadAndPlan, Put
<1>15. next \in {"deny", "persist"} /\ user \in UserRecord /\ plan \in SUBSET Planned
  BY <1>6, <1>11, <1>12
<1>16. /\ x \in SweepRecord /\ x.pc = next /\ x.holds = s.holds /\ x.lapsed = s.lapsed
       /\ x.user = user /\ x.plan = plan /\ x.wanted = wanted
  BY ZenonT(60), <1>2, <1>8, <1>10, <1>13, <1>15 DEF SweepRecord, SweepSteps
<1>17. \A p \in plan : p.id.why # "warning" => Unheld(p.id.workload)
  BY <1>3, <1>6 DEF Unheld
<1>18. SweepStands(x)
  BY <1>3, <1>8, <1>15, <1>16, <1>17 DEF SweepStands, SweepKnows, SweepSees, HoldingSteps, UserSteps,
     ReadSteps, ArchiveSteps, DoingSteps
<1>19. UNCHANGED << Environment, recordVars, jobVars >>
  BY DEF ReadAndPlan
<1> QED BY <1>1, <1>2, <1>14, <1>16, <1>18, <1>19, SweepGoesOn

LEMMA NextQuarantineKeeps ==
  ASSUME LifecycleInvariant, NEW r \in Sweeps, NextQuarantine(r)
  PROVE  LifecycleInvariant'
<1>1. PICK s : s = sweeps[r]
  OBVIOUS
<1>2. s \in SweepRecord /\ SweepKnows(s) /\ s.pc = "quarantine"
  BY <1>1, SweepFacts DEF NextQuarantine
<1>3. s.holds \in HoldSets /\ s.user \in UserRecord /\ s.todo \in SUBSET Workloads
  BY <1>2 DEF SweepKnows, HoldingSteps, UserSteps, SweepRecord
<1>4. UNCHANGED << Environment, recordVars, jobVars >>
  BY DEF NextQuarantine
<1>5. CASE Goto(r, "revoke")
  <2>1. PICK x : x = [s EXCEPT !.pc = "revoke"]
    OBVIOUS
  <2>2. /\ x \in SweepRecord /\ x.pc = "revoke" /\ x.holds = s.holds /\ x.lapsed = s.lapsed
        /\ x.user = s.user /\ x.plan = s.plan /\ x.wanted = s.wanted
    BY <1>2, <2>1 DEF SweepRecord, SweepSteps
  <2>3. SweepStands(x)
    BY <1>2, <1>3, <2>2 DEF SweepStands, SweepKnows, SweepSees, HoldingSteps, UserSteps, ReadSteps,
       ArchiveSteps, DoingSteps
  <2>4. sweeps' = [sweeps EXCEPT ![r] = x]
    BY <1>1, <1>5, <2>1 DEF Goto
  <2> QED BY <1>1, <1>2, <1>4, <2>2, <2>3, <2>4, SweepGoesOn
<1>6. ASSUME NEW w \in s.todo,
             Put(r, IF works[w].state = "quarantined" THEN [s EXCEPT !.todo = @ \ {w}]
                    ELSE [s EXCEPT !.todo = @ \ {w}, !.pc = "host", !.work = w, !.read = works[w]])
      PROVE  LifecycleInvariant'
  <2>1. w \in Workloads /\ works[w] \in WorkRecord
    BY <1>3, <1>6, SweepFacts DEF StoredTyped
  <2>2. CASE works[w].state = "quarantined"
    <3>1. PICK x : x = [s EXCEPT !.todo = @ \ {w}]
      OBVIOUS
    <3>2. /\ x \in SweepRecord /\ x.pc = "quarantine" /\ x.holds = s.holds /\ x.lapsed = s.lapsed
          /\ x.user = s.user /\ x.plan = s.plan /\ x.wanted = s.wanted
      BY <1>2, <1>3, <3>1 DEF SweepRecord, SweepSteps
    <3>3. SweepStands(x)
      BY <1>2, <1>3, <3>2 DEF SweepStands, SweepKnows, SweepSees, HoldingSteps, UserSteps, ReadSteps,
         ArchiveSteps, DoingSteps
    <3>4. sweeps' = [sweeps EXCEPT ![r] = x]
      BY <1>6, <2>2, <3>1 DEF Put
    <3> QED BY <1>1, <1>2, <1>4, <3>2, <3>3, <3>4, SweepGoesOn
  <2>3. CASE works[w].state # "quarantined"
    <3>1. PICK work \in WorkRecord : work = works[w]
      BY <2>1
    <3>2. PICK x : x = [s EXCEPT !.todo = @ \ {w}, !.pc = "host", !.work = w, !.read = work]
      OBVIOUS
    <3>3. /\ x \in SweepRecord /\ x.pc = "host" /\ x.holds = s.holds /\ x.lapsed = s.lapsed
          /\ x.user = s.user /\ x.plan = s.plan /\ x.wanted = s.wanted
          /\ x.work = w /\ x.read = work
      BY ZenonT(60), <1>2, <1>3, <2>1, <3>1, <3>2 DEF SweepRecord, SweepSteps
    <3>4. ReadBefore(work, works[w]) /\ work \in WorkRecord
      BY <3>1, RecordsAreVersioned, ReadBeforeItself
    <3>5. SweepStands(x)
      BY <1>2, <1>3, <2>1, <3>3, <3>4 DEF SweepStands, SweepKnows, SweepSees, HoldingSteps, UserSteps,
         ReadSteps, ArchiveSteps, DoingSteps
    <3>6. sweeps' = [sweeps EXCEPT ![r] = x]
      BY <1>6, <2>3, <3>1, <3>2 DEF Put
    <3> QED BY <1>1, <1>2, <1>4, <3>3, <3>5, <3>6, SweepGoesOn
  <2> QED BY <2>2, <2>3
<1> QED BY <1>1, <1>5, <1>6 DEF NextQuarantine

LEMMA RecoverActionsKeeps ==
  ASSUME LifecycleInvariant, NEW r \in Sweeps, RecoverActions(r)
  PROVE  LifecycleInvariant'
<1>1. PICK s : s = sweeps[r]
  OBVIOUS
<1>2. s \in SweepRecord /\ SweepKnows(s) /\ s.pc = "recover"
  BY <1>1, SweepFacts DEF RecoverActions
<1>3. s.holds \in HoldSets /\ s.holds \in SUBSET Workloads /\ s.lock \in Days \cup {None} /\ s.at \in Days
  BY <1>2 DEF SweepKnows, HoldingSteps, SweepRecord
<1>4. account \in UserRecord /\ works \in [Workloads -> WorkRecord]
  BY SweepFacts DEF ClockKept, StoredTyped
<1>5. PICK plan : plan = PlannedActions(account, works, s.holds, s.lock, s.at)
  OBVIOUS
<1>6. \A p \in plan : p \in Planned /\ (p.id.why # "warning" => p.id.workload \notin s.holds)
  BY <1>3, <1>4, <1>5, PlansAreTyped
<1>7. UNCHANGED << Environment, recordVars, jobVars >>
  BY DEF RecoverActions
<1>8. CASE FailUser(r)
  BY <1>1, <1>2, <1>7, <1>8, UserEnds DEF FailUser
<1>9. CASE Put(r, [s EXCEPT !.pc = "execute", !.plan = plan])
  <2>1. PICK x : x = [s EXCEPT !.pc = "execute", !.plan = plan]
    OBVIOUS
  <2>2. /\ x \in SweepRecord /\ x.pc = "execute" /\ x.holds = s.holds /\ x.lapsed = s.lapsed
        /\ x.plan = plan /\ x.wanted = s.wanted
    BY ZenonT(60), <1>2, <1>6, <2>1 DEF SweepRecord, SweepSteps
  <2>3. \A p \in plan : p.id.why # "warning" => Unheld(p.id.workload)
    BY <1>3, <1>6 DEF Unheld
  <2>4. SweepStands(x)
    BY <1>2, <1>3, <2>2, <2>3 DEF SweepStands, SweepKnows, SweepSees, HoldingSteps, UserSteps,
       ReadSteps, ArchiveSteps, DoingSteps
  <2>5. sweeps' = [sweeps EXCEPT ![r] = x]
    BY <1>9, <2>1 DEF Put
  <2> QED BY <1>1, <1>2, <1>7, <2>2, <2>4, <2>5, SweepGoesOn
<1> QED BY <1>1, <1>5, <1>8, <1>9 DEF RecoverActions

LEMMA NextActionKeeps ==
  ASSUME LifecycleInvariant, NEW r \in Sweeps, NextAction(r)
  PROVE  LifecycleInvariant'
<1>1. PICK s : s = sweeps[r]
  OBVIOUS
<1>2. s \in SweepRecord /\ SweepKnows(s) /\ s.pc = "execute"
  BY <1>1, SweepFacts DEF NextAction
<1>3. /\ s.holds \in HoldSets /\ s.plan \in SUBSET Planned
      /\ \A p \in s.plan : p.id.why # "warning" => Unheld(p.id.workload)
  BY <1>2 DEF SweepKnows, HoldingSteps, SweepRecord
<1>4. UNCHANGED << Environment, recordVars, jobVars >>
  BY DEF NextAction
<1>5. CASE EndUser(r)
  BY <1>1, <1>2, <1>4, <1>5, UserEnds
<1>6. ASSUME NEW p \in s.plan, Put(r, [s EXCEPT !.plan = @ \ {p}])
      PROVE  LifecycleInvariant'
  <2>1. PICK x : x = [s EXCEPT !.plan = @ \ {p}]
    OBVIOUS
  <2>2. /\ x \in SweepRecord /\ x.pc = "execute" /\ x.holds = s.holds /\ x.lapsed = s.lapsed
        /\ x.plan = s.plan \ {p} /\ x.wanted = s.wanted
    BY <1>2, <1>3, <2>1 DEF SweepRecord, SweepSteps
  <2>3. SweepStands(x)
    BY <1>2, <1>3, <2>2 DEF SweepStands, SweepKnows, SweepSees, HoldingSteps, UserSteps, ReadSteps,
       ArchiveSteps, DoingSteps
  <2>4. sweeps' = [sweeps EXCEPT ![r] = x]
    BY <1>6, <2>1 DEF Put
  <2> QED BY <1>1, <1>2, <1>4, <2>2, <2>3, <2>4, SweepGoesOn
<1>7. ASSUME NEW p \in s.plan, NEW next \in {"finish", "revalidate"},
             next = "revalidate" => p.id.why # "warning",
             next = "finish" => p.id.why = "warning",
             Put(r, [s EXCEPT !.plan = @ \ {p}, !.doing = p, !.pc = next])
      PROVE  LifecycleInvariant'
  <2>1. PICK x : x = [s EXCEPT !.plan = @ \ {p}, !.doing = p, !.pc = next]
    OBVIOUS
  <2>2. p \in Planned /\ next \in {"finish", "revalidate"}
    BY <1>3, <1>7
  <2>3. /\ x \in SweepRecord /\ x.pc = next /\ x.holds = s.holds /\ x.lapsed = s.lapsed
        /\ x.plan = s.plan \ {p} /\ x.wanted = s.wanted /\ x.doing = p
    BY ZenonT(60), <1>2, <1>3, <2>1, <2>2 DEF SweepRecord, SweepSteps
  <2>4. p.id.why # "warning" => Unheld(p.id.workload)
    BY <1>3
  <2>5. SweepStands(x)
    BY <1>2, <1>3, <1>7, <2>2, <2>3, <2>4 DEF SweepStands, SweepKnows, SweepSees, HoldingSteps,
       UserSteps, ReadSteps, ArchiveSteps, DoingSteps
  <2>6. sweeps' = [sweeps EXCEPT ![r] = x]
    BY <1>7, <2>1 DEF Put
  <2> QED BY <1>1, <1>2, <1>4, <2>2, <2>3, <2>5, <2>6, SweepGoesOn
<1>8. \/ EndUser(r)
      \/ \E p \in s.plan :
            \/ Put(r, [s EXCEPT !.plan = @ \ {p}])
            \/ FailUser(r)
            \/ p.id.why = "warning" /\ Put(r, [s EXCEPT !.plan = @ \ {p}, !.doing = p, !.pc = "finish"])
            \/ p.id.why # "warning" /\ Put(r, [s EXCEPT !.plan = @ \ {p}, !.doing = p, !.pc = "revalidate"])
  BY <1>1 DEF NextAction
<1> QED BY <1>5, <1>6, <1>7, <1>8 DEF FailUser

LEMMA ReadAgainKeeps ==
  ASSUME LifecycleInvariant, NEW r \in Sweeps, ReadAgain(r)
  PROVE  LifecycleInvariant'
<1>1. PICK s : s = sweeps[r]
  OBVIOUS
<1>2. s \in SweepRecord /\ SweepKnows(s) /\ s.pc = "reread"
  BY <1>1, SweepFacts DEF ReadAgain
<1>3. /\ s.holds \in HoldSets /\ s.doing \in Planned /\ s.doing.id.why # "warning"
      /\ Unheld(s.doing.id.workload)
  BY <1>2 DEF SweepKnows, HoldingSteps, DoingSteps
<1>4. PICK w \in Workloads : w = s.doing.id.workload
  BY <1>3 DEF Planned, ActionIds
<1>5. PICK work \in WorkRecord : work = works[w]
  BY <1>4, SweepFacts DEF StoredTyped
<1>6. PICK x : x = [s EXCEPT !.pc = "archive", !.work = w, !.read = work]
  OBVIOUS
<1>7. w \in Workloads /\ work \in WorkRecord
  BY <1>4, <1>5
<1>8. /\ x \in SweepRecord /\ x.pc = "archive" /\ x.holds = s.holds /\ x.lapsed = s.lapsed
      /\ x.plan = s.plan /\ x.wanted = s.wanted /\ x.doing = s.doing
      /\ x.work = w /\ x.read = work
  BY ZenonT(60), <1>2, <1>6, <1>7 DEF SweepRecord, SweepSteps
<1>9. ReadBefore(work, works[w])
  BY <1>5, RecordsAreVersioned, ReadBeforeItself
<1>10. SweepStands(x)
  BY <1>2, <1>3, <1>4, <1>7, <1>8, <1>9 DEF SweepStands, SweepKnows, SweepSees, HoldingSteps, UserSteps,
     ReadSteps, ArchiveSteps, DoingSteps
<1>11. UNCHANGED << Environment, recordVars, jobVars >>
  BY DEF ReadAgain
<1>12. sweeps' = [sweeps EXCEPT ![r] = x]
  BY <1>1, <1>4, <1>5, <1>6 DEF ReadAgain, Put
<1> QED BY <1>1, <1>2, <1>8, <1>10, <1>11, <1>12, SweepGoesOn

--------------------------------------------------------------------------------
(* The steps that quarantine.                                               *)

LEMMA DenySessionsKeeps ==
  ASSUME LifecycleInvariant, NEW r \in Sweeps, DenySessions(r)
  PROVE  LifecycleInvariant'
<1>1. PICK s : s = sweeps[r]
  OBVIOUS
<1>2. s \in SweepRecord /\ SweepKnows(s) /\ s.pc = "deny"
  BY <1>1, SweepFacts DEF DenySessions
<1>3. CASE FailUser(r) /\ UNCHANGED notices
  <2>1. UNCHANGED << Environment, recordVars, jobVars >>
    BY <1>3 DEF DenySessions, recordVars
  <2> QED BY <1>1, <1>2, <1>3, <2>1, UserEnds DEF FailUser
<1>4. CASE notices' = notices \cup {<< "deny", account.state >>} /\ Goto(r, "quarantine")
  <2>1. PICK x : x = [s EXCEPT !.pc = "quarantine"]
    OBVIOUS
  <2>2. /\ x \in SweepRecord /\ x.pc = "quarantine" /\ x.holds = s.holds /\ x.lapsed = s.lapsed
        /\ x.user = s.user /\ x.plan = s.plan /\ x.wanted = s.wanted
    BY <1>2, <2>1 DEF SweepRecord, SweepSteps
  <2>3. SweepStands(x)
    BY <1>2, <2>2 DEF SweepStands, SweepKnows, SweepSees, HoldingSteps, UserSteps, ReadSteps,
       ArchiveSteps, DoingSteps
  <2>4. sweeps' = [sweeps EXCEPT ![r] = x]
    BY <1>1, <1>4, <2>1 DEF Goto
  <2> QED BY <1>1, <1>2, <1>4, <2>2, <2>3, <2>4, SweepNotifies DEF DenySessions, recordVars
<1> QED BY <1>3, <1>4 DEF DenySessions

(* A sweep goes on and stores something other than a workload or an action. *)
LEMMA SweepStores ==
  ASSUME LifecycleInvariant, NEW r \in Sweeps, NEW x,
         sweeps' = [sweeps EXCEPT ![r] = x], SweepStands(x)',
         sweeps[r].pc # "idle", x.lapsed = sweeps[r].lapsed,
         StoredTyped', Progresses, UNCHANGED << works, actions, notices >>,
         \A w \in Workloads : compute[w] /\ ~compute'[w] => Unheld(w),
         UNCHANGED << Environment, jobVars >>
  PROVE  LifecycleInvariant'
<1>1. RecordsKept
  BY DEF LifecycleInvariant
<1>2. RecordsKept'
  BY <1>1, RecordsFollow
<1>3. UNCHANGED << day, account, trouble, lease, status >>
  BY DEF Environment, jobVars
<1> QED BY <1>2, <1>3, SweepMoves

LEMMA StatesNamed ==
  /\ {"disabled", "retired"} \subseteq BindingStates
  /\ {"quarantined", "archived"} \subseteq WorkloadStates
  /\ {"disabled", "archived"} \subseteq ScheduleStates
  /\ WorkloadMoves["archived"] = {"planned"} /\ ScheduleMoves["archived"] = {}
BY DEF BindingStates, BindingMoves, WorkloadStates, WorkloadMoves, ScheduleStates, ScheduleMoves

LEMMA DisableHostKeeps ==
  ASSUME LifecycleInvariant, NEW r \in Sweeps, DisableHost(r)
  PROVE  LifecycleInvariant'
<1>1. PICK s : s = sweeps[r]
  OBVIOUS
<1>2. s \in SweepRecord /\ SweepKnows(s) /\ SweepSees(s) /\ s.pc = "host"
  BY <1>1, SweepFacts DEF DisableHost
<1>3. PICK w \in Workloads : w = s.work
  BY <1>2 DEF SweepKnows, ReadSteps
<1>4. StoredTyped
  BY SweepFacts
<1>5. CASE FailUser(r) /\ UNCHANGED hosts
  <2>1. UNCHANGED << Environment, recordVars, jobVars >>
    BY <1>5 DEF DisableHost, recordVars
  <2> QED BY <1>1, <1>2, <1>5, <2>1, UserEnds DEF FailUser
<1>6. PICK attached : attached = {x \in Secrets : w \in AttachedTo[x]}
  OBVIOUS
<1>7. PICK seen \in [Secrets -> SecretRecord] : seen = secrets
  BY <1>4 DEF StoredTyped
<1>8. CASE /\ hosts' = IF w \in WebApps /\ hosts[w] = "active"
                         THEN [hosts EXCEPT ![w] = "disabled"] ELSE hosts
           /\ Put(r, [s EXCEPT !.pc = "unbind", !.cuts = attached, !.attached = attached, !.seen = seen])
  <2>1. /\ hosts' \in [WebApps -> BindingStates]
        /\ \A v \in WebApps : hosts'[v] = IF v = w /\ hosts[w] = "active" THEN "disabled" ELSE hosts[v]
    BY <1>4, <1>8, StatesNamed DEF StoredTyped
  <2>2. UNCHANGED << works, compute, schedules, timers, secrets, readers, grant, actions, notices >>
        /\ UNCHANGED << Environment, jobVars >>
    BY DEF DisableHost
  <2>3. StoredTyped'
    BY <1>4, <2>1, <2>2 DEF StoredTyped
  <2>4. Progresses
    BY <1>4, <2>1, <2>2, RecordsAreVersioned, ReadBeforeItself DEF StoredTyped, Progresses
  <2>5. PICK x : x = [s EXCEPT !.pc = "unbind", !.cuts = attached, !.attached = attached, !.seen = seen]
    OBVIOUS
  <2>6. attached \in SUBSET Secrets /\ seen \in [Secrets -> SecretRecord]
    BY <1>6, <1>7
  <2>7. /\ x \in SweepRecord /\ x.pc = "unbind" /\ x.holds = s.holds /\ x.lapsed = s.lapsed
        /\ x.plan = s.plan /\ x.wanted = s.wanted /\ x.user = s.user
        /\ x.work = w /\ x.read = s.read /\ x.cuts = attached /\ x.attached = attached /\ x.seen = seen
    BY ZenonT(60), <1>2, <1>3, <2>5, <2>6 DEF SweepRecord, SweepSteps
  <2>8. \A y \in attached : w \in AttachedTo[y]
    BY <1>6
  <2>9. SweepKnows(x)
    BY <1>2, <1>3, <2>6, <2>7, <2>8 DEF SweepKnows, HoldingSteps, UserSteps, ReadSteps, ArchiveSteps, DoingSteps
  <2>10. ReadBefore(s.read, works'[w])
    BY <1>2, <1>3, <2>2 DEF SweepSees, ReadSteps
  <2>11. Down(w)'
    BY <2>1 DEF Down
  <2>12. \A y \in Secrets : y \in attached \/ Unread(w, y)'
    BY <1>6 DEF Unread
  <2>13. \A y \in Secrets : /\ seen[y].state # "active" => secrets'[y].state = "locked"
                            /\ w \in AttachedTo[y] => y \in attached
    BY <1>4, <1>6, <1>7, <2>2 DEF StoredTyped, SecretRecord
  <2>14. SweepSees(x)'
    BY <2>7, <2>10, <2>11, <2>12, <2>13 DEF SweepSees, ReadSteps, ArchiveSteps
  <2>15. SweepStands(x)'
    BY <2>9, <2>14 DEF SweepStands, SweepKnows, Unheld
  <2>16. sweeps' = [sweeps EXCEPT ![r] = x]
    BY <1>8, <2>5 DEF Put
  <2> QED BY <1>1, <1>2, <2>2, <2>3, <2>4, <2>7, <2>15, <2>16, SweepStores
<1> QED BY <1>1, <1>3, <1>5, <1>6, <1>7, <1>8 DEF DisableHost

LEMMA UnbindKeeps ==
  ASSUME LifecycleInvariant, NEW r \in Sweeps, Unbind(r)
  PROVE  LifecycleInvariant'
<1>1. PICK s : s = sweeps[r]
  OBVIOUS
<1>2. s \in SweepRecord /\ SweepKnows(s) /\ SweepSees(s) /\ s.pc = "unbind"
  BY <1>1, SweepFacts DEF Unbind
<1>3. PICK w \in Workloads : w = s.work
  BY <1>2 DEF SweepKnows, ReadSteps
<1>4. StoredTyped
  BY SweepFacts
<1>5. UNCHANGED << works, hosts, compute, schedules, timers, secrets, grant, actions, notices >>
      /\ UNCHANGED << Environment, jobVars >>
  BY DEF Unbind
<1>6. CASE FailUser(r) /\ UNCHANGED readers
  <2>1. UNCHANGED << Environment, recordVars, jobVars >>
    BY <1>5, <1>6 DEF recordVars
  <2> QED BY <1>1, <1>2, <1>6, <2>1, UserEnds DEF FailUser
<1>7. CASE s.cuts = {} /\ Goto(r, "lock") /\ UNCHANGED readers
  <2>1. PICK x : x = [s EXCEPT !.pc = "lock"]
    OBVIOUS
  <2>2. /\ x \in SweepRecord /\ x.pc = "lock" /\ x.holds = s.holds /\ x.lapsed = s.lapsed
        /\ x.plan = s.plan /\ x.wanted = s.wanted /\ x.user = s.user
        /\ x.work = s.work /\ x.read = s.read /\ x.attached = s.attached /\ x.seen = s.seen
    BY <1>2, <2>1 DEF SweepRecord, SweepSteps
  <2>3. SweepKnows(x)
    BY <1>2, <2>2 DEF SweepKnows, HoldingSteps, UserSteps, ReadSteps, ArchiveSteps, DoingSteps
  <2>4. SweepSees(x)
    BY <1>2, <1>7, <2>2 DEF SweepSees, ReadSteps, ArchiveSteps
  <2>5. SweepStands(x)
    BY <2>3, <2>4 DEF SweepStands
  <2>6. UNCHANGED << Environment, recordVars, jobVars >>
    BY <1>5, <1>7 DEF recordVars
  <2>7. sweeps' = [sweeps EXCEPT ![r] = x]
    BY <1>1, <1>7, <2>1 DEF Goto
  <2> QED BY <1>1, <1>2, <2>2, <2>5, <2>6, <2>7, SweepGoesOn
<1>8. ASSUME NEW x \in s.cuts, Unbindable(x, w),
             readers' = [readers EXCEPT ![x] = AttachedTo[x] \ {w}],
             Put(r, [s EXCEPT !.cuts = @ \ {x}])
      PROVE  LifecycleInvariant'
  <2>1. x \in Secrets /\ s.cuts \in SUBSET Secrets
    BY <1>2, <1>8 DEF SweepRecord
  <2>2. AttachedTo[x] \in SUBSET Workloads
    BY <2>1, LifecycleParameters
  <2>3. /\ readers' \in [Secrets -> SUBSET Workloads]
        /\ \A y \in Secrets : readers'[y] = IF y = x THEN AttachedTo[x] \ {w} ELSE readers[y]
    BY <1>4, <1>8, <2>1, <2>2 DEF StoredTyped
  <2>4. StoredTyped'
    BY <1>4, <1>5, <2>3 DEF StoredTyped
  <2>5. \A y \in Secrets : \A v \in AttachedTo[y] : v \notin readers[y] => v \notin readers'[y]
    BY <1>8, <2>3 DEF Unbindable
  <2>6. Progresses
    BY <1>4, <1>5, <2>5, RecordsAreVersioned, ReadBeforeItself DEF StoredTyped, Progresses
  <2>7. PICK z : z = [s EXCEPT !.cuts = @ \ {x}]
    OBVIOUS
  <2>8. /\ z \in SweepRecord /\ z.pc = "unbind" /\ z.holds = s.holds /\ z.lapsed = s.lapsed
        /\ z.plan = s.plan /\ z.wanted = s.wanted /\ z.user = s.user /\ z.cuts = s.cuts \ {x}
        /\ z.work = w /\ z.read = s.read /\ z.attached = s.attached /\ z.seen = s.seen
    BY <1>2, <1>3, <2>1, <2>7 DEF SweepRecord
  <2>9. SweepKnows(z)
    BY <1>2, <1>3, <2>8 DEF SweepKnows, HoldingSteps, UserSteps, ReadSteps, ArchiveSteps, DoingSteps
  <2>11. SweepStands(s)'
    BY <1>2, <1>4, <2>4, <2>6, ProgressStands DEF SweepStands
  <2>12. \A v \in Secrets : v \in z.cuts \/ Unread(w, v)'
    <3>1. \A v \in Secrets : v \in s.cuts \/ Unread(w, v)'
      BY <1>2, <1>3, <2>11 DEF SweepStands, SweepSees
    <3>2. Unread(w, x)'
      BY <2>1, <2>3 DEF Unread
    <3> QED BY <2>8, <3>1, <3>2
  <2>13. SweepSees(z)'
    BY <1>2, <1>3, <2>8, <2>11, <2>12 DEF SweepStands, SweepSees, ReadSteps, ArchiveSteps
  <2>14. SweepStands(z)'
    BY <2>9, <2>13 DEF SweepStands, SweepKnows, Unheld
  <2>15. sweeps' = [sweeps EXCEPT ![r] = z]
    BY <1>8, <2>7 DEF Put
  <2> QED BY <1>1, <1>2, <1>5, <2>4, <2>6, <2>8, <2>14, <2>15, SweepStores
<1> QED BY <1>1, <1>3, <1>6, <1>7, <1>8 DEF Unbind

LEMMA LockSecretKeeps ==
  ASSUME LifecycleInvariant, NEW r \in Sweeps, LockSecret(r)
  PROVE  LifecycleInvariant'
<1>1. PICK s : s = sweeps[r]
  OBVIOUS
<1>2. s \in SweepRecord /\ SweepKnows(s) /\ SweepSees(s) /\ s.pc = "lock"
  BY <1>1, SweepFacts DEF LockSecret
<1>3. PICK w \in Workloads : w = s.work
  BY <1>2 DEF SweepKnows, ReadSteps
<1>4. StoredTyped
  BY SweepFacts
<1>5. UNCHANGED << works, hosts, compute, schedules, timers, readers, grant, actions, notices >>
      /\ UNCHANGED << Environment, jobVars >>
  BY DEF LockSecret
<1>6. CASE FailUser(r) /\ UNCHANGED secrets
  <2>1. UNCHANGED << Environment, recordVars, jobVars >>
    BY <1>5, <1>6 DEF recordVars
  <2> QED BY <1>1, <1>2, <1>6, <2>1, UserEnds DEF FailUser
<1>7. CASE s.attached = {} /\ Put(r, [s EXCEPT !.pc = "save", !.seen = None]) /\ UNCHANGED secrets
  <2>1. PICK x : x = [s EXCEPT !.pc = "save", !.seen = None]
    OBVIOUS
  <2>2. /\ x \in SweepRecord /\ x.pc = "save" /\ x.holds = s.holds /\ x.lapsed = s.lapsed
        /\ x.plan = s.plan /\ x.wanted = s.wanted /\ x.user = s.user
        /\ x.work = s.work /\ x.read = s.read
    BY ZenonT(60), <1>2, <2>1 DEF SweepRecord, SweepSteps
  <2>3. SweepKnows(x)
    BY <1>2, <2>2 DEF SweepKnows, HoldingSteps, UserSteps, ReadSteps, ArchiveSteps, DoingSteps
  <2>4. SweepSees(x)
    BY <1>2, <1>7, <2>2 DEF SweepSees, ReadSteps, ArchiveSteps
  <2>5. SweepStands(x)
    BY <2>3, <2>4 DEF SweepStands
  <2>6. UNCHANGED << Environment, recordVars, jobVars >>
    BY <1>5, <1>7 DEF recordVars
  <2>7. sweeps' = [sweeps EXCEPT ![r] = x]
    BY <1>7, <2>1 DEF Put
  <2> QED BY <1>1, <1>2, <2>2, <2>5, <2>6, <2>7, SweepGoesOn
<1>8. ASSUME NEW x \in s.attached, Put(r, [s EXCEPT !.attached = @ \ {x}]),
             \/ s.seen[x].state # "active" /\ UNCHANGED secrets
             \/ secrets' = [secrets EXCEPT ![x] = [state |-> "locked", version |-> @.version + 1]]
      PROVE  LifecycleInvariant'
  <2>1. x \in Secrets /\ s.attached \in SUBSET Secrets
    BY <1>2, <1>8 DEF SweepRecord
  <2>2. secrets[x].version + 1 \in Nat /\ secrets \in [Secrets -> SecretRecord]
    BY <1>4, <2>1, RecordsAreVersioned DEF StoredTyped
  <2>3. [state |-> "locked", version |-> secrets[x].version + 1] \in SecretRecord
    BY <2>2 DEF SecretRecord
  <2>4. /\ secrets' \in [Secrets -> SecretRecord]
        /\ \A y \in Secrets : secrets[y].state = "locked" => secrets'[y].state = "locked"
        /\ secrets'[x].state = "locked"
    <3>1. CASE s.seen[x].state # "active" /\ UNCHANGED secrets
      BY <1>2, <2>1, <2>2, <3>1 DEF SweepSees
    <3>2. CASE secrets' = [secrets EXCEPT ![x] = [state |-> "locked", version |-> @.version + 1]]
      BY <2>1, <2>2, <2>3, <3>2
    <3> QED BY <1>8, <3>1, <3>2
  <2>5. StoredTyped'
    BY <1>4, <1>5, <2>4 DEF StoredTyped
  <2>6. Progresses
    BY <1>4, <1>5, <2>4, RecordsAreVersioned, ReadBeforeItself DEF StoredTyped, Progresses
  <2>7. PICK z : z = [s EXCEPT !.attached = @ \ {x}]
    OBVIOUS
  <2>8. /\ z \in SweepRecord /\ z.pc = "lock" /\ z.holds = s.holds /\ z.lapsed = s.lapsed
        /\ z.plan = s.plan /\ z.wanted = s.wanted /\ z.user = s.user
        /\ z.work = w /\ z.read = s.read /\ z.attached = s.attached \ {x} /\ z.seen = s.seen
    BY <1>2, <1>3, <2>1, <2>7 DEF SweepRecord
  <2>9. SweepKnows(z)
    BY <1>2, <1>3, <2>8 DEF SweepKnows, HoldingSteps, UserSteps, ReadSteps, ArchiveSteps, DoingSteps
  <2>10. SweepStands(s)'
    BY <1>2, <1>4, <2>5, <2>6, ProgressStands DEF SweepStands
  <2>11. \A y \in Secrets :
            /\ z.seen[y].state # "active" => secrets'[y].state = "locked"
            /\ w \in AttachedTo[y] => y \in z.attached \/ secrets'[y].state = "locked"
    BY <1>2, <1>3, <2>4, <2>8, <2>10 DEF SweepStands, SweepSees
  <2>12. SweepSees(z)'
    BY <1>2, <1>3, <2>8, <2>10, <2>11 DEF SweepStands, SweepSees, ReadSteps, ArchiveSteps
  <2>13. SweepStands(z)'
    BY <2>9, <2>12 DEF SweepStands, SweepKnows, Unheld
  <2>14. sweeps' = [sweeps EXCEPT ![r] = z]
    BY <1>8, <2>7 DEF Put
  <2> QED BY <1>1, <1>2, <1>5, <2>5, <2>6, <2>8, <2>13, <2>14, SweepStores
<1>9. \/ FailUser(r) /\ UNCHANGED secrets
      \/ s.attached = {} /\ Put(r, [s EXCEPT !.pc = "save", !.seen = None]) /\ UNCHANGED secrets
      \/ \E x \in s.attached :
            /\ Put(r, [s EXCEPT !.attached = @ \ {x}])
            /\ \/ s.seen[x].state # "active" /\ UNCHANGED secrets
               \/ secrets' = [secrets EXCEPT ![x] = [state |-> "locked", version |-> @.version + 1]]
  BY <1>1 DEF LockSecret
<1> QED BY <1>6, <1>7, <1>8, <1>9

(* A workload is saved: not out of the archive, quarantined only when it is *)
(* cut off, and archived only when nothing of it is left.                   *)
LEMMA WorkSaved ==
  ASSUME RecordsKept, NEW w \in Workloads, NEW rec \in WorkRecord,
         works' = [works EXCEPT ![w] = rec], ReadBefore(works[w], rec),
         works[w].state = "archived" => rec.state = "archived",
         rec.state = "quarantined" =>
            Down(w) /\ \A x \in Secrets : Unread(w, x) /\ (w \in AttachedTo[x] => secrets[x].state = "locked"),
         rec.state = "archived" => Erased(w) /\ Retired(w) /\ Unscheduled(w),
         UNCHANGED << hosts, compute, schedules, timers, secrets, readers, grant, actions, notices >>
  PROVE  RecordsKept' /\ Progresses /\ StoredTyped'
<1>1. StoredTyped
  BY DEF RecordsKept
<1>2. \A v \in Workloads : works'[v] = IF v = w THEN rec ELSE works[v]
  BY <1>1 DEF StoredTyped
<1>3. StoredTyped'
  BY <1>1, <1>2 DEF StoredTyped
<1>4. Progresses
  BY <1>1, <1>2, RecordsAreVersioned, ReadBeforeItself DEF StoredTyped, Progresses
<1>5. QuarantinedIsCut'
  BY <1>2 DEF RecordsKept, QuarantinedIsCut, Down, Unread
<1>6. ArchivedIsGone'
  <2>1. \A v \in Workloads : works'[v].state = "archived" =>
           /\ ~compute[v]
           /\ v \in WebApps => hosts[v] = "retired"
           /\ v \in Scripts => schedules[v].state = "archived" /\ timers[v] = "deleted"
    BY <1>2 DEF RecordsKept, ArchivedIsGone, Erased, Retired, Unscheduled
  <2>2. \A a \in actions : a.id.workload \in Workloads
    BY DEF RecordsKept, ActionsTyped, ActionRecord, ActionIds
  <2>3. \A a \in actions : a.state = "executed" =>
           IF a.id.why = "warning" THEN << "owner", a.id.workload >> \in notices
                                   ELSE works'[a.id.workload].state = "archived"
    BY <1>2, <2>2 DEF RecordsKept, ArchivedIsGone
  <2> QED BY <2>1, <2>3 DEF ArchivedIsGone
<1>7. GoneIsUnheld' /\ ActionsTyped'
  BY DEF RecordsKept, GoneIsUnheld, Unheld, ActionsTyped
<1> QED BY <1>3, <1>4, <1>5, <1>6, <1>7 DEF RecordsKept

LEMMA AdvanceIsTyped ==
  ASSUME NEW rec \in WorkRecord, NEW target \in WorkloadStates, NEW at \in Days
  PROVE  /\ Advance(rec, target, at) \in WorkRecord
         /\ Advance(rec, target, at).state = target
         /\ ReadBefore(rec, Advance(rec, target, at))
<1>1. PICK x : x = Advance(rec, target, at)
  OBVIOUS
<1>2. x = [rec EXCEPT !.state = target, !.version = @ + 1, !.updated = at]
  BY <1>1 DEF Advance
<1>3. rec.version \in Nat /\ rec.version + 1 \in Nat
  BY RecordsAreVersioned
<1>4. x = [state |-> target, version |-> rec.version + 1, updated |-> at, used |-> rec.used]
  BY <1>2 DEF WorkRecord
<1>5. x \in WorkRecord
  BY <1>3, <1>4 DEF WorkRecord
<1>6. ReadBefore(rec, x)
  BY <1>3, <1>4 DEF ReadBefore
<1> QED BY <1>1, <1>4, <1>5, <1>6

LEMMA ScheduleAdvanceIsTyped ==
  ASSUME NEW rec \in ScheduleRecord, NEW target \in ScheduleStates, NEW at \in Days
  PROVE  /\ Advance(rec, target, at) \in ScheduleRecord
         /\ Advance(rec, target, at).state = target
         /\ ReadBefore(rec, Advance(rec, target, at))
<1>1. PICK x : x = Advance(rec, target, at)
  OBVIOUS
<1>2. x = [rec EXCEPT !.state = target, !.version = @ + 1, !.updated = at]
  BY <1>1 DEF Advance
<1>3. rec.version \in Nat /\ rec.version + 1 \in Nat
  BY RecordsAreVersioned
<1>4. x = [state |-> target, version |-> rec.version + 1, updated |-> at]
  BY <1>2 DEF ScheduleRecord
<1>5. x \in ScheduleRecord
  BY <1>3, <1>4 DEF ScheduleRecord
<1>6. ReadBefore(rec, x)
  BY <1>3, <1>4 DEF ReadBefore
<1> QED BY <1>1, <1>4, <1>5, <1>6

LEMMA QuarantineWorkloadKeeps ==
  ASSUME LifecycleInvariant, NEW r \in Sweeps, QuarantineWorkload(r)
  PROVE  LifecycleInvariant'
<1>1. PICK s : s = sweeps[r]
  OBVIOUS
<1>2. s \in SweepRecord /\ SweepKnows(s) /\ SweepSees(s) /\ s.pc = "save"
  BY <1>1, SweepFacts DEF QuarantineWorkload
<1>3. PICK w \in Workloads : w = s.work
  BY <1>2 DEF SweepKnows, ReadSteps
<1>4. /\ s.read \in WorkRecord /\ s.at \in Days /\ s.holds \in HoldSets /\ s.user \in UserRecord
      /\ ReadBefore(s.read, works[w])
  BY <1>2, <1>3 DEF SweepKnows, SweepSees, ReadSteps, HoldingSteps, UserSteps, SweepRecord
<1>5. UNCHANGED << hosts, compute, schedules, timers, secrets, readers, grant, actions, notices >>
      /\ UNCHANGED << Environment, jobVars >>
  BY DEF QuarantineWorkload
<1>6. CASE FailUser(r) /\ UNCHANGED works
  <2>1. UNCHANGED << Environment, recordVars, jobVars >>
    BY <1>5, <1>6 DEF recordVars
  <2> QED BY <1>1, <1>2, <1>6, <2>1, UserEnds DEF FailUser
<1>7. CASE Recover(r) /\ UNCHANGED works
  <2>1. UNCHANGED << Environment, recordVars, jobVars >>
    BY <1>5, <1>7 DEF recordVars
  <2>2. s.pc \in HoldingSteps
    BY <1>2 DEF HoldingSteps, UserSteps, ReadSteps
  <2> QED BY <1>1, <1>7, <2>1, <2>2, SweepRecovers
<1>8. CASE /\ "quarantined" \in WorkloadMoves[s.read.state]
           /\ works[w].version = s.read.version
           /\ works' = [works EXCEPT ![w] = Advance(s.read, "quarantined", s.at)]
           /\ Put(r, [s EXCEPT !.pc = "quarantine", !.work = None, !.read = None])
  <2>1. works[w] = s.read /\ works[w].state # "archived"
    BY <1>4, <1>8, StatesNamed DEF ReadBefore
  <2>2. PICK rec : rec = Advance(s.read, "quarantined", s.at)
    OBVIOUS
  <2>3. rec \in WorkRecord /\ rec.state = "quarantined" /\ ReadBefore(works[w], rec)
    BY <1>4, <2>1, <2>2, StatesNamed, AdvanceIsTyped
  <2>4. Down(w) /\ \A x \in Secrets : Unread(w, x) /\ (w \in AttachedTo[x] => secrets[x].state = "locked")
    BY <1>2, <1>3 DEF SweepSees
  <2>5. RecordsKept
    BY SweepFacts
  <2>6. works' = [works EXCEPT ![w] = rec]
    BY <1>8, <2>2
  <2>7. RecordsKept' /\ Progresses /\ StoredTyped'
    BY <1>5, <2>1, <2>3, <2>4, <2>5, <2>6, WorkSaved
  <2>8. PICK x : x = [s EXCEPT !.pc = "quarantine", !.work = None, !.read = None]
    OBVIOUS
  <2>9. /\ x \in SweepRecord /\ x.pc = "quarantine" /\ x.holds = s.holds /\ x.lapsed = s.lapsed
        /\ x.plan = s.plan /\ x.wanted = s.wanted /\ x.user = s.user
    BY ZenonT(60), <1>2, <2>8 DEF SweepRecord, SweepSteps
  <2>10. SweepStands(x)'
    BY <1>2, <1>4, <2>9 DEF SweepStands, SweepKnows, SweepSees, HoldingSteps, UserSteps, ReadSteps,
       ArchiveSteps, DoingSteps, Unheld
  <2>11. sweeps' = [sweeps EXCEPT ![r] = x]
    BY <1>8, <2>8 DEF Put
  <2>12. UNCHANGED << day, account, trouble, lease, status >>
    BY <1>5 DEF Environment, jobVars
  <2> QED BY <1>1, <1>2, <2>7, <2>9, <2>10, <2>11, <2>12, SweepMoves
<1> QED BY <1>1, <1>3, <1>6, <1>7, <1>8 DEF QuarantineWorkload

LEMMA RevokeGrantKeeps ==
  ASSUME LifecycleInvariant, NEW r \in Sweeps, RevokeGrant(r)
  PROVE  LifecycleInvariant'
<1>1. PICK s : s = sweeps[r]
  OBVIOUS
<1>2. s \in SweepRecord /\ SweepKnows(s) /\ s.pc = "revoke"
  BY <1>1, SweepFacts DEF RevokeGrant
<1>3. StoredTyped
  BY SweepFacts
<1>4. UNCHANGED << works, hosts, compute, schedules, timers, secrets, readers, actions, notices >>
      /\ UNCHANGED << Environment, jobVars >>
  BY DEF RevokeGrant
<1>5. CASE FailUser(r) /\ UNCHANGED grant
  <2>1. UNCHANGED << Environment, recordVars, jobVars >>
    BY <1>4, <1>5 DEF recordVars
  <2> QED BY <1>1, <1>2, <1>5, <2>1, UserEnds DEF FailUser
<1>6. PICK todo : todo = DisableProposals(s.user, schedules)
  OBVIOUS
<1>7. CASE grant' = FALSE /\ Put(r, [s EXCEPT !.pc = "schedule", !.todo = todo])
  <2>1. todo \subseteq Scripts
    BY <1>6 DEF DisableProposals
  <2>2. PICK x : x = [s EXCEPT !.pc = "schedule", !.todo = todo]
    OBVIOUS
  <2>3. /\ x \in SweepRecord /\ x.pc = "schedule" /\ x.holds = s.holds /\ x.lapsed = s.lapsed
        /\ x.user = s.user /\ x.plan = s.plan /\ x.wanted = s.wanted /\ x.todo = todo
    BY ZenonT(60), <1>2, <2>1, <2>2 DEF SweepRecord, SweepSteps, Workloads
  <2>4. SweepStands(x)'
    BY <1>2, <2>1, <2>3 DEF SweepStands, SweepKnows, SweepSees, HoldingSteps, UserSteps, ReadSteps,
       ArchiveSteps, DoingSteps, Unheld
  <2>5. sweeps' = [sweeps EXCEPT ![r] = x]
    BY <1>7, <2>2 DEF Put
  <2>6. StoredTyped' /\ Progresses
    BY <1>3, <1>4, <1>7, NothingMoves DEF StoredTyped
  <2> QED BY <1>1, <1>2, <1>4, <2>3, <2>4, <2>5, <2>6, SweepStores
<1> QED BY <1>1, <1>5, <1>6, <1>7 DEF RevokeGrant

LEMMA TimersMove ==
  ASSUME StoredTyped, UNCHANGED << works, hosts, compute, schedules, secrets, readers, grant >>,
         timers' \in [Scripts -> {"enabled", "paused", "deleted"}],
         \A w \in Scripts : timers[w] = "deleted" => timers'[w] = "deleted"
  PROVE  StoredTyped' /\ Progresses
BY RecordsAreVersioned, ReadBeforeItself DEF StoredTyped, Progresses

LEMMA PauseTimerKeeps ==
  ASSUME LifecycleInvariant, NEW r \in Sweeps, PauseTimer(r)
  PROVE  LifecycleInvariant'
<1>1. PICK s : s = sweeps[r]
  OBVIOUS
<1>2. s \in SweepRecord /\ SweepKnows(s) /\ s.pc = "schedule"
  BY <1>1, SweepFacts DEF PauseTimer
<1>3. /\ s.todo \in SUBSET Scripts /\ Scripts \subseteq Workloads
      /\ s.holds \in HoldSets /\ s.user \in UserRecord
  BY <1>2 DEF SweepKnows, Workloads, HoldingSteps, UserSteps
<1>4. StoredTyped
  BY SweepFacts
<1>5. UNCHANGED << works, hosts, compute, schedules, secrets, readers, grant, actions, notices >>
      /\ UNCHANGED << Environment, jobVars >>
  BY DEF PauseTimer
<1>6. CASE FailUser(r) /\ UNCHANGED timers
  <2>1. UNCHANGED << Environment, recordVars, jobVars >>
    BY <1>5, <1>6 DEF recordVars
  <2> QED BY <1>1, <1>2, <1>6, <2>1, UserEnds DEF FailUser
<1>7. CASE Put(r, [s EXCEPT !.pc = "admin", !.work = None]) /\ UNCHANGED timers
  <2>1. PICK x : x = [s EXCEPT !.pc = "admin", !.work = None]
    OBVIOUS
  <2>2. /\ x \in SweepRecord /\ x.pc = "admin" /\ x.holds = s.holds /\ x.lapsed = s.lapsed
        /\ x.user = s.user /\ x.plan = s.plan /\ x.wanted = s.wanted
    BY ZenonT(60), <1>2, <2>1 DEF SweepRecord, SweepSteps
  <2>3. SweepStands(x)
    BY <1>2, <1>3, <2>2 DEF SweepStands, SweepKnows, SweepSees, HoldingSteps, UserSteps, ReadSteps,
       ArchiveSteps, DoingSteps
  <2>4. UNCHANGED << Environment, recordVars, jobVars >>
    BY <1>5, <1>7 DEF recordVars
  <2>5. sweeps' = [sweeps EXCEPT ![r] = x]
    BY <1>7, <2>1 DEF Put
  <2> QED BY <1>1, <1>2, <2>2, <2>3, <2>4, <2>5, SweepGoesOn
<1>8. ASSUME NEW w \in s.todo, Put(r, [s EXCEPT !.todo = @ \ {w}]), UNCHANGED timers
      PROVE  LifecycleInvariant'
  <2>1. PICK x : x = [s EXCEPT !.todo = @ \ {w}]
    OBVIOUS
  <2>2. /\ x \in SweepRecord /\ x.pc = "schedule" /\ x.holds = s.holds /\ x.lapsed = s.lapsed
        /\ x.user = s.user /\ x.plan = s.plan /\ x.wanted = s.wanted /\ x.todo = s.todo \ {w}
    BY <1>2, <1>3, <2>1 DEF SweepRecord, SweepSteps
  <2>3. SweepStands(x)
    BY <1>2, <1>3, <2>2 DEF SweepStands, SweepKnows, SweepSees, HoldingSteps, UserSteps, ReadSteps,
       ArchiveSteps, DoingSteps
  <2>4. UNCHANGED << Environment, recordVars, jobVars >>
    BY <1>5, <1>8 DEF recordVars
  <2>5. sweeps' = [sweeps EXCEPT ![r] = x]
    BY <1>8, <2>1 DEF Put
  <2> QED BY <1>1, <1>2, <2>2, <2>3, <2>4, <2>5, SweepGoesOn
<1>9. ASSUME NEW w \in s.todo,
             timers' = IF timers[w] = "enabled" THEN [timers EXCEPT ![w] = "paused"] ELSE timers,
             Put(r, [s EXCEPT !.pc = "disable", !.work = w, !.schedule = schedules[w], !.todo = @ \ {w}])
      PROVE  LifecycleInvariant'
  <2>1. w \in Scripts /\ w \in Workloads
    BY <1>3
  <2>2. PICK rec \in ScheduleRecord : rec = schedules[w]
    BY <1>4, <2>1 DEF StoredTyped
  <2>3. rec \in ScheduleRecord
    BY <2>2
  <2>4. /\ timers' \in [Scripts -> {"enabled", "paused", "deleted"}]
        /\ \A v \in Scripts : timers[v] = "deleted" => timers'[v] = "deleted"
    BY <1>4, <1>9, <2>1 DEF StoredTyped
  <2>5. StoredTyped' /\ Progresses
    BY <1>4, <1>5, <2>4, TimersMove
  <2>6. PICK x : x = [s EXCEPT !.pc = "disable", !.work = w, !.schedule = rec, !.todo = @ \ {w}]
    OBVIOUS
  <2>7. /\ x \in SweepRecord /\ x.pc = "disable" /\ x.holds = s.holds /\ x.lapsed = s.lapsed
        /\ x.user = s.user /\ x.plan = s.plan /\ x.wanted = s.wanted /\ x.todo = s.todo \ {w}
        /\ x.work = w /\ x.schedule = rec
    BY ZenonT(60), <1>2, <1>3, <2>1, <2>3, <2>6 DEF SweepRecord, SweepSteps
  <2>8. ReadBefore(rec, schedules'[w])
    BY <1>5, <2>2, RecordsAreVersioned, ReadBeforeItself
  <2>9. SweepStands(x)'
    BY <1>2, <1>3, <2>1, <2>3, <2>7, <2>8 DEF SweepStands, SweepKnows, SweepSees, HoldingSteps,
       UserSteps, ReadSteps, ArchiveSteps, DoingSteps, Unheld
  <2>10. sweeps' = [sweeps EXCEPT ![r] = x]
    BY <1>9, <2>2, <2>6 DEF Put
  <2> QED BY <1>1, <1>2, <1>5, <2>5, <2>7, <2>9, <2>10, SweepStores
<1>10. \/ FailUser(r) /\ UNCHANGED timers
       \/ Put(r, [s EXCEPT !.pc = "admin", !.work = None]) /\ UNCHANGED timers
       \/ \E w \in s.todo :
             \/ Put(r, [s EXCEPT !.todo = @ \ {w}]) /\ UNCHANGED timers
             \/ /\ timers' = IF timers[w] = "enabled" THEN [timers EXCEPT ![w] = "paused"] ELSE timers
                /\ Put(r, [s EXCEPT !.pc = "disable", !.work = w, !.schedule = schedules[w],
                                    !.todo = @ \ {w}])
  BY <1>1 DEF PauseTimer
<1> QED BY <1>6, <1>7, <1>8, <1>9, <1>10

(* A schedule is saved only over the version that was read, and the table   *)
(* of moves has nothing for what is archived.                               *)
LEMMA ScheduleSaved ==
  ASSUME LifecycleInvariant, NEW r \in Sweeps, sweeps[r].pc \in {"disable", "archived"},
         NEW target \in {"disabled", "archived"}, NEW next, SaveSchedule(r, target, next),
         UNCHANGED << works, hosts, compute, timers, secrets, readers, grant >>
  PROVE  \/ FailUser(r) /\ UNCHANGED schedules
         \/ target = "disabled" /\ Recover(r) /\ UNCHANGED schedules
         \/ /\ Put(r, [sweeps[r] EXCEPT !.pc = next, !.schedule = None])
            /\ schedules'[sweeps[r].work].state = target
            /\ StoredTyped' /\ Progresses
<1>1. PICK s : s = sweeps[r]
  OBVIOUS
<1>2. s \in SweepRecord /\ SweepKnows(s) /\ SweepSees(s) /\ StoredTyped /\ s.pc \in {"disable", "archived"}
  BY <1>1, SweepFacts
<1>3. PICK w \in Scripts : w = s.work
  BY <1>2 DEF SweepKnows
<1>4. /\ s.schedule \in ScheduleRecord /\ s.at \in Days /\ target \in ScheduleStates
      /\ ReadBefore(s.schedule, schedules[w])
  BY <1>2, <1>3, StatesNamed DEF SweepKnows, SweepSees, SweepRecord
<1>5. CASE /\ target \in ScheduleMoves[s.schedule.state]
           /\ schedules[w].version = s.schedule.version
           /\ schedules' = [schedules EXCEPT ![w] = Advance(s.schedule, target, s.at)]
           /\ Put(r, [s EXCEPT !.pc = next, !.schedule = None])
  <2>1. schedules[w] = s.schedule /\ schedules[w].state # "archived"
    BY <1>4, <1>5, StatesNamed DEF ReadBefore
  <2>2. PICK rec : rec = Advance(s.schedule, target, s.at)
    OBVIOUS
  <2>3. rec \in ScheduleRecord /\ rec.state = target /\ ReadBefore(schedules[w], rec)
    BY <1>4, <2>1, <2>2, ScheduleAdvanceIsTyped
  <2>4. \A v \in Scripts : schedules'[v] = IF v = w THEN rec ELSE schedules[v]
    BY <1>2, <1>5, <2>2 DEF StoredTyped
  <2>5. schedules' \in [Scripts -> ScheduleRecord]
    BY <1>2, <1>5, <2>2, <2>3 DEF StoredTyped
  <2>6. StoredTyped'
    BY <1>2, <2>5 DEF StoredTyped
  <2>7. Progresses
    BY <1>2, <2>1, <2>3, <2>4, RecordsAreVersioned, ReadBeforeItself DEF StoredTyped, Progresses
  <2> QED BY <1>1, <1>3, <1>5, <2>3, <2>4, <2>6, <2>7
<1> QED BY <1>1, <1>3, <1>5 DEF SaveSchedule

LEMMA DisableScheduleKeeps ==
  ASSUME LifecycleInvariant, NEW r \in Sweeps, DisableSchedule(r)
  PROVE  LifecycleInvariant'
<1>1. PICK s : s = sweeps[r]
  OBVIOUS
<1>2. s \in SweepRecord /\ SweepKnows(s) /\ s.pc = "disable"
  BY <1>1, SweepFacts DEF DisableSchedule
<1>3. UNCHANGED << works, hosts, compute, timers, secrets, readers, grant, actions, notices >>
      /\ UNCHANGED << Environment, jobVars >> /\ SaveSchedule(r, "disabled", "schedule")
  BY DEF DisableSchedule
<1>4. CASE FailUser(r) /\ UNCHANGED schedules
  <2>1. UNCHANGED << Environment, recordVars, jobVars >>
    BY <1>3, <1>4 DEF recordVars
  <2> QED BY <1>1, <1>2, <1>4, <2>1, UserEnds DEF FailUser
<1>5. CASE Recover(r) /\ UNCHANGED schedules
  <2>1. UNCHANGED << Environment, recordVars, jobVars >>
    BY <1>3, <1>5 DEF recordVars
  <2>2. s.pc \in HoldingSteps
    BY <1>2 DEF HoldingSteps, UserSteps
  <2> QED BY <1>1, <1>5, <2>1, <2>2, SweepRecovers
<1>6. CASE Put(r, [s EXCEPT !.pc = "schedule", !.schedule = None]) /\ StoredTyped' /\ Progresses
  <2>1. PICK x : x = [s EXCEPT !.pc = "schedule", !.schedule = None]
    OBVIOUS
  <2>2. /\ x \in SweepRecord /\ x.pc = "schedule" /\ x.holds = s.holds /\ x.lapsed = s.lapsed
        /\ x.user = s.user /\ x.plan = s.plan /\ x.wanted = s.wanted /\ x.todo = s.todo
    BY ZenonT(60), <1>2, <2>1 DEF SweepRecord, SweepSteps
  <2>3. SweepStands(x)'
    BY <1>2, <2>2 DEF SweepStands, SweepKnows, SweepSees, HoldingSteps, UserSteps, ReadSteps,
       ArchiveSteps, DoingSteps, Unheld
  <2>4. sweeps' = [sweeps EXCEPT ![r] = x]
    BY <1>6, <2>1 DEF Put
  <2> QED BY <1>1, <1>2, <1>3, <1>6, <2>2, <2>3, <2>4, SweepStores
<1> QED BY <1>1, <1>2, <1>3, <1>4, <1>5, <1>6, ScheduleSaved

LEMMA AdminDecisionsKeeps ==
  ASSUME LifecycleInvariant, NEW r \in Sweeps, AdminDecisions(r)
  PROVE  LifecycleInvariant'
<1>1. PICK s : s = sweeps[r]
  OBVIOUS
<1>2. s \in SweepRecord /\ SweepKnows(s) /\ s.pc = "admin"
  BY <1>1, SweepFacts DEF AdminDecisions
<1>3. CASE FailUser(r) /\ UNCHANGED notices
  <2>1. UNCHANGED << Environment, recordVars, jobVars >>
    BY <1>3 DEF AdminDecisions, recordVars
  <2> QED BY <1>1, <1>2, <1>3, <2>1, UserEnds DEF FailUser
<1>4. CASE notices' = notices \cup ({"admin", "transfer"} \X {account.state}) /\ Goto(r, "persist")
  <2>1. PICK x : x = [s EXCEPT !.pc = "persist"]
    OBVIOUS
  <2>2. /\ x \in SweepRecord /\ x.pc = "persist" /\ x.holds = s.holds /\ x.lapsed = s.lapsed
        /\ x.plan = s.plan /\ x.wanted = s.wanted
    BY <1>2, <2>1 DEF SweepRecord, SweepSteps
  <2>3. SweepStands(x)
    BY <1>2, <2>2 DEF SweepStands, SweepKnows, SweepSees, HoldingSteps, UserSteps, ReadSteps,
       ArchiveSteps, DoingSteps
  <2>4. sweeps' = [sweeps EXCEPT ![r] = x]
    BY <1>1, <1>4, <2>1 DEF Goto
  <2>5. notices \subseteq notices'
    BY <1>4
  <2> QED BY <1>1, <1>2, <2>2, <2>3, <2>4, <2>5, SweepNotifies DEF AdminDecisions
<1> QED BY <1>3, <1>4 DEF AdminDecisions

--------------------------------------------------------------------------------
(* The steps that save an action.                                           *)

(* What it takes for an action to count as executed.                        *)
Carried(a) == IF a.id.why = "warning" THEN << "owner", a.id.workload >> \in notices
                                      ELSE works[a.id.workload].state = "archived"

LEMMA ActionsMove ==
  ASSUME LifecycleInvariant, NEW r \in Sweeps, NEW x,
         sweeps' = [sweeps EXCEPT ![r] = x], SweepStands(x),
         sweeps[r].pc # "idle", x.lapsed = sweeps[r].lapsed,
         UNCHANGED << works, hosts, compute, schedules, timers, secrets, readers, grant >>,
         ActionsTyped', \A a \in actions' : a.state = "executed" => Carried(a)',
         UNCHANGED << Environment, jobVars >>
  PROVE  LifecycleInvariant'
<1>1. RecordsKept /\ StoredTyped
  BY SweepFacts
<1>2. Progresses /\ StoredTyped'
  BY <1>1, NothingMoves DEF StoredTyped
<1>3. QuarantinedIsCut' /\ GoneIsUnheld'
  BY <1>1 DEF RecordsKept, QuarantinedIsCut, GoneIsUnheld, Unheld
<1>4. ArchivedIsGone'
  BY <1>1 DEF RecordsKept, ArchivedIsGone, Carried
<1>5. RecordsKept'
  BY <1>2, <1>3, <1>4 DEF RecordsKept
<1>6. SweepStands(x)'
  BY <1>1, <1>2, ProgressStands
<1>7. UNCHANGED << day, account, trouble, lease, status >>
  BY DEF Environment, jobVars
<1> QED BY <1>2, <1>5, <1>6, <1>7, SweepMoves

LEMMA CarriedActions ==
  ASSUME RecordsKept, UNCHANGED works, notices \subseteq notices',
         NEW a \in actions, a.state = "executed"
  PROVE  Carried(a)'
BY DEF RecordsKept, ArchivedIsGone, Carried

LEMMA ActionIsSet ==
  ASSUME ActionsTyped, NEW id, NEW state \in {"planned", "executed", "cancelled"},
         SetAction(id, state)
  PROVE  /\ ActionsTyped'
         /\ \A a \in actions' : IF a.id = id THEN a.state = state ELSE a \in actions
<1>1. \A a \in actions' : \E b \in actions :
         /\ a.id = b.id /\ a \in ActionRecord
         /\ IF a.id = id THEN a = [b EXCEPT !.state = state] /\ a.state = state ELSE a = b
  <2> SUFFICES ASSUME NEW a \in actions'
               PROVE  \E b \in actions :
                         /\ a.id = b.id /\ a \in ActionRecord
                         /\ IF a.id = id THEN a = [b EXCEPT !.state = state] /\ a.state = state ELSE a = b
    OBVIOUS
  <2>1. PICK b \in actions : a = IF b.id = id THEN [b EXCEPT !.state = state] ELSE b
    BY DEF SetAction
  <2>2. b \in ActionRecord
    BY DEF ActionsTyped
  <2> QED BY <2>1, <2>2 DEF ActionRecord
<1>2. \A a, b \in actions' : a.id = b.id => a = b
  BY <1>1 DEF ActionsTyped
<1> QED BY <1>1, <1>2 DEF ActionsTyped

LEMMA PersistActionKeeps ==
  ASSUME LifecycleInvariant, NEW r \in Sweeps, PersistAction(r)
  PROVE  LifecycleInvariant'
<1>1. PICK s : s = sweeps[r]
  OBVIOUS
<1>2. s \in SweepRecord /\ SweepKnows(s) /\ s.pc = "persist"
  BY <1>1, SweepFacts DEF PersistAction
<1>3. s.holds \in HoldSets /\ s.wanted \in SUBSET ActionRecord /\ \A a \in s.wanted : a.state = "planned"
  BY <1>2 DEF SweepKnows, HoldingSteps, SweepRecord
<1>4. UNCHANGED << works, hosts, compute, schedules, timers, secrets, readers, grant, notices >>
      /\ UNCHANGED << Environment, jobVars >>
  BY DEF PersistAction
<1>5. CASE Put(r, [s EXCEPT !.pc = "execute", !.user = None]) /\ UNCHANGED actions
  <2>1. PICK x : x = [s EXCEPT !.pc = "execute", !.user = None]
    OBVIOUS
  <2>2. /\ x \in SweepRecord /\ x.pc = "execute" /\ x.holds = s.holds /\ x.lapsed = s.lapsed
        /\ x.plan = s.plan /\ x.wanted = s.wanted
    BY ZenonT(60), <1>2, <2>1 DEF SweepRecord, SweepSteps
  <2>3. SweepStands(x)
    BY <1>2, <1>3, <2>2 DEF SweepStands, SweepKnows, SweepSees, HoldingSteps, UserSteps, ReadSteps,
       ArchiveSteps, DoingSteps
  <2>4. UNCHANGED << Environment, recordVars, jobVars >>
    BY <1>4, <1>5 DEF recordVars
  <2>5. sweeps' = [sweeps EXCEPT ![r] = x]
    BY <1>5, <2>1 DEF Put
  <2> QED BY <1>1, <1>2, <2>2, <2>3, <2>4, <2>5, SweepGoesOn
<1>6. CASE Recover(r) /\ UNCHANGED actions
  <2>1. UNCHANGED << Environment, recordVars, jobVars >>
    BY <1>4, <1>6 DEF recordVars
  <2>2. s.pc \in HoldingSteps
    BY <1>2 DEF HoldingSteps
  <2> QED BY <1>1, <1>6, <2>1, <2>2, SweepRecovers
<1>7. ASSUME NEW a \in s.wanted, Persistable(a), actions' = actions \cup {a},
             Put(r, [s EXCEPT !.wanted = @ \ {a}])
      PROVE  LifecycleInvariant'
  <2>1. a \in ActionRecord /\ a.state = "planned"
    BY <1>3, <1>7
  <2>2. PICK x : x = [s EXCEPT !.wanted = @ \ {a}]
    OBVIOUS
  <2>3. /\ x \in SweepRecord /\ x.pc = "persist" /\ x.holds = s.holds /\ x.lapsed = s.lapsed
        /\ x.plan = s.plan /\ x.wanted = s.wanted \ {a}
    BY <1>2, <1>3, <2>2 DEF SweepRecord
  <2>4. SweepStands(x)
    BY <1>2, <1>3, <2>3 DEF SweepStands, SweepKnows, SweepSees, HoldingSteps, UserSteps, ReadSteps,
       ArchiveSteps, DoingSteps
  <2>5. ActionsTyped'
    BY <1>7, <2>1, SweepFacts DEF ActionsTyped, Persistable, Stored
  <2>6. \A b \in actions' : b.state = "executed" => Carried(b)'
    BY <1>4, <1>7, <2>1, SweepFacts, CarriedActions
  <2>7. sweeps' = [sweeps EXCEPT ![r] = x]
    BY <1>7, <2>2 DEF Put
  <2> QED BY <1>1, <1>2, <1>4, <2>3, <2>4, <2>5, <2>6, <2>7, ActionsMove
<1> QED BY <1>1, <1>5, <1>6, <1>7 DEF PersistAction

(* The action at hand is saved, and the next one comes.                     *)
LEMMA DoneSweep ==
  ASSUME LifecycleInvariant, NEW r \in Sweeps, sweeps[r].pc \in DoingSteps, NEW x,
         x = [sweeps[r] EXCEPT !.pc = "execute", !.doing = None]
  PROVE  SweepStands(x) /\ x.lapsed = sweeps[r].lapsed
<1>1. PICK s : s = sweeps[r]
  OBVIOUS
<1>2. s \in SweepRecord /\ SweepKnows(s)
  BY <1>1, SweepFacts
<1>3. x = [s EXCEPT !.pc = "execute", !.doing = None]
  BY <1>1
<1>4. /\ x \in SweepRecord /\ x.pc = "execute" /\ x.holds = s.holds /\ x.lapsed = s.lapsed
      /\ x.plan = s.plan /\ x.wanted = s.wanted
  <2>1. x \in SweepRecord
    BY <1>2, <1>3 DEF SweepRecord, SweepSteps
  <2>2. x.pc = "execute" /\ x.holds = s.holds /\ x.lapsed = s.lapsed
    BY <1>2, <1>3 DEF SweepRecord
  <2>3. x.plan = s.plan /\ x.wanted = s.wanted
    BY <1>2, <1>3 DEF SweepRecord
  <2> QED BY <2>1, <2>2, <2>3
<1>5. s.pc \in DoingSteps
  BY <1>1
<1>6. SweepStands(x)
  BY <1>2, <1>4, <1>5 DEF SweepStands, SweepKnows, SweepSees, HoldingSteps, UserSteps, ReadSteps,
     ArchiveSteps, DoingSteps
<1> QED BY <1>1, <1>4, <1>6

LEMMA RevalidateKeeps ==
  ASSUME LifecycleInvariant, NEW r \in Sweeps, Revalidate(r)
  PROVE  LifecycleInvariant'
<1>1. PICK s : s = sweeps[r]
  OBVIOUS
<1>2. s \in SweepRecord /\ SweepKnows(s) /\ s.pc = "revalidate" /\ s.pc \in DoingSteps
  BY <1>1, SweepFacts DEF Revalidate, DoingSteps
<1>3. UNCHANGED << works, hosts, compute, schedules, timers, secrets, readers, grant, notices >>
      /\ UNCHANGED << Environment, jobVars >>
  BY DEF Revalidate
<1>4. CASE FailUser(r) /\ UNCHANGED actions
  <2>1. UNCHANGED << Environment, recordVars, jobVars >>
    BY <1>3, <1>4 DEF recordVars
  <2> QED BY <1>1, <1>2, <1>4, <2>1, UserEnds DEF FailUser
<1>5. CASE Goto(r, "reread") /\ UNCHANGED actions
  <2>1. PICK x : x = [s EXCEPT !.pc = "reread"]
    OBVIOUS
  <2>2. /\ x \in SweepRecord /\ x.pc = "reread" /\ x.holds = s.holds /\ x.lapsed = s.lapsed
        /\ x.plan = s.plan /\ x.wanted = s.wanted /\ x.doing = s.doing
    BY <1>2, <2>1 DEF SweepRecord, SweepSteps
  <2>3. SweepStands(x)
    BY <1>2, <2>2 DEF SweepStands, SweepKnows, SweepSees, HoldingSteps, UserSteps, ReadSteps,
       ArchiveSteps, DoingSteps
  <2>4. UNCHANGED << Environment, recordVars, jobVars >>
    BY <1>3, <1>5 DEF recordVars
  <2>5. sweeps' = [sweeps EXCEPT ![r] = x]
    BY <1>1, <1>5, <2>1 DEF Goto
  <2> QED BY <1>1, <1>2, <2>2, <2>3, <2>4, <2>5, SweepGoesOn
<1>6. CASE /\ SetAction(s.doing.id, "cancelled")
           /\ Put(r, [s EXCEPT !.pc = "execute", !.doing = None])
  <2>1. PICK x : x = [s EXCEPT !.pc = "execute", !.doing = None]
    OBVIOUS
  <2>2. SweepStands(x) /\ x.lapsed = s.lapsed
    BY <1>1, <1>2, <2>1, DoneSweep
  <2>3. ActionsTyped' /\ \A a \in actions' : a.state = "executed" => a \in actions
    BY <1>6, SweepFacts, ActionIsSet
  <2>4. \A a \in actions' : a.state = "executed" => Carried(a)'
    BY <1>3, <2>3, SweepFacts, CarriedActions
  <2>5. sweeps' = [sweeps EXCEPT ![r] = x]
    BY <1>6, <2>1 DEF Put
  <2> QED BY <1>1, <1>2, <1>3, <2>2, <2>3, <2>4, <2>5, ActionsMove
<1> QED BY <1>1, <1>4, <1>5, <1>6 DEF Revalidate

LEMMA FinishActionKeeps ==
  ASSUME LifecycleInvariant, NEW r \in Sweeps, FinishAction(r)
  PROVE  LifecycleInvariant'
<1>1. PICK s : s = sweeps[r]
  OBVIOUS
<1>2. s \in SweepRecord /\ SweepKnows(s) /\ SweepSees(s) /\ s.pc = "finish" /\ s.pc \in DoingSteps
  BY <1>1, SweepFacts DEF FinishAction, DoingSteps
<1>3. UNCHANGED << works, hosts, compute, schedules, timers, secrets, readers, grant >>
      /\ UNCHANGED << Environment, jobVars >>
  BY DEF FinishAction
<1>4. /\ notices \subseteq notices'
      /\ s.doing.id.why = "warning" /\ account.state = "active" =>
            << "owner", s.doing.id.workload >> \in notices'
  BY <1>1 DEF FinishAction
<1>5. CASE FailUser(r) /\ UNCHANGED actions
  <2>1. PICK x : /\ sweeps' = [sweeps EXCEPT ![r] = x] /\ x.lapsed = sweeps[r].lapsed
                 /\ SweepStands(x)
    BY <1>5, EndedSweep DEF FailUser
  <2> QED BY <1>1, <1>2, <1>3, <1>4, <1>5, <2>1, SweepNotifies
<1>6. CASE /\ s.doing.id.why = "warning" => account.state = "active"
           /\ SetAction(s.doing.id, "executed")
           /\ Put(r, [s EXCEPT !.pc = "execute", !.doing = None])
  <2>1. PICK x : x = [s EXCEPT !.pc = "execute", !.doing = None]
    OBVIOUS
  <2>2. SweepStands(x) /\ x.lapsed = s.lapsed
    BY <1>1, <1>2, <2>1, DoneSweep
  <2>3. ActionsTyped' /\ \A a \in actions' : a.id = s.doing.id \/ a \in actions
    BY <1>6, SweepFacts, ActionIsSet
  <2>4. \A a \in actions' : a.state = "executed" => Carried(a)'
    <3> SUFFICES ASSUME NEW a \in actions', a.state = "executed" PROVE Carried(a)'
      OBVIOUS
    <3>1. CASE a.id = s.doing.id
      BY <1>2, <1>3, <1>4, <1>6, <3>1 DEF SweepSees, Carried
    <3>2. CASE a \in actions
      BY <1>3, <1>4, <3>2, SweepFacts, CarriedActions
    <3> QED BY <2>3, <3>1, <3>2
  <2>5. sweeps' = [sweeps EXCEPT ![r] = x]
    BY <1>6, <2>1 DEF Put
  <2> QED BY <1>1, <1>2, <1>3, <2>2, <2>3, <2>4, <2>5, ActionsMove
<1> QED BY <1>1, <1>5, <1>6 DEF FinishAction

--------------------------------------------------------------------------------
(* The steps that archive.                                                  *)

LEMMA ArchivingFacts ==
  ASSUME LifecycleInvariant, NEW r \in Sweeps, sweeps[r].pc \in ArchiveSteps, NEW s, s = sweeps[r]
  PROVE  /\ s \in SweepRecord /\ SweepKnows(s) /\ SweepSees(s) /\ s.pc # "idle"
         /\ s.work \in Workloads /\ s.read \in WorkRecord /\ s.holds \in HoldSets
         /\ s.doing \in Planned /\ s.doing.id.why # "warning" /\ s.doing.id.workload = s.work
         /\ Unheld(s.work) /\ ReadBefore(s.read, works[s.work])
<1>1. s \in SweepRecord /\ SweepKnows(s) /\ SweepSees(s) /\ s.pc \in ArchiveSteps
  BY SweepFacts
<1>2. s.pc \in DoingSteps \ {"finish"} /\ s.pc \in HoldingSteps /\ s.pc # "idle"
  BY <1>1 DEF ArchiveSteps, DoingSteps, HoldingSteps
<1> QED BY <1>1, <1>2 DEF SweepKnows, SweepSees

(* An archiving sweep goes on to its next step.                             *)
LEMMA ArchivingSweepKnows ==
  ASSUME LifecycleInvariant, NEW r \in Sweeps, sweeps[r].pc \in ArchiveSteps, NEW s, s = sweeps[r],
         NEW next \in {"delete", "retire", "mark"}, NEW x, x = [s EXCEPT !.pc = next]
  PROVE  /\ SweepKnows(x) /\ x.pc = next /\ x.lapsed = s.lapsed /\ x.work = s.work /\ x.read = s.read
<1>1. s \in SweepRecord /\ SweepKnows(s) /\ s.pc \in ArchiveSteps
  BY SweepFacts
<1>2. /\ s.work \in Workloads /\ s.read \in WorkRecord /\ s.holds \in HoldSets
      /\ s.doing \in Planned /\ s.doing.id.why # "warning" /\ s.doing.id.workload = s.work
      /\ Unheld(s.work)
  BY ArchivingFacts
<1>3. next \in SweepSteps
  BY DEF SweepSteps
<1>4. /\ x \in SweepRecord /\ x.pc = next /\ x.holds = s.holds /\ x.lapsed = s.lapsed
      /\ x.plan = s.plan /\ x.wanted = s.wanted /\ x.doing = s.doing
      /\ x.work = s.work /\ x.read = s.read
  BY <1>1, <1>3 DEF SweepRecord
<1>5. SweepKnows(x)
  BY <1>1, <1>2, <1>4 DEF SweepKnows, HoldingSteps, UserSteps, ReadSteps, ArchiveSteps, DoingSteps
<1> QED BY <1>4, <1>5

LEMMA DeleteTimerKeeps ==
  ASSUME LifecycleInvariant, NEW r \in Sweeps, DeleteTimer(r)
  PROVE  LifecycleInvariant'
<1>1. PICK s : s = sweeps[r]
  OBVIOUS
<1>2. s.pc = "archive" /\ sweeps[r].pc \in ArchiveSteps
  BY <1>1 DEF DeleteTimer, ArchiveSteps
<1>3. /\ s \in SweepRecord /\ SweepKnows(s) /\ SweepSees(s)
      /\ s.work \in Workloads /\ s.read \in WorkRecord /\ s.holds \in HoldSets
      /\ s.doing \in Planned /\ s.doing.id.why # "warning" /\ s.doing.id.workload = s.work
      /\ Unheld(s.work) /\ ReadBefore(s.read, works[s.work]) /\ StoredTyped
  BY <1>1, <1>2, ArchivingFacts, SweepFacts
<1>4. PICK w \in Workloads : w = s.work
  BY <1>3
<1>5. UNCHANGED << works, hosts, compute, schedules, secrets, readers, grant, actions, notices >>
      /\ UNCHANGED << Environment, jobVars >>
  BY DEF DeleteTimer
<1>6. CASE FailUser(r) /\ UNCHANGED timers
  <2>1. UNCHANGED << Environment, recordVars, jobVars >>
    BY <1>5, <1>6 DEF recordVars
  <2> QED BY <1>1, <1>2, <1>6, <2>1, UserEnds DEF FailUser
<1>7. CASE /\ w \in WebApps \/ schedules[w].state = "archived"
           /\ Goto(r, "delete") /\ UNCHANGED timers
  <2>1. PICK x : x = [s EXCEPT !.pc = "delete"]
    OBVIOUS
  <2>2. SweepKnows(x) /\ x.pc = "delete" /\ x.lapsed = s.lapsed /\ x.work = w /\ x.read = s.read
    BY <1>1, <1>2, <1>4, <2>1, ArchivingSweepKnows
  <2>3. Unscheduled(w)
    BY <1>7, LifecycleParameters DEF Unscheduled
  <2>4. SweepSees(x)
    BY <1>3, <1>4, <2>2, <2>3 DEF SweepSees, ReadSteps
  <2>5. UNCHANGED << Environment, recordVars, jobVars >>
    BY <1>5, <1>7 DEF recordVars
  <2>6. sweeps' = [sweeps EXCEPT ![r] = x]
    BY <1>1, <1>7, <2>1 DEF Goto
  <2> QED BY <1>1, <1>2, <2>2, <2>4, <2>5, <2>6, SweepGoesOn DEF SweepStands
<1>8. CASE /\ ~(w \in WebApps \/ schedules[w].state = "archived")
           /\ timers' = [timers EXCEPT ![w] = "deleted"]
           /\ Put(r, [s EXCEPT !.pc = "archived", !.schedule = schedules[w]])
  <2>1. w \in Scripts
    BY <1>4, <1>8 DEF Workloads
  <2>2. /\ timers' \in [Scripts -> {"enabled", "paused", "deleted"}]
        /\ \A v \in Scripts : timers[v] = "deleted" => timers'[v] = "deleted"
    BY <1>3, <1>8, <2>1 DEF StoredTyped
  <2>3. StoredTyped' /\ Progresses
    BY <1>3, <1>5, <2>2, TimersMove
  <2>4. PICK rec \in ScheduleRecord : rec = schedules[w]
    BY <1>3, <2>1 DEF StoredTyped
  <2>5. rec \in ScheduleRecord
    BY <2>4
  <2>6. PICK x : x = [s EXCEPT !.pc = "archived", !.schedule = rec]
    OBVIOUS
  <2>7. /\ x \in SweepRecord /\ x.pc = "archived" /\ x.holds = s.holds /\ x.lapsed = s.lapsed
        /\ x.plan = s.plan /\ x.wanted = s.wanted /\ x.doing = s.doing
        /\ x.work = w /\ x.read = s.read /\ x.schedule = rec
    BY ZenonT(60), <1>3, <1>4, <2>5, <2>6 DEF SweepRecord, SweepSteps
  <2>8. ReadBefore(rec, schedules'[w]) /\ ReadBefore(s.read, works'[w])
    BY <1>3, <1>4, <1>5, <2>4, RecordsAreVersioned, ReadBeforeItself
  <2>9. SweepKnows(x)
    BY <1>3, <1>4, <2>1, <2>5, <2>7 DEF SweepKnows, HoldingSteps, UserSteps, ReadSteps,
       ArchiveSteps, DoingSteps
  <2>10. SweepStands(x)'
    BY <2>7, <2>8, <2>9 DEF SweepStands, SweepKnows, SweepSees, ReadSteps, Unheld
  <2>11. sweeps' = [sweeps EXCEPT ![r] = x]
    BY <1>8, <2>4, <2>6 DEF Put
  <2> QED BY <1>1, <1>2, <1>5, <2>3, <2>7, <2>10, <2>11, SweepStores
<1> QED BY <1>1, <1>4, <1>6, <1>7, <1>8 DEF DeleteTimer

LEMMA ArchiveScheduleKeeps ==
  ASSUME LifecycleInvariant, NEW r \in Sweeps, ArchiveSchedule(r)
  PROVE  LifecycleInvariant'
<1>1. PICK s : s = sweeps[r]
  OBVIOUS
<1>2. s.pc = "archived" /\ sweeps[r].pc \in ArchiveSteps
  BY <1>1 DEF ArchiveSchedule, ArchiveSteps
<1>3. /\ s \in SweepRecord /\ SweepKnows(s) /\ SweepSees(s)
      /\ s.work \in Workloads /\ s.read \in WorkRecord /\ s.holds \in HoldSets
      /\ s.doing \in Planned /\ s.doing.id.why # "warning" /\ s.doing.id.workload = s.work
      /\ Unheld(s.work) /\ ReadBefore(s.read, works[s.work])
  BY <1>1, <1>2, ArchivingFacts
<1>4. UNCHANGED << works, hosts, compute, timers, secrets, readers, grant, actions, notices >>
      /\ UNCHANGED << Environment, jobVars >> /\ SaveSchedule(r, "archived", "delete")
  BY DEF ArchiveSchedule
<1>5. CASE FailUser(r) /\ UNCHANGED schedules
  <2>1. UNCHANGED << Environment, recordVars, jobVars >>
    BY <1>4, <1>5 DEF recordVars
  <2> QED BY <1>1, <1>2, <1>5, <2>1, UserEnds DEF FailUser
<1>6. CASE /\ Put(r, [s EXCEPT !.pc = "delete", !.schedule = None])
           /\ schedules'[s.work].state = "archived" /\ StoredTyped' /\ Progresses
  <2>1. PICK x : x = [s EXCEPT !.pc = "delete", !.schedule = None]
    OBVIOUS
  <2>2. /\ x \in SweepRecord /\ x.pc = "delete" /\ x.holds = s.holds /\ x.lapsed = s.lapsed
        /\ x.plan = s.plan /\ x.wanted = s.wanted /\ x.doing = s.doing
        /\ x.work = s.work /\ x.read = s.read
    BY ZenonT(60), <1>3, <2>1 DEF SweepRecord, SweepSteps
  <2>3. SweepKnows(x)
    BY <1>3, <2>2 DEF SweepKnows, HoldingSteps, UserSteps, ReadSteps, ArchiveSteps, DoingSteps
  <2>4. SweepStands(x)'
    BY <1>3, <1>4, <1>6, <2>2, <2>3 DEF SweepStands, SweepKnows, SweepSees, ReadSteps, Unscheduled, Unheld
  <2>5. sweeps' = [sweeps EXCEPT ![r] = x]
    BY <1>6, <2>1 DEF Put
  <2> QED BY <1>1, <1>2, <1>4, <1>6, <2>2, <2>4, <2>5, SweepStores
<1> QED BY <1>1, <1>2, <1>4, <1>5, <1>6, ScheduleSaved

LEMMA DeleteComputeKeeps ==
  ASSUME LifecycleInvariant, NEW r \in Sweeps, DeleteCompute(r)
  PROVE  LifecycleInvariant'
<1>1. PICK s : s = sweeps[r]
  OBVIOUS
<1>2. s.pc = "delete" /\ sweeps[r].pc \in ArchiveSteps
  BY <1>1 DEF DeleteCompute, ArchiveSteps
<1>3. SweepKnows(s) /\ SweepSees(s) /\ Unheld(s.work) /\ ReadBefore(s.read, works[s.work]) /\ StoredTyped
  BY <1>1, <1>2, ArchivingFacts, SweepFacts
<1>4. PICK w \in Workloads : w = s.work
  BY <1>1, <1>2, ArchivingFacts
<1>5. UNCHANGED << works, hosts, schedules, secrets, readers, grant, actions, notices >>
      /\ UNCHANGED << Environment, jobVars >>
  BY DEF DeleteCompute
<1>6. CASE FailUser(r) /\ UNCHANGED << compute, timers >>
  <2>1. UNCHANGED << Environment, recordVars, jobVars >>
    BY <1>5, <1>6 DEF recordVars
  <2> QED BY <1>1, <1>2, <1>6, <2>1, UserEnds DEF FailUser
<1>7. CASE EraseCompute(w) /\ EraseTimer(w) /\ Goto(r, "retire")
  <2>1. /\ compute' \in [Workloads -> BOOLEAN]
        /\ \A v \in Workloads : compute'[v] = IF v = w THEN FALSE ELSE compute[v]
    BY <1>3, <1>7 DEF EraseCompute, StoredTyped
  <2>2. /\ timers' \in [Scripts -> {"enabled", "paused", "deleted"}]
        /\ \A v \in Scripts : timers'[v] = IF v = w THEN "deleted" ELSE timers[v]
    BY <1>3, <1>7 DEF EraseTimer, StoredTyped
  <2>3. StoredTyped'
    BY <1>3, <1>5, <2>1, <2>2 DEF StoredTyped
  <2>4. Progresses
    BY <1>3, <1>5, <2>1, <2>2, RecordsAreVersioned, ReadBeforeItself DEF StoredTyped, Progresses
  <2>5. PICK x : x = [s EXCEPT !.pc = "retire"]
    OBVIOUS
  <2>6. SweepKnows(x) /\ x.pc = "retire" /\ x.lapsed = s.lapsed /\ x.work = w /\ x.read = s.read
    BY <1>1, <1>2, <1>4, <2>5, ArchivingSweepKnows
  <2>7. Erased(w)'
    BY <2>1, <2>2 DEF Erased
  <2>8. Unscheduled(w)' /\ ReadBefore(s.read, works'[w])
    BY <1>2, <1>3, <1>4, <1>5 DEF SweepSees, Unscheduled
  <2>9. SweepStands(x)'
    BY <2>6, <2>7, <2>8 DEF SweepStands, SweepKnows, SweepSees, ReadSteps, Unheld
  <2>10. sweeps' = [sweeps EXCEPT ![r] = x]
    BY <1>1, <1>7, <2>5 DEF Goto
  <2>11. \A v \in Workloads : compute[v] /\ ~compute'[v] => Unheld(v)
    BY <1>3, <1>4, <2>1
  <2> QED BY <1>1, <1>2, <1>5, <2>3, <2>4, <2>6, <2>9, <2>10, <2>11, SweepStores
<1> QED BY <1>1, <1>4, <1>6, <1>7 DEF DeleteCompute

LEMMA RetireHostKeeps ==
  ASSUME LifecycleInvariant, NEW r \in Sweeps, RetireHost(r)
  PROVE  LifecycleInvariant'
<1>1. PICK s : s = sweeps[r]
  OBVIOUS
<1>2. s.pc = "retire" /\ sweeps[r].pc \in ArchiveSteps
  BY <1>1 DEF RetireHost, ArchiveSteps
<1>3. SweepKnows(s) /\ SweepSees(s) /\ ReadBefore(s.read, works[s.work]) /\ StoredTyped
  BY <1>1, <1>2, ArchivingFacts, SweepFacts
<1>4. PICK w \in Workloads : w = s.work
  BY <1>1, <1>2, ArchivingFacts
<1>5. UNCHANGED << works, compute, schedules, timers, secrets, readers, grant, actions, notices >>
      /\ UNCHANGED << Environment, jobVars >>
  BY DEF RetireHost
<1>6. hosts' = IF w \in WebApps THEN [hosts EXCEPT ![w] = "retired"] ELSE hosts
  BY <1>1, <1>4 DEF RetireHost
<1>7. /\ hosts' \in [WebApps -> BindingStates]
      /\ \A v \in WebApps : hosts'[v] = IF v = w THEN "retired" ELSE hosts[v]
  BY <1>3, <1>6, StatesNamed DEF StoredTyped
<1>8. StoredTyped'
  BY <1>3, <1>5, <1>7 DEF StoredTyped
<1>9. Progresses
  BY <1>3, <1>5, <1>7, RecordsAreVersioned, ReadBeforeItself DEF StoredTyped, Progresses
<1>10. PICK x : x = [s EXCEPT !.pc = "mark"]
  OBVIOUS
<1>11. SweepKnows(x) /\ x.pc = "mark" /\ x.lapsed = s.lapsed /\ x.work = w /\ x.read = s.read
  BY <1>1, <1>2, <1>4, <1>10, ArchivingSweepKnows
<1>12. /\ Retired(w)' /\ Erased(w)' /\ Unscheduled(w)'
       /\ ReadBefore(s.read, works'[w])
  BY <1>2, <1>3, <1>4, <1>5, <1>7 DEF SweepSees, Retired, Erased, Unscheduled
<1>13. SweepStands(x)'
  BY <1>11, <1>12 DEF SweepStands, SweepKnows, SweepSees, ReadSteps, Unheld
<1>14. sweeps' = [sweeps EXCEPT ![r] = x]
  BY <1>1, <1>10 DEF RetireHost, Goto
<1> QED BY <1>1, <1>2, <1>5, <1>8, <1>9, <1>11, <1>13, <1>14, SweepStores

LEMMA ArchiveWorkloadKeeps ==
  ASSUME LifecycleInvariant, NEW r \in Sweeps, ArchiveWorkload(r)
  PROVE  LifecycleInvariant'
<1>1. PICK s : s = sweeps[r]
  OBVIOUS
<1>2. s.pc = "mark" /\ sweeps[r].pc \in ArchiveSteps
  BY <1>1 DEF ArchiveWorkload, ArchiveSteps
<1>3. /\ s \in SweepRecord /\ SweepKnows(s) /\ SweepSees(s)
      /\ s.read \in WorkRecord /\ s.holds \in HoldSets
      /\ s.doing \in Planned /\ s.doing.id.why # "warning" /\ s.doing.id.workload = s.work
      /\ Unheld(s.work) /\ ReadBefore(s.read, works[s.work])
  BY <1>1, <1>2, ArchivingFacts
<1>4. PICK w \in Workloads : w = s.work
  BY <1>1, <1>2, ArchivingFacts
<1>5. UNCHANGED << hosts, compute, schedules, timers, secrets, readers, grant, actions, notices >>
      /\ UNCHANGED << Environment, jobVars >>
  BY DEF ArchiveWorkload
<1>6. CASE FailUser(r) /\ UNCHANGED works
  <2>1. UNCHANGED << Environment, recordVars, jobVars >>
    BY <1>5, <1>6 DEF recordVars
  <2> QED BY <1>1, <1>2, <1>6, <2>1, UserEnds DEF FailUser
<1>7. CASE /\ works[w].version = s.read.version
           /\ works' = [works EXCEPT ![w] = Advance(s.read, "archived", s.at)]
           /\ Put(r, [s EXCEPT !.pc = "finish", !.work = None, !.read = None])
  <2>1. works[w] = s.read
    BY <1>3, <1>4, <1>7 DEF ReadBefore
  <2>2. PICK rec : rec = Advance(s.read, "archived", s.at)
    OBVIOUS
  <2>3. s.at \in Days
    BY <1>3 DEF SweepRecord
  <2>4. rec \in WorkRecord /\ rec.state = "archived" /\ ReadBefore(works[w], rec)
    BY <1>3, <2>1, <2>2, <2>3, StatesNamed, AdvanceIsTyped
  <2>5. Erased(w) /\ Retired(w) /\ Unscheduled(w)
    BY <1>2, <1>3, <1>4 DEF SweepSees
  <2>6. RecordsKept /\ StoredTyped
    BY SweepFacts
  <2>7. works' = [works EXCEPT ![w] = rec]
    BY <1>7, <2>2
  <2>8. RecordsKept' /\ Progresses /\ StoredTyped'
    BY <1>5, <2>4, <2>5, <2>6, <2>7, WorkSaved
  <2>9. works'[w].state = "archived"
    BY <2>4, <2>6, <2>7 DEF StoredTyped
  <2>10. PICK x : x = [s EXCEPT !.pc = "finish", !.work = None, !.read = None]
    OBVIOUS
  <2>11. /\ x \in SweepRecord /\ x.pc = "finish" /\ x.holds = s.holds /\ x.lapsed = s.lapsed
         /\ x.plan = s.plan /\ x.wanted = s.wanted /\ x.doing = s.doing
    BY ZenonT(60), <1>3, <2>10 DEF SweepRecord, SweepSteps
  <2>12. SweepKnows(x)
    BY <1>3, <2>11 DEF SweepKnows, HoldingSteps, UserSteps, ReadSteps, ArchiveSteps, DoingSteps
  <2>13. SweepStands(x)'
    BY <1>3, <1>4, <2>9, <2>11, <2>12 DEF SweepStands, SweepKnows, SweepSees, ReadSteps, ArchiveSteps, Unheld
  <2>14. sweeps' = [sweeps EXCEPT ![r] = x]
    BY <1>7, <2>10 DEF Put
  <2>15. UNCHANGED << day, account, trouble, lease, status >>
    BY <1>5 DEF Environment, jobVars
  <2> QED BY <1>1, <1>2, <2>8, <2>11, <2>13, <2>14, <2>15, SweepMoves
<1> QED BY <1>1, <1>4, <1>6, <1>7 DEF ArchiveWorkload

--------------------------------------------------------------------------------
(* The lease, the status of the job, and what happens around the sweeps.    *)

LEMMA JobMoves ==
  ASSUME LifecycleInvariant, NEW r \in Sweeps, NEW x, sweeps' = [sweeps EXCEPT ![r] = x],
         SweepStands(x), UNCHANGED << day, account, recordVars >>,
         trouble' \in 0..MaxTrouble, status' \in JobStatus,
         lease' \in [holder : Sweeps \cup {None}, over : BOOLEAN],
         AtWork(r)' /\ ~x.lapsed => lease'.holder = r /\ ~lease'.over,
         \A q \in Sweeps \ {r} : AtWork(q) /\ ~sweeps[q].lapsed => lease'.holder = q /\ ~lease'.over
  PROVE  LifecycleInvariant'
<1>1. sweeps = [q \in Sweeps |-> sweeps[q]]
  BY DEF LifecycleInvariant, JobKept
<1>2. \A q \in Sweeps : sweeps'[q] = IF q = r THEN x ELSE sweeps[q]
  BY <1>1
<1>3. sweeps' = [q \in Sweeps |-> sweeps'[q]]
  BY <1>1
<1>4. RecordsKept' /\ Progresses /\ StoredTyped /\ StoredTyped'
  BY RecordsRest DEF LifecycleInvariant, RecordsKept
<1>5. \A q \in Sweeps : SweepStands(sweeps[q])'
  <2> SUFFICES ASSUME NEW q \in Sweeps PROVE SweepStands(sweeps[q])'
    OBVIOUS
  <2>1. PICK z : z = IF q = r THEN x ELSE sweeps[q]
    OBVIOUS
  <2>2. SweepStands(z)
    <3>1. CASE q = r
      BY <2>1, <3>1
    <3>2. CASE q # r
      BY <2>1, <3>2, SweepFacts
    <3> QED BY <3>1, <3>2
  <2>3. SweepStands(z)'
    BY <1>4, <2>2, ProgressStands
  <2>4. sweeps'[q] = z
    BY <1>2, <2>1
  <2> QED BY <2>3, <2>4 DEF SweepStands, SweepKnows, SweepSees
<1>6. LeaseExcludes'
  BY <1>2 DEF LeaseExcludes, AtWork
<1>7. ClockKept'
  BY DEF LifecycleInvariant, ClockKept
<1> QED BY <1>3, <1>4, <1>5, <1>6, <1>7 DEF LifecycleInvariant, JobKept

LEMMA JobFacts ==
  ASSUME LifecycleInvariant
  PROVE  /\ lease \in [holder : Sweeps \cup {None}, over : BOOLEAN] /\ status \in JobStatus
         /\ trouble \in 0..MaxTrouble
         /\ \A q \in Sweeps : AtWork(q) /\ ~sweeps[q].lapsed => lease.holder = q /\ ~lease.over
BY DEF LifecycleInvariant, JobKept, ClockKept, LeaseExcludes

LEMMA AcquireKeeps ==
  ASSUME LifecycleInvariant, NEW r \in Sweeps, Acquire(r)
  PROVE  LifecycleInvariant'
<1>1. PICK s : s = sweeps[r]
  OBVIOUS
<1>2. s \in SweepRecord /\ SweepKnows(s)
  BY <1>1, SweepFacts
<1>3. PICK x : x = [s EXCEPT !.pc = "start"]
  OBVIOUS
<1>4. x \in SweepRecord /\ x.pc = "start" /\ x.plan = s.plan /\ x.wanted = s.wanted
  BY <1>2, <1>3 DEF SweepRecord, SweepSteps
<1>5. SweepStands(x)
  BY <1>2, <1>4, BareSweepStands DEF BareSteps, SweepKnows
<1>6. /\ sweeps' = [sweeps EXCEPT ![r] = x] /\ lease' = [holder |-> r, over |-> FALSE]
      /\ UNCHANGED << day, account, recordVars >> /\ UNCHANGED << trouble, status >>
  BY <1>1, <1>3 DEF Acquire, Environment
<1>7. \A q \in Sweeps : ~(AtWork(q) /\ ~sweeps[q].lapsed)
  BY JobFacts, LifecycleParameters DEF Acquire, LeaseFree
<1>8. lease' \in [holder : Sweeps \cup {None}, over : BOOLEAN]
  BY <1>6
<1>9. lease'.holder = r /\ ~lease'.over
  BY <1>6
<1> QED BY <1>5, <1>6, <1>7, <1>8, <1>9, JobFacts, JobMoves

LEMMA RecordStartedKeeps ==
  ASSUME LifecycleInvariant, NEW r \in Sweeps, RecordStarted(r)
  PROVE  LifecycleInvariant'
<1>1. PICK s : s = sweeps[r]
  OBVIOUS
<1>2. s \in SweepRecord /\ SweepKnows(s) /\ s.pc = "start"
  BY <1>1, SweepFacts DEF RecordStarted
<1>3. PICK d \in Days : d = day
  BY SweepFacts DEF ClockKept
<1>4. PICK x : x = [s EXCEPT !.pc = "begin", !.at = d]
  OBVIOUS
<1>5. d \in Days
  BY <1>3
<1>6. /\ x \in SweepRecord /\ x.pc = "begin" /\ x.plan = s.plan /\ x.wanted = s.wanted
      /\ x.lapsed = s.lapsed
  BY ZenonT(60), <1>2, <1>4, <1>5 DEF SweepRecord, SweepSteps
<1>7. SweepStands(x)
  BY <1>2, <1>6, BareSweepStands DEF BareSteps, SweepKnows
<1>8. sweeps' = [sweeps EXCEPT ![r] = x]
  BY <1>1, <1>3, <1>4 DEF RecordStarted
<1>9. /\ status' \in JobStatus
      /\ UNCHANGED << day, account, recordVars >> /\ UNCHANGED << trouble, lease >>
  BY DEF RecordStarted, Environment, JobStatus
<1>10. AtWork(r)' /\ ~x.lapsed => lease.holder = r /\ ~lease.over
  BY <1>1, <1>2, <1>6, JobFacts DEF AtWork
<1> QED BY <1>7, <1>8, <1>9, <1>10, JobFacts, JobMoves

LEMMA RecordTerminalKeeps ==
  ASSUME LifecycleInvariant, NEW r \in Sweeps, RecordTerminal(r)
  PROVE  LifecycleInvariant'
<1>1. PICK s : s = sweeps[r]
  OBVIOUS
<1>2. s \in SweepRecord /\ SweepKnows(s) /\ s.pc = "terminal"
  BY <1>1, SweepFacts DEF RecordTerminal
<1>3. PICK x : x = [s EXCEPT !.pc = "release"]
  OBVIOUS
<1>4. /\ x \in SweepRecord /\ x.pc = "release" /\ x.plan = s.plan /\ x.wanted = s.wanted
      /\ x.lapsed = s.lapsed
  BY <1>2, <1>3 DEF SweepRecord, SweepSteps
<1>5. SweepStands(x)
  BY <1>2, <1>4, BareSweepStands DEF BareSteps, SweepKnows
<1>6. sweeps' = [sweeps EXCEPT ![r] = x]
  BY <1>1, <1>3 DEF RecordTerminal, Goto
<1>7. /\ status' \in JobStatus
      /\ UNCHANGED << day, account, recordVars >> /\ UNCHANGED << trouble, lease >>
  BY JobFacts DEF RecordTerminal, Environment, JobStatus
<1>8. AtWork(r)' /\ ~x.lapsed => lease.holder = r /\ ~lease.over
  BY <1>1, <1>2, <1>4, JobFacts DEF AtWork
<1> QED BY <1>5, <1>6, <1>7, <1>8, JobFacts, JobMoves

LEMMA IdleSweepRests ==
  ASSUME LifecycleInvariant, NEW r \in Sweeps, Put(r, IdleSweep) PROVE ~AtWork(r)'
BY DEF Put, AtWork, IdleSweep, LifecycleInvariant, JobKept

LEMMA ReleaseKeeps ==
  ASSUME LifecycleInvariant, NEW r \in Sweeps, Release(r)
  PROVE  LifecycleInvariant'
<1>1. sweeps' = [sweeps EXCEPT ![r] = IdleSweep] /\ SweepStands(IdleSweep)
  BY IdleSweepStands DEF Release, Put
<1>2. UNCHANGED << day, account, recordVars >> /\ UNCHANGED << trouble, status >>
  BY DEF Release, Environment
<1>3. ~AtWork(r)'
  BY IdleSweepRests DEF Release
<1>4. lease' = IF lease.holder = r THEN [holder |-> None, over |-> FALSE] ELSE lease
  BY DEF Release, Releasable
<1>5. lease' \in [holder : Sweeps \cup {None}, over : BOOLEAN]
  BY <1>4, JobFacts
<1>6. \A q \in Sweeps \ {r} : AtWork(q) /\ ~sweeps[q].lapsed => lease'.holder = q /\ ~lease'.over
  BY <1>4, JobFacts
<1>7. trouble' \in 0..MaxTrouble /\ status' \in JobStatus
  BY <1>2, JobFacts
<1>8. PICK x : x = IdleSweep
  OBVIOUS
<1> QED BY <1>1, <1>2, <1>3, <1>5, <1>6, <1>7, <1>8, JobMoves

LEMMA CrashKeeps ==
  ASSUME LifecycleInvariant, NEW r \in Sweeps, Crash(r)
  PROVE  LifecycleInvariant'
<1>1. sweeps' = [sweeps EXCEPT ![r] = IdleSweep] /\ SweepStands(IdleSweep)
  BY IdleSweepStands DEF Crash, Put
<1>2. UNCHANGED << day, account, recordVars >> /\ UNCHANGED << lease, status >>
  BY DEF Crash, jobVars
<1>3. ~AtWork(r)'
  BY IdleSweepRests DEF Crash
<1>4. trouble' \in 0..MaxTrouble
  BY JobFacts, LifecycleParameters DEF Crash
<1>5. PICK x : x = IdleSweep
  OBVIOUS
<1> QED BY <1>1, <1>2, <1>3, <1>4, <1>5, JobFacts, JobMoves

(* The sweeps rest.                                                         *)
LEMMA SweepsRest ==
  ASSUME LifecycleInvariant, UNCHANGED sweeps, RecordsKept', Progresses, ClockKept',
         lease' \in [holder : Sweeps \cup {None}, over : BOOLEAN], UNCHANGED status,
         LeaseExcludes'
  PROVE  LifecycleInvariant'
<1>1. \A q \in Sweeps : SweepStands(sweeps[q])'
  <2> SUFFICES ASSUME NEW q \in Sweeps PROVE SweepStands(sweeps[q])'
    OBVIOUS
  <2>1. PICK z : z = sweeps[q]
    OBVIOUS
  <2>2. SweepStands(z) /\ StoredTyped /\ StoredTyped'
    BY <2>1, SweepFacts DEF RecordsKept
  <2>3. SweepStands(z)'
    BY <2>2, ProgressStands
  <2>4. sweeps'[q] = z
    BY <2>1
  <2> QED BY <2>3, <2>4 DEF SweepStands, SweepKnows, SweepSees
<1> QED BY <1>1 DEF LifecycleInvariant, JobKept

LEMMA LeaseLapsesKeeps ==
  ASSUME LifecycleInvariant, LeaseLapses
  PROVE  LifecycleInvariant'
<1>1. PICK h \in Sweeps : h = lease.holder
  BY JobFacts DEF LeaseLapses
<1>2. /\ lease' = [lease EXCEPT !.over = TRUE]
      /\ lease' \in [holder : Sweeps \cup {None}, over : BOOLEAN]
  BY JobFacts DEF LeaseLapses
<1>3. UNCHANGED << day, account, recordVars >> /\ UNCHANGED status
  BY DEF LeaseLapses
<1>4. CASE sweeps[h].pc = "idle" /\ UNCHANGED << sweeps, trouble >>
  <2>1. LeaseExcludes'
    BY <1>1, <1>4, JobFacts DEF LeaseExcludes, AtWork
  <2>2. RecordsKept' /\ Progresses
    BY <1>3, SweepFacts, RecordsRest DEF LifecycleInvariant
  <2>3. ClockKept'
    BY <1>3, <1>4 DEF LifecycleInvariant, ClockKept
  <2> QED BY <1>2, <1>3, <1>4, <2>1, <2>2, <2>3, SweepsRest
<1>5. CASE /\ trouble < MaxTrouble /\ trouble' = trouble + 1
           /\ sweeps' = [sweeps EXCEPT ![h].lapsed = TRUE]
  <2>1. PICK s : s = sweeps[h]
    OBVIOUS
  <2>2. SweepStands(s) /\ s \in SweepRecord
    BY <2>1, SweepFacts
  <2>3. PICK x : x = [s EXCEPT !.lapsed = TRUE]
    OBVIOUS
  <2>4. /\ x \in SweepRecord /\ x.lapsed
        /\ x.pc = s.pc /\ x.at = s.at /\ x.lock = s.lock /\ x.holds = s.holds /\ x.user = s.user
        /\ x.todo = s.todo /\ x.work = s.work /\ x.read = s.read /\ x.schedule = s.schedule
        /\ x.cuts = s.cuts /\ x.attached = s.attached /\ x.seen = s.seen /\ x.plan = s.plan
        /\ x.wanted = s.wanted /\ x.doing = s.doing
    BY <2>2, <2>3 DEF SweepRecord
  <2>5. SweepStands(x)
    BY <2>2, <2>4 DEF SweepStands, SweepKnows, SweepSees
  <2>6. trouble' \in 0..MaxTrouble
    BY <1>5, JobFacts, LifecycleParameters
  <2>7. \A q \in Sweeps \ {h} : ~(AtWork(q) /\ ~sweeps[q].lapsed)
    BY <1>1, JobFacts
  <2>8. sweeps' = [sweeps EXCEPT ![h] = x]
    BY <1>5, <2>1, <2>3
  <2> QED BY <1>2, <1>3, <2>4, <2>5, <2>6, <2>7, <2>8, JobFacts, JobMoves
<1> QED BY <1>1, <1>4, <1>5 DEF LeaseLapses

LEMMA NextDayKeeps ==
  ASSUME LifecycleInvariant, NextDay
  PROVE  LifecycleInvariant'
<1>1. UNCHANGED << sweeps, lease, status >> /\ UNCHANGED recordVars /\ UNCHANGED << account, trouble >>
  BY DEF NextDay, jobVars
<1>2. ClockKept'
  BY <1>1, LifecycleParameters DEF LifecycleInvariant, ClockKept, NextDay, Days
<1>3. RecordsKept' /\ Progresses
  BY <1>1, RecordsRest DEF LifecycleInvariant
<1>4. LeaseExcludes' /\ lease' \in [holder : Sweeps \cup {None}, over : BOOLEAN]
  BY <1>1 DEF LifecycleInvariant, JobKept, LeaseExcludes, AtWork
<1> QED BY <1>1, <1>2, <1>3, <1>4, SweepsRest

LEMMA SyncAccountKeeps ==
  ASSUME LifecycleInvariant, SyncAccount
  PROVE  LifecycleInvariant'
<1>1. UNCHANGED << sweeps, lease, status >> /\ UNCHANGED recordVars /\ UNCHANGED << day, trouble >>
  BY DEF SyncAccount, jobVars
<1>2. account \in UserRecord /\ day \in Days
  BY DEF LifecycleInvariant, ClockKept
<1>3. PICK target \in UserMoves[account.state] :
         account' = [state |-> target, version |-> account.version + 1,
                     updated |-> IF target = account.state THEN account.updated ELSE day]
  BY DEF SyncAccount
<1>4. target \in {"active"} \cup LockedStates
  BY <1>2, <1>3 DEF UserRecord, UserMoves, LockedStates
<1>5. account.version + 1 \in Nat /\ account.updated \in Days
  BY <1>2 DEF UserRecord
<1>6. account' \in UserRecord
  BY <1>2, <1>3, <1>4, <1>5 DEF UserRecord
<1>7. ClockKept'
  BY <1>1, <1>6 DEF LifecycleInvariant, ClockKept
<1>8. RecordsKept' /\ Progresses
  BY <1>1, RecordsRest DEF LifecycleInvariant
<1>9. LeaseExcludes' /\ lease' \in [holder : Sweeps \cup {None}, over : BOOLEAN]
  BY <1>1 DEF LifecycleInvariant, JobKept, LeaseExcludes, AtWork
<1> QED BY <1>1, <1>7, <1>8, <1>9, SweepsRest

LEMMA RecordActivityKeeps ==
  ASSUME LifecycleInvariant, RecordActivity
  PROVE  LifecycleInvariant'
<1>1. UNCHANGED << sweeps, lease, status >> /\ UNCHANGED << day, account, trouble >>
      /\ UNCHANGED << hosts, compute, schedules, timers, secrets, readers, grant, actions, notices >>
  BY DEF RecordActivity, jobVars, Environment
<1>2. RecordsKept /\ StoredTyped /\ day \in Days
  BY DEF LifecycleInvariant, RecordsKept, ClockKept
<1>3. PICK w \in InUse : /\ works[w].state = "active"
                         /\ works' = [works EXCEPT ![w] =
                               [works[w] EXCEPT !.version = @ + 1, !.updated = day, !.used = day]]
  BY DEF RecordActivity
<1>4. w \in Workloads
  BY <1>3, LifecycleParameters
<1>5. works[w] \in WorkRecord
  BY <1>2, <1>4 DEF StoredTyped
<1>6. works[w].version \in Nat
  BY <1>5, RecordsAreVersioned
<1>7. PICK rec : rec = [works[w] EXCEPT !.version = @ + 1, !.updated = day, !.used = day]
  OBVIOUS
<1>8. rec = [state |-> "active", version |-> works[w].version + 1, updated |-> day, used |-> day]
  BY <1>3, <1>5, <1>7 DEF WorkRecord
<1>9. rec.state = "active" /\ rec.version = works[w].version + 1
  BY <1>8
<1>10. works[w].state \in WorkloadStates
  BY <1>5 DEF WorkRecord
<1>11. rec \in WorkRecord
  BY <1>2, <1>3, <1>6, <1>8, <1>10 DEF WorkRecord
<1>12. ReadBefore(works[w], rec)
  BY <1>6, <1>9 DEF ReadBefore
<1>13. works' = [works EXCEPT ![w] = rec]
  BY <1>3, <1>7
<1>14. RecordsKept' /\ Progresses
  BY <1>1, <1>2, <1>3, <1>4, <1>9, <1>11, <1>12, <1>13, WorkSaved
<1>15. ClockKept' /\ LeaseExcludes' /\ lease' \in [holder : Sweeps \cup {None}, over : BOOLEAN]
  BY <1>1 DEF LifecycleInvariant, ClockKept, JobKept, LeaseExcludes, AtWork
<1> QED BY <1>1, <1>14, <1>15, SweepsRest

--------------------------------------------------------------------------------
LEMMA InitKeeps ==
  ASSUME Init
  PROVE  LifecycleInvariant
<1>1. PICK gone \in GoneBefore : InitAfter(gone)
  BY DEF Init
<1>2. gone \in GoneBefore /\ 0 \in Days
  BY <1>1, DaysNamed
<1>3. ClockKept
  BY <1>1, <1>2, LifecycleParameters DEF InitAfter, ClockKept, UserRecord, LockedStates
<1>4. /\ {"active", "archived"} \subseteq WorkloadStates /\ {"active", "retired"} \subseteq BindingStates
      /\ {"enabled", "archived"} \subseteq ScheduleStates
  BY DEF WorkloadStates, WorkloadMoves, BindingStates, BindingMoves, ScheduleStates, ScheduleMoves
<1>5. StoredTyped
  <2>1. works \in [Workloads -> WorkRecord]
    BY <1>1, <1>2, <1>4 DEF InitAfter, WorkRecord
  <2>2. hosts \in [WebApps -> BindingStates] /\ compute \in [Workloads -> BOOLEAN]
    BY <1>1, <1>4 DEF InitAfter
  <2>3. schedules \in [Scripts -> ScheduleRecord]
    BY <1>1, <1>2, <1>4 DEF InitAfter, ScheduleRecord
  <2>4. timers \in [Scripts -> {"enabled", "paused", "deleted"}] /\ grant \in BOOLEAN
    BY <1>1 DEF InitAfter
  <2>5. secrets \in [Secrets -> SecretRecord] /\ readers \in [Secrets -> SUBSET Workloads]
    BY <1>1, LifecycleParameters DEF InitAfter, SecretRecord
  <2> QED BY <2>1, <2>2, <2>3, <2>4, <2>5 DEF StoredTyped
<1>6. ActionsTyped
  BY <1>1 DEF InitAfter, ActionsTyped
<1>7. \A w \in Workloads : works[w].state = IF w \in gone THEN "archived" ELSE "active"
  BY <1>1 DEF InitAfter
<1>8. QuarantinedIsCut
  BY <1>7 DEF QuarantinedIsCut
<1>9. \A w \in Workloads : /\ compute[w] = (w \notin gone)
                           /\ w \in WebApps /\ w \in gone => hosts[w] = "retired"
                           /\ w \in Scripts /\ w \in gone =>
                                 schedules[w].state = "archived" /\ timers[w] = "deleted"
  BY <1>1 DEF InitAfter
<1>10. ArchivedIsGone
  BY <1>1, <1>7, <1>9 DEF ArchivedIsGone, InitAfter
<1>11. GoneIsUnheld
  BY <1>2, <1>9 DEF GoneIsUnheld
<1>12. JobKept
  <2>1. sweeps = [r \in Sweeps |-> IdleSweep]
    BY <1>1 DEF InitAfter
  <2>2. lease = [holder |-> None, over |-> FALSE] /\ status = None
    BY <1>1 DEF InitAfter
  <2>3. sweeps = [r \in Sweeps |-> sweeps[r]] /\ \A r \in Sweeps : sweeps[r] = IdleSweep
    BY <2>1
  <2>4. LeaseExcludes
    BY <2>3 DEF LeaseExcludes, AtWork, IdleSweep
  <2>5. \A r \in Sweeps : SweepStands(sweeps[r])
    BY <2>3, IdleSweepStands
  <2>6. /\ lease \in [holder : Sweeps \cup {None}, over : BOOLEAN]
        /\ status \in JobStatus
    BY <2>2 DEF JobStatus
  <2> QED BY <2>3, <2>4, <2>5, <2>6 DEF JobKept
<1> QED BY <1>3, <1>5, <1>6, <1>8, <1>10, <1>11, <1>12 DEF LifecycleInvariant, RecordsKept

LEMMA SweepStepKeeps ==
  ASSUME LifecycleInvariant, NEW r \in Sweeps, SweepStep(r)
  PROVE  LifecycleInvariant'
BY RecordStartedKeeps, BeginUserKeeps, HoldsDeniedKeeps, ReadAndPlanKeeps, DenySessionsKeeps,
   NextQuarantineKeeps, DisableHostKeeps, UnbindKeeps, LockSecretKeeps, QuarantineWorkloadKeeps,
   RevokeGrantKeeps, PauseTimerKeeps, DisableScheduleKeeps, AdminDecisionsKeeps,
   PersistActionKeeps, RecoverActionsKeeps, NextActionKeeps, RevalidateKeeps, ReadAgainKeeps,
   DeleteTimerKeeps, ArchiveScheduleKeeps, DeleteComputeKeeps, RetireHostKeeps,
   ArchiveWorkloadKeeps, FinishActionKeeps, RecordTerminalKeeps, ReleaseKeeps
   DEF SweepStep

LEMMA NothingHappensKeeps ==
  ASSUME LifecycleInvariant, UNCHANGED vars
  PROVE  LifecycleInvariant'
<1>1. UNCHANGED << sweeps, lease, status >> /\ UNCHANGED recordVars /\ UNCHANGED << day, account, trouble >>
  BY DEF vars, jobVars
<1>2. RecordsKept' /\ Progresses
  BY <1>1, RecordsRest DEF LifecycleInvariant
<1>3. ClockKept' /\ LeaseExcludes' /\ lease' \in [holder : Sweeps \cup {None}, over : BOOLEAN]
  BY <1>1 DEF LifecycleInvariant, ClockKept, JobKept, LeaseExcludes, AtWork
<1> QED BY <1>1, <1>2, <1>3, SweepsRest

LEMMA LifecycleInvariantHolds == Spec => []LifecycleInvariant
<1>1. Init => LifecycleInvariant
  BY InitKeeps
<1>2. LifecycleInvariant /\ [Next]_vars => LifecycleInvariant'
  <2> SUFFICES ASSUME LifecycleInvariant, [Next]_vars PROVE LifecycleInvariant'
    OBVIOUS
  <2>1. ASSUME NEW r \in Sweeps, Acquire(r) \/ SweepStep(r) \/ Crash(r) PROVE LifecycleInvariant'
    BY <2>1, AcquireKeeps, SweepStepKeeps, CrashKeeps
  <2> QED BY <2>1, NextDayKeeps, SyncAccountKeeps, RecordActivityKeeps, LeaseLapsesKeeps,
             NothingHappensKeeps DEF Next
<1> QED BY <1>1, <1>2, PTL DEF Spec

(* Every variable of the lifecycle job keeps its type, in every sweep of    *)
(* reconcile_user and execute_planned_action.                               *)
THEOREM LifecycleIsTyped == Spec => []TypeOK
<1>1. LifecycleInvariant => TypeOK
  BY DEF LifecycleInvariant, ClockKept, RecordsKept, StoredTyped, ActionsTyped, JobKept,
     SweepStands, SweepKnows, TypeOK
<1> QED BY <1>1, LifecycleInvariantHolds, PTL

(* However many sweeps there are, and wherever leases lapse or sweeps die,  *)
(* a sweep under which no lease ran out holds it alone                      *)
(* (FirestoreNamedOverlapLease).                                            *)
THEOREM SweepsExclude == Spec => []LeaseExcludes
<1>1. LifecycleInvariant => LeaseExcludes
  BY DEF LifecycleInvariant, JobKept
<1> QED BY <1>1, LifecycleInvariantHolds, PTL

(* The order of reconcile_user cuts a workload off before it is saved as    *)
(* quarantined, and no other sweep, crash or late step gives anything back. *)
THEOREM QuarantineCutsOff == Spec => []QuarantinedIsCut
<1>1. LifecycleInvariant => QuarantinedIsCut
  BY DEF LifecycleInvariant, RecordsKept
<1> QED BY <1>1, LifecycleInvariantHolds, PTL

(* The order of delete_compute and archive, and the version the save        *)
(* carries, leave nothing of an archived workload (execute_planned_action). *)
THEOREM ArchiveLeavesNothing == Spec => []ArchivedIsGone
<1>1. LifecycleInvariant => ArchivedIsGone
  BY DEF LifecycleInvariant, RecordsKept
<1> QED BY <1>1, LifecycleInvariantHolds, PTL

(* Nothing is deleted that every hold document lists                        *)
(* (plan_user_lifecycle reads the holds before it plans a cleanup).         *)
THEOREM HoldsAreRespected == Spec => []HeldIsKept
<1>1. LifecycleInvariant => HeldIsKept
  BY DEF LifecycleInvariant, RecordsKept, GoneIsUnheld, Unheld, HeldIsKept
<1> QED BY <1>1, LifecycleInvariantHolds, PTL

--------------------------------------------------------------------------------
(* What is deleted was due.  A cleanup is wanted, and then recorded, only   *)
(* when it is due, a sweep takes up only what is recorded, and what is      *)
(* recorded stays on record.                                                *)

Due(a) == a.id.why # "warning" => a.id.eligible <= a.created /\ a.created <= day

CleansUp(s) ==
    /\ s.at <= day
    /\ \A a \in s.wanted : Due(a)
    /\ s.pc \in DoingSteps => Stored(s.doing.id) # {}

CleanupFacts ==
    /\ \A a \in actions : Due(a)
    /\ \A r \in Sweeps : CleansUp(sweeps[r])

(* A step of a sweep that plans nothing and takes no action up.             *)
Quiet(s, x) ==
    /\ x.at \in {0, s.at}
    /\ x.wanted \subseteq s.wanted
    /\ x.pc \in DoingSteps => s.pc \in DoingSteps /\ x.doing = s.doing

LEMMA QuietItself == ASSUME NEW s PROVE Quiet(s, s)
BY DEF Quiet

(* Every step of a sweep is quiet but three.                                *)
LEMMA SweepIsQuiet ==
  ASSUME LifecycleInvariant, NEW r \in Sweeps, SweepStep(r) \/ Acquire(r) \/ Crash(r),
         ~RecordStarted(r), ~ReadAndPlan(r), ~NextAction(r)
  PROVE  \A q \in Sweeps : Quiet(sweeps[q], sweeps'[q])
<1>1. PICK s : s = sweeps[r]
  OBVIOUS
<1>2. s \in SweepRecord /\ sweeps = [q \in Sweeps |-> sweeps[q]]
  BY <1>1, SweepFacts DEF LifecycleInvariant, JobKept
<1> DEFINE Ends(x) == /\ x.at \in {0, s.at} /\ x.wanted = {}
                      /\ x.pc \in {"idle", "terminal", "recover"}
           Goes(x) == /\ x.at = s.at /\ x.wanted \subseteq s.wanted
                      /\ x.pc \in DoingSteps => s.pc \in DoingSteps /\ x.doing = s.doing
           Quietly == \A q \in Sweeps : Quiet(sweeps[q], sweeps'[q])
<1>3. ASSUME NEW x, sweeps' = [sweeps EXCEPT ![r] = x], Ends(x) \/ Goes(x)
      PROVE  Quietly
  <2> SUFFICES ASSUME NEW q \in Sweeps PROVE Quiet(sweeps[q], sweeps'[q])
    OBVIOUS
  <2>1. CASE q = r
    <3>1. Quiet(s, x)
      BY <1>3 DEF Quiet, DoingSteps, ArchiveSteps
    <3>2. sweeps'[q] = x
      BY <1>2, <1>3, <2>1
    <3> QED BY <1>1, <2>1, <3>1, <3>2
  <2>2. CASE q # r
    <3>1. sweeps'[q] = sweeps[q]
      BY <1>2, <1>3, <2>2
    <3> QED BY <3>1, QuietItself
  <2> QED BY <2>1, <2>2
<1>4. ASSUME Put(r, IdleSweep) PROVE Quietly
  <2>1. Ends(IdleSweep)
    BY DEF IdleSweep
  <2> QED BY <1>3, <1>4, <2>1 DEF Put
<1>5. ASSUME EndUser(r) PROVE Quietly
  <2>1. PICK x : x = [IdleSweep EXCEPT !.pc = "terminal", !.lapsed = s.lapsed]
    OBVIOUS
  <2>2. Ends(x)
    BY <2>1 DEF IdleSweep
  <2>3. sweeps' = [sweeps EXCEPT ![r] = x]
    BY <1>1, <1>5, <2>1 DEF EndUser, Put
  <2> QED BY <1>3, <2>2, <2>3
<1>6. ASSUME Recover(r) PROVE Quietly
  <2>1. PICK x : x = [IdleSweep EXCEPT !.pc = "recover", !.at = s.at, !.lock = s.lock,
                                       !.holds = s.holds, !.lapsed = s.lapsed]
    OBVIOUS
  <2>2. Ends(x)
    BY <2>1 DEF IdleSweep
  <2>3. sweeps' = [sweeps EXCEPT ![r] = x]
    BY <1>1, <1>6, <2>1 DEF Recover, Put
  <2> QED BY <1>3, <2>2, <2>3
<1>7. ASSUME NEW step, step \notin DoingSteps \/ s.pc \in DoingSteps, Goto(r, step)
      PROVE  Quietly
  <2>1. PICK x : x = [s EXCEPT !.pc = step]
    OBVIOUS
  <2>2. Goes(x)
    BY <1>2, <1>7, <2>1 DEF SweepRecord
  <2>3. sweeps' = [sweeps EXCEPT ![r] = x]
    BY <1>1, <1>7, <2>1 DEF Goto
  <2> QED BY <1>3, <2>2, <2>3
<1>8. ASSUME NEW h, NEW k, Put(r, [s EXCEPT !.pc = "plan", !.holds = h, !.lock = k])
      PROVE  Quietly
  <2>1. PICK x : x = [s EXCEPT !.pc = "plan", !.holds = h, !.lock = k]
    OBVIOUS
  <2>2. Goes(x)
    BY ZenonT(60), <1>2, <1>8, <2>1 DEF SweepRecord, DoingSteps, ArchiveSteps
  <2> QED BY <1>3, <1>8, <2>1, <2>2 DEF Put
<1>9. ASSUME NEW t, Put(r, [s EXCEPT !.todo = t])
      PROVE  Quietly
  <2>1. PICK x : x = [s EXCEPT !.todo = t]
    OBVIOUS
  <2>2. Goes(x)
    BY ZenonT(60), <1>2, <1>9, <2>1 DEF SweepRecord, DoingSteps, ArchiveSteps
  <2> QED BY <1>3, <1>9, <2>1, <2>2 DEF Put
<1>10. ASSUME NEW t, NEW w, NEW rec,
              Put(r, [s EXCEPT !.todo = t, !.pc = "host", !.work = w, !.read = rec])
      PROVE  Quietly
  <2>1. PICK x : x = [s EXCEPT !.todo = t, !.pc = "host", !.work = w, !.read = rec]
    OBVIOUS
  <2>2. Goes(x)
    BY ZenonT(60), <1>2, <1>10, <2>1 DEF SweepRecord, DoingSteps, ArchiveSteps
  <2> QED BY <1>3, <1>10, <2>1, <2>2 DEF Put
<1>11. ASSUME NEW c, NEW d, NEW e,
              Put(r, [s EXCEPT !.pc = "unbind", !.cuts = c, !.attached = d, !.seen = e])
      PROVE  Quietly
  <2>1. PICK x : x = [s EXCEPT !.pc = "unbind", !.cuts = c, !.attached = d, !.seen = e]
    OBVIOUS
  <2>2. Goes(x)
    BY ZenonT(60), <1>2, <1>11, <2>1 DEF SweepRecord, DoingSteps, ArchiveSteps
  <2> QED BY <1>3, <1>11, <2>1, <2>2 DEF Put
<1>12. ASSUME NEW c, Put(r, [s EXCEPT !.cuts = c])
      PROVE  Quietly
  <2>1. PICK x : x = [s EXCEPT !.cuts = c]
    OBVIOUS
  <2>2. Goes(x)
    BY ZenonT(60), <1>2, <1>12, <2>1 DEF SweepRecord, DoingSteps, ArchiveSteps
  <2> QED BY <1>3, <1>12, <2>1, <2>2 DEF Put
<1>13. ASSUME Put(r, [s EXCEPT !.pc = "save", !.seen = None])
      PROVE  Quietly
  <2>1. PICK x : x = [s EXCEPT !.pc = "save", !.seen = None]
    OBVIOUS
  <2>2. Goes(x)
    BY ZenonT(60), <1>2, <1>13, <2>1 DEF SweepRecord, DoingSteps, ArchiveSteps
  <2> QED BY <1>3, <1>13, <2>1, <2>2 DEF Put
<1>14. ASSUME NEW d, Put(r, [s EXCEPT !.attached = d])
      PROVE  Quietly
  <2>1. PICK x : x = [s EXCEPT !.attached = d]
    OBVIOUS
  <2>2. Goes(x)
    BY ZenonT(60), <1>2, <1>14, <2>1 DEF SweepRecord, DoingSteps, ArchiveSteps
  <2> QED BY <1>3, <1>14, <2>1, <2>2 DEF Put
<1>15. ASSUME NEW step \in {"quarantine", "finish"}, step = "finish" => s.pc \in DoingSteps,
              Put(r, [s EXCEPT !.pc = step, !.work = None, !.read = None])
      PROVE  Quietly
  <2>1. PICK x : x = [s EXCEPT !.pc = step, !.work = None, !.read = None]
    OBVIOUS
  <2>2. Goes(x)
    BY ZenonT(60), <1>2, <1>15, <2>1 DEF SweepRecord, DoingSteps, ArchiveSteps
  <2> QED BY <1>3, <1>15, <2>1, <2>2 DEF Put
<1>16. ASSUME NEW t, Put(r, [s EXCEPT !.pc = "schedule", !.todo = t])
      PROVE  Quietly
  <2>1. PICK x : x = [s EXCEPT !.pc = "schedule", !.todo = t]
    OBVIOUS
  <2>2. Goes(x)
    BY ZenonT(60), <1>2, <1>16, <2>1 DEF SweepRecord, DoingSteps, ArchiveSteps
  <2> QED BY <1>3, <1>16, <2>1, <2>2 DEF Put
<1>17. ASSUME Put(r, [s EXCEPT !.pc = "admin", !.work = None])
      PROVE  Quietly
  <2>1. PICK x : x = [s EXCEPT !.pc = "admin", !.work = None]
    OBVIOUS
  <2>2. Goes(x)
    BY ZenonT(60), <1>2, <1>17, <2>1 DEF SweepRecord, DoingSteps, ArchiveSteps
  <2> QED BY <1>3, <1>17, <2>1, <2>2 DEF Put
<1>18. ASSUME NEW w, NEW rec, NEW t,
              Put(r, [s EXCEPT !.pc = "disable", !.work = w, !.schedule = rec, !.todo = t])
      PROVE  Quietly
  <2>1. PICK x : x = [s EXCEPT !.pc = "disable", !.work = w, !.schedule = rec, !.todo = t]
    OBVIOUS
  <2>2. Goes(x)
    BY ZenonT(60), <1>2, <1>18, <2>1 DEF SweepRecord, DoingSteps, ArchiveSteps
  <2> QED BY <1>3, <1>18, <2>1, <2>2 DEF Put
<1>19. ASSUME NEW step \in {"schedule", "delete"}, step = "delete" => s.pc \in DoingSteps,
              Put(r, [s EXCEPT !.pc = step, !.schedule = None])
      PROVE  Quietly
  <2>1. PICK x : x = [s EXCEPT !.pc = step, !.schedule = None]
    OBVIOUS
  <2>2. Goes(x)
    BY ZenonT(60), <1>2, <1>19, <2>1 DEF SweepRecord, DoingSteps, ArchiveSteps
  <2> QED BY <1>3, <1>19, <2>1, <2>2 DEF Put
<1>20. ASSUME Put(r, [s EXCEPT !.pc = "execute", !.user = None])
      PROVE  Quietly
  <2>1. PICK x : x = [s EXCEPT !.pc = "execute", !.user = None]
    OBVIOUS
  <2>2. Goes(x)
    BY ZenonT(60), <1>2, <1>20, <2>1 DEF SweepRecord, DoingSteps, ArchiveSteps
  <2> QED BY <1>3, <1>20, <2>1, <2>2 DEF Put
<1>21. ASSUME NEW a, Put(r, [s EXCEPT !.wanted = @ \ {a}])
      PROVE  Quietly
  <2>1. PICK x : x = [s EXCEPT !.wanted = @ \ {a}]
    OBVIOUS
  <2>2. Goes(x)
    BY ZenonT(60), <1>2, <1>21, <2>1 DEF SweepRecord, DoingSteps, ArchiveSteps
  <2> QED BY <1>3, <1>21, <2>1, <2>2 DEF Put
<1>22. ASSUME NEW p, Put(r, [s EXCEPT !.pc = "execute", !.plan = p])
      PROVE  Quietly
  <2>1. PICK x : x = [s EXCEPT !.pc = "execute", !.plan = p]
    OBVIOUS
  <2>2. Goes(x)
    BY ZenonT(60), <1>2, <1>22, <2>1 DEF SweepRecord, DoingSteps, ArchiveSteps
  <2> QED BY <1>3, <1>22, <2>1, <2>2 DEF Put
<1>23. ASSUME Put(r, [s EXCEPT !.pc = "execute", !.doing = None])
      PROVE  Quietly
  <2>1. PICK x : x = [s EXCEPT !.pc = "execute", !.doing = None]
    OBVIOUS
  <2>2. Goes(x)
    BY ZenonT(60), <1>2, <1>23, <2>1 DEF SweepRecord, DoingSteps, ArchiveSteps
  <2> QED BY <1>3, <1>23, <2>1, <2>2 DEF Put
<1>24. ASSUME NEW w, NEW rec, s.pc \in DoingSteps,
              Put(r, [s EXCEPT !.pc = "archive", !.work = w, !.read = rec])
      PROVE  Quietly
  <2>1. PICK x : x = [s EXCEPT !.pc = "archive", !.work = w, !.read = rec]
    OBVIOUS
  <2>2. Goes(x)
    BY ZenonT(60), <1>2, <1>24, <2>1 DEF SweepRecord, DoingSteps, ArchiveSteps
  <2> QED BY <1>3, <1>24, <2>1, <2>2 DEF Put
<1>25. ASSUME NEW rec, s.pc \in DoingSteps, Put(r, [s EXCEPT !.pc = "archived", !.schedule = rec])
      PROVE  Quietly
  <2>1. PICK x : x = [s EXCEPT !.pc = "archived", !.schedule = rec]
    OBVIOUS
  <2>2. Goes(x)
    BY ZenonT(60), <1>2, <1>25, <2>1 DEF SweepRecord, DoingSteps, ArchiveSteps
  <2> QED BY <1>3, <1>25, <2>1, <2>2 DEF Put
<1>26. ASSUME BeginUser(r) PROVE Quietly
  <2>1. PICK h \in HoldSets :
           Put(r, [s EXCEPT !.pc = "plan", !.holds = h,
                            !.lock = IF Locked(account) THEN account.updated ELSE None])
    BY <1>1, <1>26 DEF BeginUser
  <2> QED BY <1>8, <2>1
<1>27. ASSUME NextQuarantine(r) PROVE Quietly
  <2>1. CASE Goto(r, "revoke")
    BY <1>7, <2>1 DEF DoingSteps, ArchiveSteps
  <2>2. CASE \E w \in s.todo : Put(r, [s EXCEPT !.todo = @ \ {w}])
    BY <1>9, <2>2
  <2>3. CASE \E w \in s.todo : Put(r, [s EXCEPT !.todo = @ \ {w}, !.pc = "host", !.work = w,
                                                !.read = works[w]])
    BY <1>10, <2>3
  <2> QED BY <1>1, <1>27, <2>1, <2>2, <2>3 DEF NextQuarantine
<1>28. ASSUME DisableHost(r) PROVE Quietly
  <2>1. CASE FailUser(r)
    BY <1>5, <2>1 DEF FailUser
  <2>2. CASE \E c \in SUBSET Secrets :
               Put(r, [s EXCEPT !.pc = "unbind", !.cuts = c, !.attached = c, !.seen = secrets])
    BY <1>11, <2>2
  <2> QED BY <1>1, <1>28, <2>1, <2>2 DEF DisableHost
<1>29. ASSUME Unbind(r) PROVE Quietly
  <2>1. CASE FailUser(r)
    BY <1>5, <2>1 DEF FailUser
  <2>2. CASE Goto(r, "lock")
    BY <1>7, <2>2 DEF DoingSteps, ArchiveSteps
  <2>3. CASE \E x \in s.cuts : Put(r, [s EXCEPT !.cuts = @ \ {x}])
    BY <1>12, <2>3
  <2> QED BY <1>1, <1>29, <2>1, <2>2, <2>3 DEF Unbind
<1>30. ASSUME LockSecret(r) PROVE Quietly
  <2>1. CASE FailUser(r)
    BY <1>5, <2>1 DEF FailUser
  <2>2. CASE Put(r, [s EXCEPT !.pc = "save", !.seen = None])
    BY <1>13, <2>2
  <2>3. CASE \E x \in s.attached : Put(r, [s EXCEPT !.attached = @ \ {x}])
    BY <1>14, <2>3
  <2> QED BY <1>1, <1>30, <2>1, <2>2, <2>3 DEF LockSecret
<1>31. ASSUME QuarantineWorkload(r) \/ ArchiveWorkload(r) PROVE Quietly
  <2>1. CASE FailUser(r) \/ Recover(r)
    BY <1>5, <1>6, <2>1 DEF FailUser
  <2>2. CASE Put(r, [s EXCEPT !.pc = "quarantine", !.work = None, !.read = None])
    BY <1>15, <2>2
  <2>3. CASE s.pc = "mark" /\ Put(r, [s EXCEPT !.pc = "finish", !.work = None, !.read = None])
    BY <1>15, <2>3 DEF DoingSteps, ArchiveSteps
  <2> QED BY <1>1, <1>31, <2>1, <2>2, <2>3 DEF QuarantineWorkload, ArchiveWorkload
<1>32. ASSUME RevokeGrant(r) PROVE Quietly
  <2>1. CASE FailUser(r)
    BY <1>5, <2>1 DEF FailUser
  <2>2. CASE Put(r, [s EXCEPT !.pc = "schedule", !.todo = DisableProposals(s.user, schedules)])
    BY <1>16, <2>2
  <2> QED BY <1>1, <1>32, <2>1, <2>2 DEF RevokeGrant
<1>33. ASSUME PauseTimer(r) PROVE Quietly
  <2>1. CASE FailUser(r)
    BY <1>5, <2>1 DEF FailUser
  <2>2. CASE Put(r, [s EXCEPT !.pc = "admin", !.work = None])
    BY <1>17, <2>2
  <2>3. CASE \E w \in s.todo : Put(r, [s EXCEPT !.todo = @ \ {w}])
    BY <1>9, <2>3
  <2>4. CASE \E w \in s.todo : Put(r, [s EXCEPT !.pc = "disable", !.work = w,
                                                !.schedule = schedules[w], !.todo = @ \ {w}])
    BY <1>18, <2>4
  <2> QED BY <1>1, <1>33, <2>1, <2>2, <2>3, <2>4 DEF PauseTimer
<1>34. ASSUME DisableSchedule(r) \/ ArchiveSchedule(r) PROVE Quietly
  <2>1. CASE FailUser(r) \/ Recover(r)
    BY <1>5, <1>6, <2>1 DEF FailUser
  <2>2. CASE Put(r, [s EXCEPT !.pc = "schedule", !.schedule = None])
    BY <1>19, <2>2
  <2>3. CASE s.pc = "archived" /\ Put(r, [s EXCEPT !.pc = "delete", !.schedule = None])
    BY <1>19, <2>3 DEF DoingSteps, ArchiveSteps
  <2> QED BY <1>1, <1>34, <2>1, <2>2, <2>3 DEF DisableSchedule, ArchiveSchedule, SaveSchedule
<1>35. ASSUME PersistAction(r) PROVE Quietly
  <2>1. CASE Put(r, [s EXCEPT !.pc = "execute", !.user = None])
    BY <1>20, <2>1
  <2>2. CASE \E a \in s.wanted : Put(r, [s EXCEPT !.wanted = @ \ {a}])
    BY <1>21, <2>2
  <2>3. CASE Recover(r)
    BY <1>6, <2>3
  <2> QED BY <1>1, <1>35, <2>1, <2>2, <2>3 DEF PersistAction
<1>36. ASSUME RecoverActions(r) PROVE Quietly
  <2>1. CASE FailUser(r)
    BY <1>5, <2>1 DEF FailUser
  <2>2. CASE Put(r, [s EXCEPT !.pc = "execute",
                              !.plan = PlannedActions(account, works, s.holds, s.lock, s.at)])
    BY <1>22, <2>2
  <2> QED BY <1>1, <1>36, <2>1, <2>2 DEF RecoverActions
<1>37. ASSUME Revalidate(r) \/ FinishAction(r) PROVE Quietly
  <2>1. CASE FailUser(r)
    BY <1>5, <2>1 DEF FailUser
  <2>2. CASE s.pc = "revalidate" /\ Goto(r, "reread")
    BY <1>7, <2>2 DEF DoingSteps
  <2>3. CASE Put(r, [s EXCEPT !.pc = "execute", !.doing = None])
    BY <1>23, <2>3
  <2> QED BY <1>1, <1>37, <2>1, <2>2, <2>3 DEF Revalidate, FinishAction
<1>38. ASSUME ReadAgain(r) PROVE Quietly
  BY <1>1, <1>24, <1>38 DEF ReadAgain, DoingSteps
<1>39. ASSUME DeleteTimer(r) \/ DeleteCompute(r) \/ RetireHost(r) PROVE Quietly
  <2>1. CASE FailUser(r)
    BY <1>5, <2>1 DEF FailUser
  <2>2. s.pc \in DoingSteps
    BY <1>1, <1>39 DEF DeleteTimer, DeleteCompute, RetireHost, DoingSteps, ArchiveSteps
  <2>3. CASE \E step \in SweepSteps : Goto(r, step)
    BY <1>7, <2>2, <2>3
  <2>4. CASE Put(r, [s EXCEPT !.pc = "archived", !.schedule = schedules[s.work]])
    BY <1>25, <2>2, <2>4
  <2> QED BY <1>1, <1>39, <2>1, <2>3, <2>4 DEF DeleteTimer, DeleteCompute, RetireHost, SweepSteps
<1>40. ASSUME Acquire(r) PROVE Quietly
  BY <1>7, <1>40 DEF Acquire, Goto, DoingSteps, ArchiveSteps
<1>41. ASSUME DenySessions(r) \/ AdminDecisions(r) \/ RecordTerminal(r) PROVE Quietly
  <2>1. CASE FailUser(r)
    BY <1>5, <2>1 DEF FailUser
  <2>2. CASE \E step \in {"quarantine", "persist", "release"} : Goto(r, step)
    BY <1>7, <2>2 DEF DoingSteps, ArchiveSteps
  <2> QED BY <1>41, <2>1, <2>2 DEF DenySessions, AdminDecisions, RecordTerminal
<1>42. ASSUME HoldsDenied(r) \/ Release(r) \/ Crash(r) PROVE Quietly
  BY <1>4, <1>5, <1>42 DEF HoldsDenied, FailUser, Release, Crash
<1> QED BY <1>26, <1>27, <1>28, <1>29, <1>30, <1>31, <1>32, <1>33, <1>34, <1>35, <1>36, <1>37,
           <1>38, <1>39, <1>40, <1>41, <1>42 DEF SweepStep

LEMMA DayPasses ==
  ASSUME LifecycleInvariant, [Next]_vars
  PROVE  day \in Nat /\ day' \in Nat /\ day <= day'
<1>1. day \in Nat
  BY DaysNamed DEF LifecycleInvariant, ClockKept
<1>2. ASSUME NEW r \in Sweeps, SweepStep(r) PROVE day' = day
  BY <1>2 DEF SweepStep, RecordStarted, BeginUser, HoldsDenied, ReadAndPlan, DenySessions,
     NextQuarantine, DisableHost, Unbind, LockSecret, QuarantineWorkload, RevokeGrant, PauseTimer,
     DisableSchedule, AdminDecisions, PersistAction, RecoverActions, NextAction, Revalidate,
     ReadAgain, DeleteTimer, ArchiveSchedule, DeleteCompute, RetireHost, ArchiveWorkload,
     FinishAction, RecordTerminal, Release, Environment
<1>3. day' = day \/ day' = day + 1
  BY <1>2 DEF Next, Acquire, Crash, NextDay, SyncAccount, RecordActivity, LeaseLapses, vars, Environment
<1> QED BY <1>1, <1>3

(* What was due stays due, and what is recorded stays on record.            *)
LEMMA DueLater ==
  ASSUME LifecycleInvariant, [Next]_vars, NEW a \in ActionRecord, Due(a)
  PROVE  Due(a)'
<1>1. a.created \in Nat
  BY DaysNamed DEF ActionRecord
<1> QED BY <1>1, DayPasses DEF Due

LEMMA ActionsStay ==
  ASSUME LifecycleInvariant, CleanupFacts, [Next]_vars
  PROVE  /\ \A a \in actions' : Due(a)'
         /\ \A id : Stored(id) # {} => Stored(id)' # {}
<1>1. ActionsTyped /\ \A a \in actions : a \in ActionRecord /\ Due(a)
  BY DEF LifecycleInvariant, RecordsKept, ActionsTyped, CleanupFacts
<1> DEFINE Stay == /\ \A a \in actions' : Due(a)'
                   /\ \A id : Stored(id) # {} => Stored(id)' # {}
<1>2. ASSUME UNCHANGED actions PROVE Stay
  BY <1>1, <1>2, DueLater DEF Stored
<1>3. ASSUME NEW id, NEW state, SetAction(id, state) PROVE Stay
  <2>1. ASSUME NEW a \in actions PROVE \E b \in actions' : b.id = a.id
    <3>1. PICK b : b = IF a.id = id THEN [a EXCEPT !.state = state] ELSE a
      OBVIOUS
    <3>2. b \in actions'
      BY <1>3, <3>1 DEF SetAction
    <3>3. b.id = a.id
      BY <1>1, <3>1 DEF ActionRecord
    <3> QED BY <3>2, <3>3
  <2>2. ASSUME NEW b \in actions' PROVE Due(b)'
    <3>1. PICK a \in actions : b = IF a.id = id THEN [a EXCEPT !.state = state] ELSE a
      BY <1>3 DEF SetAction
    <3>2. b.id = a.id /\ b.created = a.created
      BY <1>1, <3>1 DEF ActionRecord
    <3>3. Due(a)'
      BY <1>1, DueLater
    <3> QED BY <3>2, <3>3 DEF Due
  <2> QED BY <2>1, <2>2 DEF Stored
<1>4. ASSUME NEW r \in Sweeps, PersistAction(r) PROVE Stay
  <2>1. CASE UNCHANGED actions
    BY <1>2, <2>1
  <2>2. CASE \E a \in sweeps[r].wanted : actions' = actions \cup {a}
    <3>1. PICK a \in sweeps[r].wanted : actions' = actions \cup {a}
      BY <2>2
    <3>2. a \in ActionRecord /\ Due(a)
      BY SweepFacts DEF SweepRecord, CleanupFacts, CleansUp
    <3> QED BY <1>1, <3>1, <3>2, DueLater DEF Stored
  <2> QED BY <1>4, <2>1, <2>2 DEF PersistAction
<1>5. ASSUME NEW r \in Sweeps, Revalidate(r) \/ FinishAction(r) PROVE Stay
  BY <1>2, <1>3, <1>5 DEF Revalidate, FinishAction
<1>6. ASSUME NEW r \in Sweeps, SweepStep(r), ~PersistAction(r), ~Revalidate(r), ~FinishAction(r)
      PROVE  UNCHANGED actions
  BY <1>6 DEF SweepStep, RecordStarted, BeginUser, HoldsDenied, ReadAndPlan, DenySessions,
     NextQuarantine, DisableHost, Unbind, LockSecret, QuarantineWorkload, RevokeGrant, PauseTimer,
     DisableSchedule, AdminDecisions, RecoverActions, NextAction, ReadAgain, DeleteTimer,
     ArchiveSchedule, DeleteCompute, RetireHost, ArchiveWorkload, RecordTerminal, Release, recordVars
<1>7. ASSUME NEW r \in Sweeps, Acquire(r) \/ Crash(r) PROVE UNCHANGED actions
  BY <1>7 DEF Acquire, Crash, recordVars
<1>8. NextDay \/ SyncAccount \/ RecordActivity \/ LeaseLapses \/ UNCHANGED vars => UNCHANGED actions
  BY DEF NextDay, SyncAccount, RecordActivity, LeaseLapses, vars, recordVars
<1> QED BY <1>2, <1>4, <1>5, <1>6, <1>7, <1>8 DEF Next

(* A quiet step leaves a sweep with nothing but cleanups that are due.      *)
LEMMA QuietCleansUp ==
  ASSUME LifecycleInvariant, CleanupFacts, [Next]_vars, NEW r \in Sweeps, NEW x,
         Quiet(sweeps[r], x)
  PROVE  CleansUp(x)'
<1>1. PICK s : s = sweeps[r]
  OBVIOUS
<1>2. s.at \in Nat /\ s.wanted \subseteq ActionRecord /\ CleansUp(s) /\ Quiet(s, x)
  BY <1>1, SweepFacts, DaysNamed DEF SweepRecord, CleanupFacts
<1>3. x.at <= day'
  BY <1>2, DayPasses DEF Quiet, CleansUp
<1>4. \A a \in x.wanted : Due(a)'
  BY <1>2, DueLater DEF Quiet, CleansUp
<1>5. x.pc \in DoingSteps => Stored(x.doing.id)' # {}
  BY <1>2, ActionsStay DEF Quiet, CleansUp
<1> QED BY <1>3, <1>4, <1>5 DEF CleansUp

LEMMA QuietlyCleansUp ==
  ASSUME LifecycleInvariant, CleanupFacts, [Next]_vars,
         \A q \in Sweeps : Quiet(sweeps[q], sweeps'[q])
  PROVE  CleanupFacts'
<1>1. ASSUME NEW q \in Sweeps PROVE CleansUp(sweeps[q])'
  <2>1. PICK x : x = sweeps'[q]
    OBVIOUS
  <2>2. CleansUp(x)'
    BY <2>1, QuietCleansUp
  <2> QED BY <2>1, <2>2 DEF CleansUp
<1> QED BY <1>1, ActionsStay DEF CleanupFacts

(* One sweep plans, or takes an action up.                                  *)
LEMMA OneCleansUp ==
  ASSUME LifecycleInvariant, CleanupFacts, [Next]_vars, NEW r \in Sweeps, NEW x,
         sweeps' = [sweeps EXCEPT ![r] = x], CleansUp(x)'
  PROVE  CleanupFacts'
<1>1. sweeps = [q \in Sweeps |-> sweeps[q]]
  BY DEF LifecycleInvariant, JobKept
<1>2. ASSUME NEW q \in Sweeps PROVE CleansUp(sweeps[q])'
  <2>1. CASE q = r
    <3>1. sweeps'[q] = x
      BY <1>1, <2>1
    <3> QED BY <3>1 DEF CleansUp
  <2>2. CASE q # r
    <3>1. PICK z : z = sweeps[q]
      OBVIOUS
    <3>2. CleansUp(z)'
      BY <3>1, QuietItself, QuietCleansUp
    <3>3. sweeps'[q] = z
      BY <1>1, <2>2, <3>1
    <3> QED BY <3>2, <3>3 DEF CleansUp
  <2> QED BY <2>1, <2>2
<1> QED BY <1>2, ActionsStay DEF CleanupFacts

(* Only what is due is planned.                                             *)
LEMMA PlansAreDue ==
  ASSUME LifecycleInvariant, NEW holds, NEW lock \in Days \cup {None}, NEW at \in Days,
         NEW p \in PlannedActions(account, works, holds, lock, at), p.id.why # "warning"
  PROVE  p.id.eligible <= at
<1>1. CASE p \in LockedCleanups(account, works, holds, lock, at)
  <2>1. PICK w \in Workloads : /\ p = Plan(w, works[w], account, "locked", lock + GraceDays)
                               /\ at >= lock + GraceDays /\ lock # None
    BY <1>1 DEF LockedCleanups
  <2>2. lock \in Nat /\ at \in Nat /\ GraceDays \in Nat
    BY <2>1, DaysNamed, LifecycleParameters
  <2>3. p.id.eligible = lock + GraceDays
    BY <2>1 DEF Plan, ActionId
  <2> QED BY <2>1, <2>2, <2>3
<1>2. CASE p \in InactivityActions(account, works, holds, at)
  <2>1. CASE \E w \in Workloads : p = Plan(w, works[w], account, "warning", works[w].used + WarningDays)
    BY <2>1 DEF Plan, ActionId
  <2>2. CASE \E w \in Workloads :
               /\ p = Plan(w, works[w], account, "inactive", works[w].used + CleanupDays)
               /\ at >= works[w].used + CleanupDays
    <3>1. PICK w \in Workloads :
               /\ p = Plan(w, works[w], account, "inactive", works[w].used + CleanupDays)
               /\ at >= works[w].used + CleanupDays
      BY <2>2
    <3>2. works[w].used \in Nat /\ at \in Nat /\ CleanupDays \in Nat
      BY DaysNamed, LifecycleParameters, RecordsAreVersioned
         DEF LifecycleInvariant, RecordsKept, StoredTyped
    <3>3. p.id.eligible = works[w].used + CleanupDays
      BY <3>1 DEF Plan, ActionId
    <3> QED BY <3>1, <3>2, <3>3
  <2> QED BY <1>2, <2>1, <2>2 DEF InactivityActions
<1> QED BY <1>1, <1>2 DEF PlannedActions

LEMMA ReadAndPlanCleansUp ==
  ASSUME LifecycleInvariant, CleanupFacts, [Next]_vars, NEW r \in Sweeps, ReadAndPlan(r)
  PROVE  CleanupFacts'
<1>1. PICK s : s = sweeps[r]
  OBVIOUS
<1>2. s \in SweepRecord /\ s.at \in Days /\ s.lock \in Days \cup {None} /\ s.at <= day
  BY <1>1, SweepFacts DEF SweepRecord, CleanupFacts, CleansUp
<1>3. PICK plan : plan = PlannedActions(account, works, s.holds, s.lock, s.at)
  OBVIOUS
<1>4. PICK want : want = { [id |-> p.id, reason |-> p.reason, created |-> s.at,
                            state |-> "planned"] : p \in plan }
  OBVIOUS
<1>5. PICK step \in {"deny", "persist"} : step = IF Locked(account) THEN "deny" ELSE "persist"
  OBVIOUS
<1>6. PICK x : x = [s EXCEPT !.pc = step, !.user = account,
                             !.todo = QuarantineProposals(account, works),
                             !.plan = plan, !.wanted = want]
  OBVIOUS
<1>7. sweeps' = [sweeps EXCEPT ![r] = x]
  BY <1>1, <1>3, <1>4, <1>5, <1>6 DEF ReadAndPlan, Put
<1>8. x.at = s.at /\ x.wanted = want /\ x.pc = step
  BY ZenonT(60), <1>2, <1>6 DEF SweepRecord
<1>9. day' = day
  BY DEF ReadAndPlan, Environment
<1>10. ASSUME NEW a \in want PROVE Due(a)'
  <2>1. PICK p \in plan : a.id = p.id /\ a.created = s.at
    BY <1>4
  <2>2. p.id.why # "warning" => p.id.eligible <= s.at
    BY <1>2, <1>3, PlansAreDue
  <2> QED BY <1>2, <1>9, <2>1, <2>2 DEF Due
<1>11. x.pc \notin DoingSteps
  BY <1>5, <1>8 DEF DoingSteps, ArchiveSteps
<1>12. CleansUp(x)'
  BY <1>2, <1>8, <1>9, <1>10, <1>11 DEF CleansUp
<1> QED BY <1>7, <1>12, OneCleansUp

LEMMA NextActionCleansUp ==
  ASSUME LifecycleInvariant, CleanupFacts, [Next]_vars, NEW r \in Sweeps, NextAction(r)
  PROVE  CleanupFacts'
<1>1. PICK s : s = sweeps[r]
  OBVIOUS
<1>2. s \in SweepRecord /\ s.pc = "execute" /\ CleansUp(s)
  BY <1>1, SweepFacts DEF CleanupFacts, NextAction
<1>3. UNCHANGED << day, actions >>
  BY DEF NextAction, Environment, recordVars
<1>4. CASE EndUser(r)
  <2>1. PICK x : x = [IdleSweep EXCEPT !.pc = "terminal", !.lapsed = s.lapsed]
    OBVIOUS
  <2>2. x.at = 0 /\ x.wanted = {} /\ x.pc = "terminal"
    BY <2>1 DEF IdleSweep
  <2>3. CleansUp(x)'
    BY <2>2, DayPasses DEF CleansUp, DoingSteps, ArchiveSteps
  <2>4. sweeps' = [sweeps EXCEPT ![r] = x]
    BY <1>1, <1>4, <2>1 DEF EndUser, Put
  <2> QED BY <2>3, <2>4, OneCleansUp
<1>5. ASSUME NEW p \in s.plan, Put(r, [s EXCEPT !.plan = @ \ {p}]) PROVE CleanupFacts'
  <2>1. PICK x : x = [s EXCEPT !.plan = @ \ {p}]
    OBVIOUS
  <2>2. x.at = s.at /\ x.wanted = s.wanted /\ x.pc = "execute"
    BY ZenonT(60), <1>2, <2>1 DEF SweepRecord
  <2>3. CleansUp(x)'
    BY <1>2, <1>3, <2>2 DEF CleansUp, DoingSteps, ArchiveSteps, Due
  <2>4. sweeps' = [sweeps EXCEPT ![r] = x]
    BY <1>1, <1>5, <2>1 DEF Put
  <2> QED BY <2>3, <2>4, OneCleansUp
<1>6. ASSUME NEW p \in s.plan, NEW step, Stored(p.id) # {},
             Put(r, [[s EXCEPT !.plan = @ \ {p}] EXCEPT !.doing = p, !.pc = step])
      PROVE  CleanupFacts'
  <2>1. PICK y : y = [s EXCEPT !.plan = @ \ {p}]
    OBVIOUS
  <2>2. y \in SweepRecord /\ y.at = s.at /\ y.wanted = s.wanted
    BY ZenonT(60), <1>2, <2>1 DEF SweepRecord
  <2>3. PICK x : x = [y EXCEPT !.doing = p, !.pc = step]
    OBVIOUS
  <2>4. x.at = s.at /\ x.wanted = s.wanted /\ x.doing = p
    BY ZenonT(60), <2>2, <2>3 DEF SweepRecord
  <2>5. CleansUp(x)'
    BY <1>2, <1>3, <1>6, <2>4 DEF CleansUp, Due, Stored
  <2>6. sweeps' = [sweeps EXCEPT ![r] = x]
    BY <1>6, <2>1, <2>3 DEF Put
  <2> QED BY <2>5, <2>6, OneCleansUp
<1>7. \/ EndUser(r)
      \/ \E p \in s.plan : Put(r, [s EXCEPT !.plan = @ \ {p}])
      \/ \E p \in s.plan : \E step \in {"finish", "revalidate"} :
            /\ Stored(p.id) # {}
            /\ Put(r, [[s EXCEPT !.plan = @ \ {p}] EXCEPT !.doing = p, !.pc = step])
  BY <1>1 DEF NextAction, FailUser
<1> QED BY <1>4, <1>5, <1>6, <1>7

LEMMA RecordStartedCleansUp ==
  ASSUME LifecycleInvariant, CleanupFacts, [Next]_vars, NEW r \in Sweeps, RecordStarted(r)
  PROVE  CleanupFacts'
<1>1. PICK s : s = sweeps[r]
  OBVIOUS
<1>2. s \in SweepRecord /\ CleansUp(s)
  BY <1>1, SweepFacts DEF CleanupFacts
<1>3. UNCHANGED << day, actions >>
  BY DEF RecordStarted, Environment, recordVars
<1>4. PICK x : x = [s EXCEPT !.pc = "begin", !.at = day]
  OBVIOUS
<1>5. x.at = day /\ x.wanted = s.wanted /\ x.pc = "begin"
  BY ZenonT(60), <1>2, <1>4 DEF SweepRecord
<1>6. CleansUp(x)'
  BY <1>2, <1>3, <1>5, DayPasses DEF CleansUp, DoingSteps, ArchiveSteps, Due
<1>7. sweeps' = [sweeps EXCEPT ![r] = x]
  BY <1>1, <1>4 DEF RecordStarted
<1> QED BY <1>6, <1>7, OneCleansUp

LEMMA LapsesQuietly ==
  ASSUME LifecycleInvariant, LeaseLapses
  PROVE  \A q \in Sweeps : Quiet(sweeps[q], sweeps'[q])
<1>1. sweeps = [q \in Sweeps |-> sweeps[q]] /\ \A q \in Sweeps : sweeps[q] \in SweepRecord
  BY SweepFacts DEF LifecycleInvariant, JobKept
<1>2. CASE UNCHANGED sweeps
  BY <1>2, QuietItself
<1>3. CASE sweeps' = [sweeps EXCEPT ![lease.holder].lapsed = TRUE]
  <2> SUFFICES ASSUME NEW q \in Sweeps PROVE Quiet(sweeps[q], sweeps'[q])
    OBVIOUS
  <2>1. PICK s \in SweepRecord : s = sweeps[q]
    BY <1>1
  <2>2. PICK x : x = [s EXCEPT !.lapsed = TRUE]
    OBVIOUS
  <2>3. Quiet(s, x)
    BY <2>1, <2>2 DEF Quiet, SweepRecord
  <2>4. sweeps'[q] \in {s, x}
    BY <1>1, <1>3, <2>1, <2>2
  <2> QED BY <2>1, <2>3, <2>4, QuietItself
<1> QED BY <1>2, <1>3 DEF LeaseLapses

LEMMA CleanupFactsHold == Spec => []CleanupFacts
<1>1. Init => CleanupFacts
  <2> SUFFICES ASSUME Init PROVE CleanupFacts
    OBVIOUS
  <2>1. actions = {} /\ day = 0 /\ sweeps = [r \in Sweeps |-> IdleSweep]
    BY DEF Init, InitAfter
  <2> QED BY <2>1 DEF CleanupFacts, CleansUp, IdleSweep, DoingSteps, ArchiveSteps
<1>2. LifecycleInvariant /\ CleanupFacts /\ [Next]_vars => CleanupFacts'
  <2> SUFFICES ASSUME LifecycleInvariant, CleanupFacts, [Next]_vars PROVE CleanupFacts'
    OBVIOUS
  <2>1. ASSUME NEW r \in Sweeps, Acquire(r) \/ SweepStep(r) \/ Crash(r) PROVE CleanupFacts'
    BY <2>1, SweepIsQuiet, QuietlyCleansUp, RecordStartedCleansUp, ReadAndPlanCleansUp,
       NextActionCleansUp
  <2>2. ASSUME UNCHANGED sweeps PROVE CleanupFacts'
    BY <2>2, QuietItself, QuietlyCleansUp
  <2>3. NextDay \/ SyncAccount \/ RecordActivity \/ UNCHANGED vars => UNCHANGED sweeps
    BY DEF NextDay, SyncAccount, RecordActivity, vars
  <2> QED BY <2>1, <2>2, <2>3, LapsesQuietly, QuietlyCleansUp DEF Next
<1> QED BY <1>1, <1>2, LifecycleInvariantHolds, PTL DEF Spec

(* A service, a job or a timer is deleted for a cleanup that some sweep has *)
(* recorded when it was due, whoever plans it again, recovers it and        *)
(* carries it out (_persist_action, execute_planned_action).                *)
THEOREM CleanupsWereDue == Spec => CleanupsAreDue
<1> DEFINE WereDue == \A w \in Workloads : Deletes(w) =>
                        \E a \in actions : /\ a.id.workload = w
                                           /\ a.id.why # "warning"
                                           /\ a.id.eligible <= a.created
                                           /\ a.created <= day
<1>1. LifecycleInvariant /\ CleanupFacts /\ [Next]_vars => WereDue
  <2> SUFFICES ASSUME LifecycleInvariant, CleanupFacts, [Next]_vars, NEW w \in Workloads, Deletes(w)
               PROVE  \E a \in actions : /\ a.id.workload = w
                                         /\ a.id.why # "warning"
                                         /\ a.id.eligible <= a.created
                                         /\ a.created <= day
    OBVIOUS
  <2>1. compute \in [Workloads -> BOOLEAN] /\ timers \in [Scripts -> {"enabled", "paused", "deleted"}]
    BY DEF LifecycleInvariant, RecordsKept, StoredTyped
  <2>2. ASSUME NEW r \in Sweeps, DeleteTimer(r) \/ DeleteCompute(r)
        PROVE  \E a \in actions : /\ a.id.workload = w
                                  /\ a.id.why # "warning"
                                  /\ a.id.eligible <= a.created
                                  /\ a.created <= day
    <3>1. PICK s : s = sweeps[r]
      OBVIOUS
    <3>2. s.pc \in ArchiveSteps
      BY <2>2, <3>1 DEF DeleteTimer, DeleteCompute, ArchiveSteps
    <3>3. s.doing.id.why # "warning" /\ s.doing.id.workload = s.work
      BY <3>1, <3>2, ArchivingFacts
    <3>4. w = s.work
      BY <2>1, <2>2, <3>1 DEF Deletes, DeleteTimer, DeleteCompute, EraseCompute, EraseTimer
    <3>5. PICK a \in actions : a.id = s.doing.id
      BY <3>1, <3>2 DEF CleanupFacts, CleansUp, DoingSteps, Stored
    <3> QED BY <3>3, <3>4, <3>5 DEF CleanupFacts, Due
  <2>3. ASSUME NEW r \in Sweeps, PauseTimer(r) PROVE FALSE
    BY <2>1, <2>3 DEF PauseTimer, Deletes
  <2>4. ASSUME NEW r \in Sweeps, SweepStep(r), ~PauseTimer(r), ~DeleteTimer(r), ~DeleteCompute(r)
        PROVE  UNCHANGED << compute, timers >>
    BY <2>4 DEF SweepStep, RecordStarted, BeginUser, HoldsDenied, ReadAndPlan, DenySessions,
       NextQuarantine, DisableHost, Unbind, LockSecret, QuarantineWorkload, RevokeGrant,
       DisableSchedule, AdminDecisions, PersistAction, RecoverActions, NextAction, Revalidate,
       ReadAgain, ArchiveSchedule, RetireHost, ArchiveWorkload, FinishAction, RecordTerminal,
       Release, recordVars
  <2>5. ASSUME NEW r \in Sweeps, Acquire(r) \/ Crash(r) PROVE UNCHANGED << compute, timers >>
    BY <2>5 DEF Acquire, Crash, recordVars
  <2>6. NextDay \/ SyncAccount \/ RecordActivity \/ LeaseLapses \/ UNCHANGED vars
          => UNCHANGED << compute, timers >>
    BY DEF NextDay, SyncAccount, RecordActivity, LeaseLapses, vars, recordVars
  <2>7. ~UNCHANGED << compute, timers >>
    BY DEF Deletes
  <2> QED BY <2>2, <2>3, <2>4, <2>5, <2>6, <2>7 DEF Next
<1>2. LifecycleInvariant /\ CleanupFacts /\ [Next]_vars => [WereDue]_vars
  BY <1>1
<1> QED BY <1>2, LifecycleInvariantHolds, CleanupFactsHold, PTL DEF Spec, CleanupsAreDue
================================================================================
