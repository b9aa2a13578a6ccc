----------------------------- MODULE DirectoryProofs -----------------------------
(***************************************************************************)
(* Proofs about the company directory and its copy, as steps of the whole  *)
(* people side (Accounts): what every other part finds of the clock, the   *)
(* budget and the user records.                                            *)
(***************************************************************************)
EXTENDS Accounts, TLAPS

Kinds == {"ticks", "moves", "syncs", "installs", "commands", "requests",
          "deliveries", "rotations", "bills", "guards", "visits", "trouble"}
Accounted == {"gone", "suspended", "active"}

JobRecord == [pc : {"idle", "leased", "users", "collected", "read", "applied", "completed"},
              started : Nat, completed : Nat, seen : [People -> Accounted \cup {"unread"}],
              members : SUBSET People, read : {<<>>} \cup [People -> UserRecord],
              replayed : BOOLEAN]

(* The clock never passes its bound, and nothing is spent that is not there. *)
BudgetKept ==
    /\ now \in Nat /\ budget \in [Kinds -> Nat]
    /\ \E b \in Budgets :
          /\ \A kind \in Kinds : budget[kind] <= b[kind]
          /\ now + budget["ticks"] <= b["ticks"]

(* The company, and when it last said something of a person.               *)
CompanyKept ==
    /\ company \in [People -> [account : Accounted, member : BOOLEAN]]
    /\ left \in [People -> 0..now] /\ dropped \in [People -> 0..now]

(* The user records and the snapshots. Until a snapshot is applied they    *)
(* are what the control plane started with.                                *)
RecordsKept ==
    /\ users \in [People -> UserRecord]
    /\ ledger \in Seq(SnapshotRecord)
    /\ \A i \in DOMAIN ledger : ledger[i].at <= now
    /\ ledger = <<>> =>
         \A p \in People : users[p].state = "active" /\ users[p].synced = 0

(* A record that is newer than the one that was read has another version.  *)
ReadStands(old, current) ==
    old.version <= current.version /\ (old.version = current.version => old = current)

(* What a run of the sync job holds at the step it is about to do: a        *)
(* snapshot's instant is its own, and a user is never synced at it before. *)
RunStands(x) ==
    /\ x \in JobRecord
    /\ x.pc \notin {"idle", "leased"} =>
         /\ x.seen \in [People -> Accounted] /\ x.started <= now
         /\ \A p \in People : x.seen[p] = "active" => x.started <= ActiveUntil(p)
    /\ x.pc \in {"collected", "read"} =>
         /\ x.completed \in 1..now
         /\ \A i \in DOMAIN ledger : ledger[i].at # x.completed
         /\ \A p \in x.members : x.started <= MemberUntil(p)
    /\ x.pc = "read" =>
         /\ x.completed - x.started <= MaxCollection
         /\ x.read \in [People -> UserRecord]
         /\ \A p \in People : /\ ReadStands(x.read[p], users[p])
                              /\ x.read[p].synced # x.completed

Pending(j) == job[j].pc \in {"collected", "read"}

JobsKept ==
    /\ job \in [Jobs -> JobRecord]
    /\ \A j \in Jobs : RunStands(job[j])
    /\ \A j, k \in Jobs :
          j # k /\ Pending(j) /\ Pending(k) => job[j].completed # job[k].completed

(* Whoever a record calls active, or a member, was so when the collection  *)
(* behind the record began.                                                *)
RecordsAreRecent ==
    \A p \in People :
        /\ users[p].state = "active" => users[p].synced <= ActiveUntil(p) + MaxCollection
        /\ users[p].member => users[p].synced <= MemberUntil(p) + MaxCollection

DirectoryInvariant ==
    /\ BudgetKept /\ CompanyKept /\ RecordsKept /\ JobsKept
    /\ lease \in LeaseRecord
    /\ UsersFollowTheLastSnapshot
    /\ RecordsAreRecent

--------------------------------------------------------------------------------
(* A step of any part uses up at most one thing of one kind.               *)
BudgetStep == budget' = budget \/ \E kind \in Kinds : Spend(kind)

LEMMA BudgetsTyped == Budgets \subseteq [Kinds -> Nat]
BY DirectoryBounds DEF Kinds

LEMMA SpendIsBudgetStep == ASSUME NEW kind \in Kinds, Spend(kind) PROVE BudgetStep
BY DEF BudgetStep

LEMMA KindsNamed ==
  /\ "ticks" \in Kinds /\ "moves" \in Kinds /\ "syncs" \in Kinds /\ "installs" \in Kinds
  /\ "commands" \in Kinds /\ "requests" \in Kinds /\ "deliveries" \in Kinds
  /\ "rotations" \in Kinds /\ "bills" \in Kinds /\ "guards" \in Kinds
  /\ "visits" \in Kinds /\ "trouble" \in Kinds
BY DEF Kinds

LEMMA NowIsBounded == ASSUME BudgetKept PROVE now \in 0..MaxTime
<1>1. PICK b \in Budgets : now + budget["ticks"] <= b["ticks"]
  BY DEF BudgetKept
<1>2. b["ticks"] \in Nat /\ budget["ticks"] \in Nat
  BY BudgetsTyped, KindsNamed DEF BudgetKept
<1> QED BY <1>1, <1>2, DirectoryBounds DEF BudgetKept

(* A step that leaves the clock alone.                                      *)
LEMMA BudgetStepKeeps ==
  ASSUME BudgetKept, BudgetStep, UNCHANGED now
  PROVE  BudgetKept'
<1>1. CASE budget' = budget
  BY <1>1 DEF BudgetKept
<1>2. ASSUME NEW kind \in Kinds, Spend(kind) PROVE BudgetKept'
  <2>1. PICK b \in Budgets : /\ \A k \in Kinds : budget[k] <= b[k]
                             /\ now + budget["ticks"] <= b["ticks"]
    BY DEF BudgetKept
  <2>2. b \in [Kinds -> Nat]
    BY BudgetsTyped
  <2>3. budget' \in [Kinds -> Nat] /\ \A k \in Kinds : budget'[k] <= budget[k]
    BY <1>2 DEF Spend, BudgetKept
  <2>4. /\ \A k \in Kinds : budget'[k] <= b[k]
        /\ now' + budget'["ticks"] <= b["ticks"]
    BY <2>1, <2>2, <2>3, KindsNamed DEF BudgetKept
  <2> QED BY <2>3, <2>4 DEF BudgetKept
<1> QED BY <1>1, <1>2 DEF BudgetStep

(* A step that moves the clock.                                             *)
LEMMA TickKeepsBudget ==
  ASSUME BudgetKept, Spend("ticks"), now' = now + 1
  PROVE  BudgetKept'
<1>1. PICK b \in Budgets : /\ \A k \in Kinds : budget[k] <= b[k]
                           /\ now + budget["ticks"] <= b["ticks"]
  BY DEF BudgetKept
<1>2. b \in [Kinds -> Nat]
  BY BudgetsTyped
<1>3. /\ budget' \in [Kinds -> Nat]
      /\ \A k \in Kinds : budget'[k] <= budget[k]
      /\ budget'["ticks"] = budget["ticks"] - 1
  BY KindsNamed DEF Spend, BudgetKept
<1>4. /\ \A k \in Kinds : budget'[k] <= b[k]
      /\ now' + budget'["ticks"] <= b["ticks"]
  BY <1>1, <1>2, <1>3, KindsNamed DEF BudgetKept
<1> QED BY <1>3, <1>4 DEF BudgetKept

LEMMA InitialBudget == ASSUME DirectoryInit PROVE BudgetKept
<1>1. budget \in [Kinds -> Nat]
  BY BudgetsTyped DEF DirectoryInit
<1>2. \A kind \in Kinds : budget[kind] <= budget[kind]
  BY <1>1
<1>3. now = 0 /\ now + budget["ticks"] <= budget["ticks"]
  BY <1>1, KindsNamed DEF DirectoryInit
<1>4. budget \in Budgets
  BY DEF DirectoryInit
<1> QED BY <1>1, <1>2, <1>3, <1>4 DEF BudgetKept

--------------------------------------------------------------------------------
(* Time and the company move on: what the directory said last is only ever *)
(* said later.                                                             *)
TimeMovesOn ==
    /\ now' \in Nat /\ now <= now'
    /\ \A p \in People : ActiveUntil(p) <= ActiveUntil(p)' /\ MemberUntil(p) <= MemberUntil(p)'

LEMMA UntilTyped ==
  ASSUME BudgetKept, CompanyKept
  PROVE  \A p \in People : /\ ActiveUntil(p) \in Nat /\ ActiveUntil(p) <= now
                           /\ MemberUntil(p) \in Nat /\ MemberUntil(p) <= now
BY DEF BudgetKept, CompanyKept, ActiveUntil, MemberUntil

LEMMA ClockIsTime ==
  ASSUME BudgetKept, CompanyKept, now' = now + 1, UNCHANGED << company, left, dropped >>
  PROVE  TimeMovesOn /\ CompanyKept'
<1>1. now' \in Nat /\ now <= now'
  BY DEF BudgetKept
<1>2. \A p \in People : ActiveUntil(p) <= ActiveUntil(p)' /\ MemberUntil(p) <= MemberUntil(p)'
  BY DEF BudgetKept, CompanyKept, ActiveUntil, MemberUntil, Active, Member
<1>3. CompanyKept'
  BY DEF BudgetKept, CompanyKept
<1> QED BY <1>1, <1>2, <1>3 DEF TimeMovesOn

LEMMA MoveIsTime ==
  ASSUME BudgetKept, CompanyKept, NEW p \in People, Move(p)
  PROVE  TimeMovesOn /\ CompanyKept'
<1> USE DEF BudgetKept, CompanyKept
<1>1. company' \in [People -> [account : Accounted, member : BOOLEAN]]
  <2>1. CASE \E account \in {"gone", "suspended", "active"} \ {company[p].account} :
               company' = [company EXCEPT ![p].account = account]
    BY <2>1 DEF Accounted
  <2>2. CASE company' = [company EXCEPT ![p].member = ~@]
    BY <2>2
  <2> QED BY <2>1, <2>2 DEF Move
<1>2. \A q \in People : q # p =>
        /\ company'[q] = company[q] /\ left'[q] = left[q] /\ dropped'[q] = dropped[q]
  BY DEF Move
<1>3. /\ left'[p] = ActiveUntil(p) /\ dropped'[p] = MemberUntil(p)
      /\ left' \in [People -> 0..now] /\ dropped' \in [People -> 0..now]
  BY UntilTyped DEF Move
<1>4. now' = now
  BY DEF Move
<1>5. CompanyKept'
  BY <1>1, <1>3, <1>4
<1>6. \A q \in People : ActiveUntil(q) <= ActiveUntil(q)' /\ MemberUntil(q) <= MemberUntil(q)'
  <2> SUFFICES ASSUME NEW q \in People
               PROVE  ActiveUntil(q) <= ActiveUntil(q)' /\ MemberUntil(q) <= MemberUntil(q)'
    OBVIOUS
  <2>1. CASE q = p
    BY <2>1, <1>3, <1>4, UntilTyped DEF ActiveUntil, MemberUntil
  <2>2. CASE q # p
    BY <2>2, <1>2, <1>4 DEF ActiveUntil, MemberUntil, Active, Member
  <2> QED BY <2>1, <2>2
<1> QED BY <1>4, <1>5, <1>6 DEF TimeMovesOn

(* As time moves on a run keeps what it holds, and so do the records.      *)
LEMMA RunsStandInTime ==
  ASSUME DirectoryInvariant, CompanyKept', TimeMovesOn, UNCHANGED << users, ledger >>, NEW x, RunStands(x)
  PROVE  RunStands(x)'
<1>1. /\ now \in Nat /\ now' \in Nat /\ now <= now'
      /\ \A p \in People : ActiveUntil(p) \in Nat /\ MemberUntil(p) \in Nat
      /\ \A p \in People : ActiveUntil(p)' \in Nat /\ MemberUntil(p)' \in Nat
      /\ \A p \in People : ActiveUntil(p) <= ActiveUntil(p)' /\ MemberUntil(p) <= MemberUntil(p)'
  <2>1. \A p \in People : ActiveUntil(p)' \in Nat /\ MemberUntil(p)' \in Nat
    BY DEF TimeMovesOn, CompanyKept, ActiveUntil, MemberUntil
  <2> QED BY <2>1, UntilTyped DEF TimeMovesOn, DirectoryInvariant, BudgetKept
<1>2. x \in JobRecord
  BY DEF RunStands
<1>3. x.pc \notin {"idle", "leased"} =>
        /\ x.seen \in [People -> Accounted] /\ x.started <= now'
        /\ \A p \in People : x.seen[p] = "active" => x.started <= ActiveUntil(p)'
  BY <1>1, <1>2 DEF RunStands, JobRecord
<1>4. x.pc \in {"collected", "read"} =>
         /\ x.completed \in 1..now'
         /\ \A i \in DOMAIN ledger : ledger[i].at # x.completed
         /\ \A p \in x.members : x.started <= MemberUntil(p)'
  <2> SUFFICES ASSUME x.pc \in {"collected", "read"}
               PROVE  /\ x.completed \in 1..now'
                      /\ \A i \in DOMAIN ledger : ledger[i].at # x.completed
                      /\ \A p \in x.members : x.started <= MemberUntil(p)'
    OBVIOUS
  <2>1. /\ x.completed \in 1..now
        /\ \A i \in DOMAIN ledger : ledger[i].at # x.completed
        /\ \A p \in x.members : x.started <= MemberUntil(p)
    BY DEF RunStands
  <2>2. x.members \subseteq People /\ x.started \in Nat
    BY <1>2 DEF JobRecord
  <2> QED BY <1>1, <2>1, <2>2
<1> QED BY <1>2, <1>3, <1>4 DEF RunStands

LEMMA RecordsStandInTime ==
  ASSUME DirectoryInvariant, CompanyKept', TimeMovesOn, UNCHANGED << users, ledger >>
  PROVE  RecordsKept' /\ UsersFollowTheLastSnapshot' /\ RecordsAreRecent'
<1>1. RecordsKept'
  <2>1. \A i \in DOMAIN ledger : ledger[i] \in SnapshotRecord
    BY DEF DirectoryInvariant, RecordsKept
  <2>2. \A i \in DOMAIN ledger : ledger[i].at <= now'
    <3>1. now \in Nat /\ now' \in Nat /\ now <= now' /\ \A i \in DOMAIN ledger : ledger[i].at <= now
      BY DEF DirectoryInvariant, RecordsKept, BudgetKept, TimeMovesOn
    <3>2. \A i \in DOMAIN ledger : ledger[i].at \in Int
      BY <2>1, DirectoryBounds DEF SnapshotRecord
    <3> QED BY <3>1, <3>2
  <2> QED BY <2>2 DEF DirectoryInvariant, RecordsKept
<1>2. UsersFollowTheLastSnapshot'
  BY DEF DirectoryInvariant, UsersFollowTheLastSnapshot, Projected, Last
<1>3. RecordsAreRecent'
  <2> SUFFICES ASSUME NEW p \in People
               PROVE  /\ users[p].state = "active" => users[p].synced <= ActiveUntil(p)' + MaxCollection
                      /\ users[p].member => users[p].synced <= MemberUntil(p)' + MaxCollection
    BY DEF RecordsAreRecent
  <2>1. /\ ActiveUntil(p) \in Nat /\ MemberUntil(p) \in Nat
        /\ ActiveUntil(p)' \in Nat /\ MemberUntil(p)' \in Nat
    BY UntilTyped DEF DirectoryInvariant, TimeMovesOn, CompanyKept, ActiveUntil, MemberUntil
  <2>2. ActiveUntil(p) <= ActiveUntil(p)' /\ MemberUntil(p) <= MemberUntil(p)'
    BY DEF TimeMovesOn
  <2>3. users[p].synced \in Nat /\ MaxCollection \in Nat
    BY DirectoryBounds DEF DirectoryInvariant, RecordsKept, UserRecord
  <2> QED BY <2>1, <2>2, <2>3 DEF DirectoryInvariant, RecordsAreRecent
<1> QED BY <1>1, <1>2, <1>3

(* A step of a run that applies nothing.                                   *)
LEMMA RunMoves ==
  ASSUME DirectoryInvariant, BudgetStep, NEW j \in Jobs, NEW x, RunStands(x),
         job' = [job EXCEPT ![j] = x],
         x.pc \in {"collected", "read"} => Pending(j) /\ x.completed = job[j].completed,
         lease' \in LeaseRecord,
         UNCHANGED << now, company, left, dropped, users, ledger >>
  PROVE  DirectoryInvariant'
<1>1. BudgetKept'
  BY BudgetStepKeeps DEF DirectoryInvariant
<1>2. CompanyKept' /\ TimeMovesOn
  BY UntilTyped DEF DirectoryInvariant, CompanyKept, TimeMovesOn, BudgetKept,
     ActiveUntil, MemberUntil, Active, Member
<1>3. RecordsKept' /\ UsersFollowTheLastSnapshot' /\ RecordsAreRecent'
  BY <1>2, RecordsStandInTime
<1>4. JobsKept'
  <2>1. job' \in [Jobs -> JobRecord]
    BY DEF DirectoryInvariant, JobsKept, RunStands
  <2>2. \A k \in Jobs : job'[k] = IF k = j THEN x ELSE job[k]
    BY DEF DirectoryInvariant, JobsKept
  <2>3. \A k \in Jobs : RunStands(job[k])
    BY DEF DirectoryInvariant, JobsKept
  <2>4. \A k \in Jobs : RunStands(job[k])'
    BY <2>2, <2>3 DEF RunStands, ActiveUntil, MemberUntil, Active, Member
  <2>5. \A i, k \in Jobs :
          i # k /\ Pending(i)' /\ Pending(k)' => job'[i].completed # job'[k].completed
    BY <2>2 DEF DirectoryInvariant, JobsKept, Pending
  <2> QED BY <2>1, <2>4, <2>5 DEF JobsKept
<1> QED BY <1>1, <1>2, <1>3, <1>4 DEF DirectoryInvariant

LEMMA TargetStateTyped ==
  ASSUME NEW state \in {"active", "suspended", "offboarded"}, NEW account, NEW member
  PROVE  /\ TargetState(state, account, member) \in {"active", "suspended", "offboarded"}
         /\ TargetState(state, account, member) = "active" => account = "active" /\ member
         /\ TargetState(state, account, member) = "offboarded"
              <=> state = "offboarded" \/ account = "gone"
BY DEF TargetState

(* Because no user was ever synced at the instant of the snapshot, each is *)
(* written, and each was still what the run had read.                      *)
LEMMA CommitWritesEverybody ==
  ASSUME DirectoryInvariant, NEW j \in Jobs, job[j].pc = "read",
         Buildable(j), Current(j), Commit(j)
  PROVE  /\ users' \in [People -> UserRecord]
         /\ \A p \in People :
              /\ users[p].synced <= job[j].completed
              /\ users'[p].state =
                   TargetState(users[p].state, job[j].seen[p], p \in job[j].members)
              /\ users'[p].member = (p \in job[j].members)
              /\ users'[p].synced = job[j].completed
              /\ users'[p].version = users[p].version + 1
<1> DEFINE at == job[j].completed
           inGroup(p) == p \in job[j].members
           old(p) == job[j].read[p]
           new(p) == [state   |-> Target(j, p), member |-> inGroup(p), synced |-> at,
                      updated |-> IF Target(j, p) # old(p).state \/ inGroup(p) # old(p).member
                                  THEN at ELSE old(p).updated,
                      version |-> old(p).version + 1]
<1>1. RunStands(job[j]) /\ job[j].pc = "read" /\ now \in 0..MaxTime
  BY NowIsBounded DEF DirectoryInvariant, JobsKept
<1>2. /\ job[j].read \in [People -> UserRecord] /\ at \in 1..now
      /\ \A p \in People : ReadStands(old(p), users[p]) /\ old(p).synced # at
  BY <1>1 DEF RunStands
<1>3. \A p \in People : old(p) \in UserRecord /\ users[p] \in UserRecord
  BY <1>2 DEF DirectoryInvariant, RecordsKept
<1>4. \A p \in People : Change(j, p) = new(p) /\ Change(j, p).version # old(p).version
  <2> SUFFICES ASSUME NEW p \in People
               PROVE  Change(j, p) = new(p) /\ Change(j, p).version # old(p).version
    OBVIOUS
  <2>1. old(p).synced # at
    BY <1>2
  <2>2. Change(j, p) = new(p)
    BY <2>1 DEF Change, Reconciled
  <2>3. old(p).version \in Nat
    BY <1>3 DEF UserRecord
  <2> QED BY <2>2, <2>3
<1>5. Changed(j) = People
  BY <1>4 DEF Changed
<1>6. \A p \in People : users[p] = old(p)
  BY <1>2, <1>5 DEF Current, ReadStands
<1>7. \A p \in People : users'[p] = new(p)
  BY <1>4, <1>5 DEF Commit
<1>8. \A p \in People : users[p].synced <= at
  BY <1>6, <1>2, <1>3 DEF Buildable, Reconcilable, UserRecord
<1>9. \A p \in People : new(p) \in UserRecord
  <2> SUFFICES ASSUME NEW p \in People PROVE new(p) \in UserRecord
    OBVIOUS
  <2>1. Target(j, p) \in {"active", "suspended", "offboarded"}
    BY <1>3, TargetStateTyped DEF Target, UserRecord
  <2>2. at \in 0..MaxTime /\ old(p).version + 1 \in Nat \ {0} /\ inGroup(p) \in BOOLEAN
    BY <1>1, <1>2, <1>3, DirectoryBounds DEF UserRecord
  <2>3. old(p).updated \in 0..MaxTime
    BY <1>3 DEF UserRecord
  <2> HIDE DEF at
  <2> QED BY <2>1, <2>2, <2>3 DEF UserRecord
<1>10. users' \in [People -> UserRecord]
  BY <1>7, <1>9, <1>5 DEF Commit
<1>11. \A p \in People : Target(j, p) = TargetState(users[p].state, job[j].seen[p], p \in job[j].members)
  BY <1>6 DEF Target
<1> QED BY <1>6, <1>7, <1>8, <1>10, <1>11

(* Whom a snapshot ever missed is offboarded for good, and nobody else is. *)
LEMMA OffboardedMeansGone ==
  ASSUME DirectoryInvariant, NEW p \in People
  PROVE  users[p].state = "offboarded" <=> \E i \in DOMAIN ledger : ledger[i].seen[p] = "gone"
<1>1. CASE ledger = <<>>
  BY <1>1 DEF DirectoryInvariant, RecordsKept
<1>2. CASE ledger # <<>>
  <2>1. users[p].state = Projected(p)
    BY <1>2 DEF DirectoryInvariant, UsersFollowTheLastSnapshot
  <2>2. Len(ledger) \in DOMAIN ledger
    BY <1>2 DEF DirectoryInvariant, RecordsKept
  <2> QED BY <2>1, <2>2 DEF Projected, TargetState, Last
<1> QED BY <1>1, <1>2

(* The records after a commit.                                             *)
LEMMA CommitKeepsRecords ==
  ASSUME DirectoryInvariant, NEW j \in Jobs, job[j].pc = "read",
         Buildable(j), Current(j), Commit(j),
         UNCHANGED << now, company, left, dropped >>
  PROVE  /\ RecordsKept' /\ UsersFollowTheLastSnapshot' /\ RecordsAreRecent'
         /\ ledger' = Append(ledger, Snapshot(j)) /\ Snapshot(j) \in SnapshotRecord
<1> DEFINE at == job[j].completed
<1>1. /\ users' \in [People -> UserRecord]
      /\ \A p \in People :
           /\ users[p].synced <= at
           /\ users'[p].state =
                TargetState(users[p].state, job[j].seen[p], p \in job[j].members)
           /\ users'[p].member = (p \in job[j].members)
           /\ users'[p].synced = at
           /\ users'[p].version = users[p].version + 1
  BY CommitWritesEverybody
<1>2. RunStands(job[j]) /\ job[j] \in JobRecord /\ now \in 0..MaxTime
  BY NowIsBounded DEF DirectoryInvariant, JobsKept
<1>3. /\ at \in 1..now /\ job[j].seen \in [People -> Accounted]
      /\ at - job[j].started <= MaxCollection /\ job[j].started \in Nat
      /\ \A p \in People : job[j].seen[p] = "active" => job[j].started <= ActiveUntil(p)
      /\ \A p \in job[j].members : job[j].started <= MemberUntil(p)
      /\ job[j].members \subseteq People
  BY <1>2 DEF RunStands, JobRecord
<1>4. Snapshot(j) \in SnapshotRecord
  BY <1>2, <1>3, DirectoryBounds DEF Snapshot, SnapshotRecord, Accounted
<1>5. /\ ledger \in Seq(SnapshotRecord) /\ ledger' = Append(ledger, Snapshot(j))
      /\ ledger' \in Seq(SnapshotRecord)
      /\ Len(ledger') = Len(ledger) + 1 /\ Len(ledger) \in Nat
      /\ ledger'[Len(ledger) + 1] = Snapshot(j)
      /\ \A i \in DOMAIN ledger : ledger'[i] = ledger[i]
      /\ DOMAIN ledger = 1..Len(ledger) /\ DOMAIN ledger' = 1..(Len(ledger) + 1)
  BY <1>4 DEF Commit, DirectoryInvariant, RecordsKept
<1>5a. \A i \in DOMAIN ledger : ledger[i].at \in Int
  <2>1. \A i \in DOMAIN ledger : ledger[i] \in SnapshotRecord
    BY <1>5
  <2> QED BY <2>1, DirectoryBounds DEF SnapshotRecord
<1>6. RecordsKept'
  <2>1. \A i \in DOMAIN ledger : ledger[i].at <= now
    BY DEF DirectoryInvariant, RecordsKept
  <2>2. \A i \in DOMAIN ledger' : ledger'[i].at <= now
    BY <2>1, <1>3, <1>5 DEF Snapshot
  <2> QED BY <2>2, <1>1, <1>5 DEF RecordsKept
<1>7. \A i, k \in DOMAIN ledger' : i < k => ledger'[i].at <= ledger'[k].at
  <2> SUFFICES ASSUME NEW i \in DOMAIN ledger', NEW k \in DOMAIN ledger', i < k
               PROVE  ledger'[i].at <= ledger'[k].at
    OBVIOUS
  <2>1. CASE k \in DOMAIN ledger
    BY <2>1, <1>5 DEF DirectoryInvariant, UsersFollowTheLastSnapshot
  <2>2. CASE k \notin DOMAIN ledger
    <3>1. k = Len(ledger) + 1 /\ i \in DOMAIN ledger /\ ledger # <<>>
      BY <2>2, <1>5
    <3>2. PICK p \in People : TRUE
      BY SomeoneIsManaged
    <3>3. users[p].synced = Last(ledger).at /\ Last(ledger).at <= at
      BY <3>1, <1>1 DEF DirectoryInvariant, UsersFollowTheLastSnapshot
    <3>4. ledger[i].at <= Last(ledger).at
      <4>1. CASE i = Len(ledger)
        BY <4>1, <3>1, <1>5a DEF Last
      <4>2. CASE i # Len(ledger)
        <5>1. i < Len(ledger) /\ Len(ledger) \in DOMAIN ledger
          BY <4>2, <3>1, <1>5
        <5> QED BY <5>1, <3>1 DEF Last, DirectoryInvariant, UsersFollowTheLastSnapshot
      <4> QED BY <4>1, <4>2
    <3>5. ledger[i].at \in Int /\ Last(ledger).at \in Int /\ at \in Int
      <4>1. Len(ledger) \in DOMAIN ledger
        BY <3>1, <1>5
      <4> QED BY <4>1, <3>1, <1>3, <1>5a DEF Last
    <3> QED BY <3>1, <3>3, <3>4, <3>5, <1>5 DEF Snapshot
  <2> QED BY <2>1, <2>2
<1>8. \A p \in People : /\ users'[p].synced = Last(ledger').at
                        /\ users'[p].state = Projected(p)'
                        /\ users'[p].member = (p \in Last(ledger').members)
  <2> SUFFICES ASSUME NEW p \in People
               PROVE  /\ users'[p].synced = Last(ledger').at
                      /\ users'[p].state = Projected(p)'
                      /\ users'[p].member = (p \in Last(ledger').members)
    OBVIOUS
  <2>1. Last(ledger') = Snapshot(j)
    BY <1>5 DEF Last
  <2>2. users[p].state = "offboarded" <=> \E i \in DOMAIN ledger : ledger[i].seen[p] = "gone"
    BY OffboardedMeansGone
  <2>3. (\E i \in DOMAIN ledger' : ledger'[i].seen[p] = "gone")
          <=> users[p].state = "offboarded" \/ job[j].seen[p] = "gone"
    BY <2>2, <1>5 DEF Snapshot
  <2>4. users[p].state \in {"active", "suspended", "offboarded"}
    BY DEF DirectoryInvariant, RecordsKept, UserRecord
  <2>5. users'[p].state = Projected(p)'
    BY <2>1, <2>3, <2>4, <1>1 DEF Projected, TargetState, Snapshot
  <2> QED BY <2>1, <2>5, <1>1 DEF Snapshot
<1>9. UsersFollowTheLastSnapshot'
  BY <1>7, <1>8 DEF UsersFollowTheLastSnapshot
<1>10. RecordsAreRecent'
  <2> SUFFICES ASSUME NEW p \in People
               PROVE  /\ users'[p].state = "active" => users'[p].synced <= ActiveUntil(p)' + MaxCollection
                      /\ users'[p].member => users'[p].synced <= MemberUntil(p)' + MaxCollection
    BY DEF RecordsAreRecent
  <2>1. ActiveUntil(p)' = ActiveUntil(p) /\ MemberUntil(p)' = MemberUntil(p)
    BY DEF ActiveUntil, MemberUntil, Active, Member
  <2>2. ActiveUntil(p) \in Nat /\ MemberUntil(p) \in Nat /\ MaxCollection \in Nat
    BY UntilTyped, DirectoryBounds DEF DirectoryInvariant
  <2>3. users'[p].state = "active" => job[j].seen[p] = "active"
    <3>1. users[p].state \in {"active", "suspended", "offboarded"}
      BY DEF DirectoryInvariant, RecordsKept, UserRecord
    <3> QED BY <3>1, <1>1, TargetStateTyped
  <2>4. users'[p].synced = job[j].completed
    BY <1>1
  <2>5. job[j].completed \in Nat /\ job[j].started \in Nat
    BY <1>3
  <2>6. ASSUME users'[p].state = "active"
        PROVE  users'[p].synced <= ActiveUntil(p)' + MaxCollection
    BY <2>1, <2>2, <2>3, <2>4, <2>5, <2>6, <1>3
  <2>7. ASSUME users'[p].member
        PROVE  users'[p].synced <= MemberUntil(p)' + MaxCollection
    <3>1. p \in job[j].members
      BY <2>7, <1>1
    <3> QED BY <3>1, <2>1, <2>2, <2>4, <2>5, <1>3
  <2> QED BY <2>6, <2>7
<1> QED BY <1>4, <1>5, <1>6, <1>9, <1>10

(* A snapshot that is applied takes its run out of the race; every other   *)
(* run that is under way now holds versions that are gone.                 *)
LEMMA CommitMoves ==
  ASSUME DirectoryInvariant, BudgetStep, NEW j \in Jobs, job[j].pc = "read",
         Buildable(j), Current(j), Commit(j),
         NEW x, RunStands(x), x.pc \notin {"collected", "read"},
         job' = [job EXCEPT ![j] = x],
         lease' \in LeaseRecord,
         UNCHANGED << now, company, left, dropped >>
  PROVE  DirectoryInvariant'
<1>1. BudgetKept' /\ CompanyKept'
  BY BudgetStepKeeps DEF DirectoryInvariant, CompanyKept
<1>2. /\ RecordsKept' /\ UsersFollowTheLastSnapshot' /\ RecordsAreRecent'
      /\ ledger' = Append(ledger, Snapshot(j)) /\ Snapshot(j) \in SnapshotRecord
  BY CommitKeepsRecords
<1>3. job' \in [Jobs -> JobRecord] /\ \A k \in Jobs : job'[k] = IF k = j THEN x ELSE job[k]
  BY DEF DirectoryInvariant, JobsKept, RunStands
<1>4. \A k \in Jobs : RunStands(job[k])'
  <2> SUFFICES ASSUME NEW k \in Jobs PROVE RunStands(job[k])'
    OBVIOUS
  <2>1. CASE k = j
    BY <2>1, <1>3 DEF RunStands, ActiveUntil, MemberUntil, Active, Member
  <2>2. CASE k # j
    <3>1. job'[k] = job[k] /\ RunStands(job[k])
      BY <2>2, <1>3 DEF DirectoryInvariant, JobsKept
    <3>2. job[k].pc \in {"collected", "read"} =>
             \A i \in DOMAIN ledger' : ledger'[i].at # job[k].completed
      <4>1. \A i \in DOMAIN ledger' :
              ledger'[i] = Snapshot(j) \/ (i \in DOMAIN ledger /\ ledger'[i] = ledger[i])
        BY <1>2 DEF DirectoryInvariant, RecordsKept
      <4>2. job[k].pc \in {"collected", "read"} => Snapshot(j).at # job[k].completed
        BY <2>2 DEF Snapshot, DirectoryInvariant, JobsKept, Pending
      <4> QED BY <4>1, <4>2, <3>1 DEF RunStands
    <3>3. job[k].pc = "read" => \A p \in People : ReadStands(job[k].read[p], users'[p])
      <4> SUFFICES ASSUME job[k].pc = "read", NEW p \in People
                   PROVE  ReadStands(job[k].read[p], users'[p])
        OBVIOUS
      <4>1. users'[p].version = users[p].version + 1
        BY CommitWritesEverybody
      <4>2. /\ ReadStands(job[k].read[p], users[p])
            /\ job[k].read[p].version \in Nat /\ users[p].version \in Nat
        BY <3>1 DEF RunStands, UserRecord, DirectoryInvariant, RecordsKept
      <4> QED BY <4>1, <4>2 DEF ReadStands
    <3> QED BY <3>1, <3>2, <3>3 DEF RunStands, ActiveUntil, MemberUntil, Active, Member
  <2> QED BY <2>1, <2>2
<1>5. \A i, k \in Jobs :
        i # k /\ Pending(i)' /\ Pending(k)' => job'[i].completed # job'[k].completed
  BY <1>3 DEF DirectoryInvariant, JobsKept, Pending
<1>6. JobsKept'
  BY <1>3, <1>4, <1>5 DEF JobsKept
<1> QED BY <1>1, <1>2, <1>6 DEF DirectoryInvariant

LEMMA IdleJobStands == RunStands(IdleJob) /\ IdleJob.pc = "idle"
BY DEF RunStands, IdleJob, JobRecord, NoView

LEMMA FailedReleases ==
  ASSUME DirectoryInvariant, NEW j \in Jobs, Failed(j)
  PROVE  job' = [job EXCEPT ![j] = IdleJob] /\ lease' \in LeaseRecord
BY DEF DirectoryInvariant, Failed, LeaseRecord

(* What a run keeps when only its step changes.                            *)
LEMMA RunGoesOn ==
  ASSUME DirectoryInvariant, NEW j \in Jobs,
         NEW pc \in {"applied", "completed"}, job[j].pc \notin {"idle", "leased"},
         NEW b \in BOOLEAN
  PROVE  /\ RunStands([job[j] EXCEPT !.pc = pc, !.replayed = b])
         /\ RunStands([job[j] EXCEPT !.pc = pc])
<1>1. RunStands(job[j]) /\ job[j] \in JobRecord
  BY DEF DirectoryInvariant, JobsKept
<1> QED BY <1>1 DEF RunStands, JobRecord

LEMMA TickKeeps == ASSUME DirectoryInvariant, Tick PROVE DirectoryInvariant'
<1>1. /\ BudgetKept' /\ CompanyKept' /\ TimeMovesOn
      /\ UNCHANGED << users, ledger, lease, job >>
  BY TickKeepsBudget, ClockIsTime DEF Tick, DirectoryInvariant
<1>2. RecordsKept' /\ UsersFollowTheLastSnapshot' /\ RecordsAreRecent'
  BY <1>1, RecordsStandInTime
<1>3. JobsKept'
  <2>1. \A j \in Jobs : RunStands(job[j])
    BY DEF DirectoryInvariant, JobsKept
  <2>2. \A x : RunStands(x) => RunStands(x)'
    BY <1>1, RunsStandInTime
  <2>3. \A j \in Jobs : RunStands(job[j])'
    BY <1>1, <2>1, <2>2 DEF RunStands
  <2> QED BY <1>1, <2>3 DEF DirectoryInvariant, JobsKept, Pending
<1> QED BY <1>1, <1>2, <1>3 DEF DirectoryInvariant

LEMMA MoveKeeps ==
  ASSUME DirectoryInvariant, NEW p \in People, Move(p) PROVE DirectoryInvariant'
<1>1. /\ CompanyKept' /\ TimeMovesOn
      /\ UNCHANGED << users, ledger, lease, job >>
  BY MoveIsTime DEF Move, DirectoryInvariant
<1>2. BudgetKept'
  BY BudgetStepKeeps, SpendIsBudgetStep, KindsNamed DEF Move, DirectoryInvariant
<1>3. RecordsKept' /\ UsersFollowTheLastSnapshot' /\ RecordsAreRecent'
  BY <1>1, RecordsStandInTime
<1>4. JobsKept'
  <2>1. \A j \in Jobs : RunStands(job[j])
    BY DEF DirectoryInvariant, JobsKept
  <2>2. \A x : RunStands(x) => RunStands(x)'
    BY <1>1, RunsStandInTime
  <2>3. \A j \in Jobs : RunStands(job[j])'
    BY <1>1, <2>1, <2>2 DEF RunStands
  <2> QED BY <1>1, <2>3 DEF DirectoryInvariant, JobsKept, Pending
<1> QED BY <1>1, <1>2, <1>3, <1>4 DEF DirectoryInvariant

LEMMA AcquireKeeps ==
  ASSUME DirectoryInvariant, NEW j \in Jobs, Acquire(j) PROVE DirectoryInvariant'
<1> DEFINE x == [job[j] EXCEPT !.pc = "leased"]
<1>1. RunStands(x) /\ x.pc = "leased"
  BY DEF DirectoryInvariant, JobsKept, RunStands, JobRecord
<1>2. job' = [job EXCEPT ![j] = x]
  BY DEF Acquire, Goto
<1>3. lease' \in LeaseRecord
  BY DirectoryBounds DEF Acquire, LeaseRecord, DirectoryInvariant, BudgetKept
<1>4. BudgetStep /\ UNCHANGED << now, company, left, dropped, users, ledger >>
  BY SpendIsBudgetStep, KindsNamed DEF Acquire
<1> HIDE DEF x
<1> QED BY <1>1, <1>2, <1>3, <1>4, RunMoves

LEMMA CollectUsersKeeps ==
  ASSUME DirectoryInvariant, NEW j \in Jobs, CollectUsers(j) PROVE DirectoryInvariant'
<1> DEFINE view == [p \in People |-> company[p].account]
           x == [job[j] EXCEPT !.pc = "users", !.started = now, !.seen = view]
<1>1. view \in [People -> Accounted]
  BY DEF DirectoryInvariant, CompanyKept
<1>2. \A p \in People : view[p] = "active" => ActiveUntil(p) = now
  BY DEF ActiveUntil, Active
<1>3. now \in Nat /\ job[j] \in JobRecord
  BY DEF DirectoryInvariant, BudgetKept, JobsKept
<1>4. RunStands(x) /\ x.pc = "users"
  <2> HIDE DEF view
  <2>1. x \in JobRecord
    BY <1>1, <1>3 DEF JobRecord
  <2>2. x.pc = "users" /\ x.seen = view /\ x.started = now
    BY <1>3 DEF JobRecord
  <2> QED BY <2>1, <2>2, <1>1, <1>2, <1>3 DEF RunStands
<1>5. job' = [job EXCEPT ![j] = x]
  BY DEF CollectUsers
<1>6. BudgetStep /\ UNCHANGED << now, company, left, dropped, users, ledger, lease >>
  BY DEF CollectUsers, BudgetStep
<1>7. lease' \in LeaseRecord
  BY <1>6 DEF DirectoryInvariant
<1> HIDE DEF x
<1> QED BY <1>4, <1>5, <1>6, <1>7, RunMoves

(* The collection ends at an instant no snapshot was ever taken at.        *)
LEMMA CollectMembersKeeps ==
  ASSUME DirectoryInvariant, NEW j \in Jobs, CollectMembers(j) PROVE DirectoryInvariant'
<1> DEFINE inGroup == {p \in People : Member(p)}
           x == [job[j] EXCEPT !.pc = "collected", !.completed = now + 1, !.members = inGroup]
<1>1. /\ BudgetKept' /\ CompanyKept' /\ TimeMovesOn /\ now' = now + 1
      /\ UNCHANGED << company, left, dropped, users, ledger, lease >>
  BY TickKeepsBudget, ClockIsTime DEF CollectMembers, DirectoryInvariant
<1>2. RecordsKept' /\ UsersFollowTheLastSnapshot' /\ RecordsAreRecent'
  BY <1>1, RecordsStandInTime
<1>3. job[j].pc = "users" /\ RunStands(job[j]) /\ job[j] \in JobRecord /\ now \in Nat
  BY DEF CollectMembers, DirectoryInvariant, JobsKept, BudgetKept
<1>4. \A y : RunStands(y) => RunStands(y)'
  BY <1>1, RunsStandInTime
<1>5. /\ x \in JobRecord /\ x.pc = "collected" /\ x.completed = now + 1
      /\ x.members = inGroup /\ x.seen = job[j].seen
      /\ x.started = job[j].started /\ x.started \in Nat
  <2>1. inGroup \in SUBSET People /\ now + 1 \in Nat
    BY <1>3
  <2> HIDE DEF inGroup
  <2>2. x \in JobRecord
    BY <2>1, <1>3 DEF JobRecord
  <2>3. /\ x.pc = "collected" /\ x.completed = now + 1 /\ x.members = inGroup
        /\ x.seen = job[j].seen /\ x.started = job[j].started
    BY <1>3 DEF JobRecord
  <2>4. job[j].started \in Nat
    BY <1>3 DEF JobRecord
  <2> QED BY <2>2, <2>3, <2>4
<1>6. job' = [job EXCEPT ![j] = x] /\ job' \in [Jobs -> JobRecord]
      /\ \A k \in Jobs : job'[k] = IF k = j THEN x ELSE job[k]
  BY <1>5 DEF CollectMembers, DirectoryInvariant, JobsKept
<1>7. RunStands(job[j])'
  <2> SUFFICES /\ x.seen \in [People -> Accounted] /\ x.started <= now'
               /\ \A p \in People : x.seen[p] = "active" => x.started <= ActiveUntil(p)'
               /\ x.completed \in 1..now'
               /\ \A i \in DOMAIN ledger' : ledger'[i].at # x.completed
               /\ \A p \in x.members : x.started <= MemberUntil(p)'
    BY <1>5, <1>6 DEF RunStands
  <2>1. /\ x.seen \in [People -> Accounted] /\ x.started <= now'
        /\ \A p \in People : x.seen[p] = "active" => x.started <= ActiveUntil(p)'
    <3>1. \A p \in People : job[j].seen[p] = "active" => job[j].started <= ActiveUntil(p)
      BY <1>3 DEF RunStands
    <3>2. \A p \in People : /\ ActiveUntil(p) \in Nat /\ ActiveUntil(p)' \in Nat
                            /\ ActiveUntil(p) <= ActiveUntil(p)'
      BY <1>1, UntilTyped DEF DirectoryInvariant, TimeMovesOn, CompanyKept, ActiveUntil
    <3>3. job[j].seen \in [People -> Accounted] /\ job[j].started <= now
      BY <1>3 DEF RunStands
    <3> QED BY <3>1, <3>2, <3>3, <1>1, <1>3, <1>5
  <2>2. x.completed \in 1..now'
    BY <1>1, <1>3, <1>5
  <2>3. \A i \in DOMAIN ledger' : ledger'[i].at # x.completed
    <3>1. \A i \in DOMAIN ledger : ledger[i].at <= now
      BY DEF DirectoryInvariant, RecordsKept
    <3> QED BY <3>1, <1>1, <1>3, <1>5
  <2>4. \A p \in x.members : x.started <= MemberUntil(p)'
    BY <1>1, <1>3, <1>5, <2>1 DEF MemberUntil, Member
  <2> QED BY <2>1, <2>2, <2>3, <2>4
<1>8. \A k \in Jobs : RunStands(job[k])'
  <2> SUFFICES ASSUME NEW k \in Jobs, k # j PROVE RunStands(job[k])'
    BY <1>7
  <2>1. RunStands(job[k]) /\ job'[k] = job[k]
    BY <1>6 DEF DirectoryInvariant, JobsKept
  <2> QED BY <2>1, <1>4 DEF RunStands
<1>9. \A i, k \in Jobs :
        i # k /\ Pending(i)' /\ Pending(k)' => job'[i].completed # job'[k].completed
  <2>1. \A k \in Jobs : k # j /\ Pending(k) => job[k].completed \in 1..now
    BY DEF DirectoryInvariant, JobsKept, RunStands, Pending
  <2>2. \A k \in Jobs : k # j => (Pending(k)' <=> Pending(k)) /\ job'[k] = job[k]
    BY <1>6 DEF Pending
  <2>3. job'[j].completed = now + 1
    BY <1>5, <1>6
  <2>4. \A i, k \in Jobs : i # k /\ Pending(i) /\ Pending(k) => job[i].completed # job[k].completed
    BY DEF DirectoryInvariant, JobsKept
  <2> QED BY <2>1, <2>2, <2>3, <2>4, <1>3
<1> QED BY <1>1, <1>2, <1>6, <1>8, <1>9 DEF DirectoryInvariant, JobsKept

LEMMA ReadUsersKeeps ==
  ASSUME DirectoryInvariant, NEW j \in Jobs, ReadUsers(j) PROVE DirectoryInvariant'
<1>1. BudgetStep /\ UNCHANGED << now, company, left, dropped, users, ledger >>
  BY DEF ReadUsers, BudgetStep
<1>2. CASE ~InTime(j)
  <2>1. Failed(j)
    BY <1>2 DEF ReadUsers
  <2> QED BY <2>1, <1>1, FailedReleases, IdleJobStands, RunMoves
<1>3. CASE InTime(j)
  <2> DEFINE x == [job[j] EXCEPT !.pc = "read", !.read = users]
  <2>1. job' = [job EXCEPT ![j] = x] /\ lease' \in LeaseRecord
    BY <1>3 DEF ReadUsers, DirectoryInvariant
  <2>2. RunStands(job[j]) /\ job[j] \in JobRecord /\ job[j].pc = "collected"
    BY DEF ReadUsers, DirectoryInvariant, JobsKept
  <2>3. users \in [People -> UserRecord]
    BY DEF DirectoryInvariant, RecordsKept
  <2>4. /\ x \in JobRecord /\ x.pc = "read" /\ x.read = users
        /\ x.seen = job[j].seen /\ x.started = job[j].started
        /\ x.completed = job[j].completed /\ x.members = job[j].members
    BY <2>2, <2>3 DEF JobRecord
  <2>5. x.completed - x.started <= MaxCollection
    BY <1>3, <2>4 DEF InTime
  <2>6. \A p \in People : users[p].synced # job[j].completed
    <3> SUFFICES ASSUME NEW p \in People PROVE users[p].synced # job[j].completed
      OBVIOUS
    <3>1. CASE ledger = <<>>
      <4>1. users[p].synced = 0
        BY <3>1 DEF DirectoryInvariant, RecordsKept
      <4>2. job[j].completed \in 1..now
        BY <2>2 DEF RunStands
      <4> QED BY <4>1, <4>2
    <3>2. CASE ledger # <<>>
      <4>1. Len(ledger) \in DOMAIN ledger
        BY <3>2 DEF DirectoryInvariant, RecordsKept
      <4>2. users[p].synced = ledger[Len(ledger)].at
        BY <3>2 DEF DirectoryInvariant, UsersFollowTheLastSnapshot, Last
      <4> QED BY <4>1, <4>2, <2>2 DEF RunStands
    <3> QED BY <3>1, <3>2
  <2>7. \A p \in People : ReadStands(users[p], users[p])
    BY <2>3 DEF ReadStands, UserRecord
  <2>8. RunStands(x)
    <3> HIDE DEF x
    <3> QED BY <2>2, <2>3, <2>4, <2>5, <2>6, <2>7 DEF RunStands
  <2>9. Pending(j) /\ x.completed = job[j].completed
    BY <2>2, <2>4 DEF Pending
  <2> HIDE DEF x
  <2> QED BY <1>1, <2>1, <2>8, <2>9, RunMoves
<1> QED BY <1>2, <1>3

LEMMA ApplySnapshotKeeps ==
  ASSUME DirectoryInvariant, NEW j \in Jobs, ApplySnapshot(j) PROVE DirectoryInvariant'
<1>1. job[j].pc = "read" /\ UNCHANGED << now, company, left, dropped >>
  BY DEF ApplySnapshot
<1>2. CASE Buildable(j) /\ Current(j) /\ Commit(j) /\ Goto(j, "applied") /\ UNCHANGED << lease, budget >>
  <2> DEFINE x == [job[j] EXCEPT !.pc = "applied"]
  <2>1. RunStands(x) /\ job' = [job EXCEPT ![j] = x] /\ x.pc = "applied"
    BY <1>1, <1>2, RunGoesOn DEF Goto, DirectoryInvariant, JobsKept, JobRecord
  <2>2. BudgetStep /\ lease' \in LeaseRecord
    BY <1>2 DEF BudgetStep, DirectoryInvariant
  <2> HIDE DEF x
  <2> QED BY <1>1, <1>2, <2>1, <2>2, CommitMoves
<1>3. CASE /\ Buildable(j) /\ Current(j) /\ Spend("trouble") /\ Commit(j)
           /\ job' = [job EXCEPT ![j].pc = "applied", ![j].replayed = TRUE]
           /\ UNCHANGED lease
  <2> DEFINE x == [job[j] EXCEPT !.pc = "applied", !.replayed = TRUE]
  <2>1. RunStands(x) /\ job' = [job EXCEPT ![j] = x] /\ x.pc = "applied"
    BY <1>1, <1>3, RunGoesOn DEF DirectoryInvariant, JobsKept, JobRecord
  <2>2. BudgetStep /\ lease' \in LeaseRecord
    BY <1>3, SpendIsBudgetStep, KindsNamed DEF DirectoryInvariant
  <2> HIDE DEF x
  <2> QED BY <1>1, <1>3, <2>1, <2>2, CommitMoves
<1>4. CASE Buildable(j) /\ Current(j) /\ Spend("trouble") /\ Commit(j) /\ Failed(j)
  <2>1. BudgetStep
    BY <1>4, SpendIsBudgetStep, KindsNamed
  <2> QED BY <1>1, <1>4, <2>1, IdleJobStands, FailedReleases, CommitMoves
<1>5. CASE Failed(j) /\ UNCHANGED << users, ledger, budget >>
  <2>1. BudgetStep
    BY <1>5 DEF BudgetStep
  <2> QED BY <1>1, <1>5, <2>1, IdleJobStands, FailedReleases, RunMoves
<1> QED BY <1>2, <1>3, <1>4, <1>5 DEF ApplySnapshot

LEMMA ConfirmPersistedKeeps ==
  ASSUME DirectoryInvariant, NEW j \in Jobs, ConfirmPersisted(j) PROVE DirectoryInvariant'
<1>1. BudgetStep /\ UNCHANGED << now, company, left, dropped, users, ledger >>
  BY DEF ConfirmPersisted, BudgetStep
<1>2. CASE Goto(j, "completed") /\ UNCHANGED lease
  <2> DEFINE x == [job[j] EXCEPT !.pc = "completed"]
  <2>1. RunStands(x) /\ job' = [job EXCEPT ![j] = x] /\ x.pc = "completed"
    BY <1>2, RunGoesOn DEF ConfirmPersisted, Goto, DirectoryInvariant, JobsKept, JobRecord
  <2>2. lease' \in LeaseRecord
    BY <1>2 DEF DirectoryInvariant
  <2> HIDE DEF x
  <2> QED BY <1>1, <2>1, <2>2, RunMoves
<1>3. CASE Failed(j)
  BY <1>1, <1>3, IdleJobStands, FailedReleases, RunMoves
<1> QED BY <1>2, <1>3 DEF ConfirmPersisted

LEMMA RunEndsKeeps ==
  ASSUME DirectoryInvariant, NEW j \in Jobs, Release(j) \/ FetchFails(j) \/ JobDies(j)
  PROVE  DirectoryInvariant'
<1>1. /\ job' = [job EXCEPT ![j] = IdleJob] /\ lease' \in LeaseRecord
      /\ UNCHANGED << now, company, left, dropped, users, ledger >>
  BY FailedReleases DEF Release, FetchFails, JobDies, DirectoryInvariant
<1>2. BudgetStep
  BY SpendIsBudgetStep, KindsNamed DEF Release, FetchFails, JobDies, BudgetStep
<1> QED BY <1>1, <1>2, IdleJobStands, RunMoves

LEMMA DirectoryStepKeeps ==
  ASSUME DirectoryInvariant, DirectoryNext PROVE DirectoryInvariant'
BY TickKeeps, MoveKeeps, AcquireKeeps, CollectUsersKeeps, CollectMembersKeeps, ReadUsersKeeps,
   ApplySnapshotKeeps, ConfirmPersistedKeeps, RunEndsKeeps DEF DirectoryNext, SyncStep

--------------------------------------------------------------------------------
(* The other parts leave the directory alone and only draw on the budget.  *)
LEMMA SlackStepSpends == ASSUME SlackNext PROVE BudgetStep
<1> USE DEF BudgetStep
<1>1. ASSUME NEW s \in States, StartInstallation(s) PROVE BudgetStep
  BY <1>1, KindsNamed DEF StartInstallation
<1>2. ASSUME NEW p \in People, RevokeLink(p) PROVE BudgetStep
  BY <1>2, KindsNamed DEF RevokeLink
<1>3. ASSUME NEW c \in Callers, CallerStep(c) PROVE BudgetStep
  <2>1. ASSUME NEW s \in States, ConsumeState(c, s) PROVE BudgetStep
    BY <2>1, KindsNamed DEF ConsumeState
  <2>2. CASE CheckExisting(c) \/ Exchange(c) \/ WriteToken(c) \/ DropToken(c)
    BY <2>2, KindsNamed DEF CheckExisting, Exchange, WriteToken, DropToken
  <2>3. CASE RefuseGrant(c) \/ SaveInstall(c) \/ RevokeGrant(c) \/ DestroyGrant(c) \/ BeginRevocation(c)
    BY <2>3, KindsNamed DEF RefuseGrant, SaveInstall, RevokeGrant, DestroyGrant, BeginRevocation
  <2>4. CASE Uninstall(c) \/ DestroyCredential(c) \/ MarkRevoked(c) \/ CallerDies(c)
    BY <2>4, KindsNamed DEF Uninstall, DestroyCredential, MarkRevoked, CallerDies
  <2> QED BY <1>3, <2>1, <2>2, <2>3, <2>4 DEF CallerStep
<1> QED BY <1>1, <1>2, <1>3 DEF SlackNext

LEMMA CostStepSpends == ASSUME CostNext PROVE BudgetStep
<1> USE DEF BudgetStep
<1>1. ASSUME NEW e \in Entries, ChangeBill(e) PROVE BudgetStep
  BY <1>1, KindsNamed DEF ChangeBill
<1>2. ASSUME NEW i \in Runs, IngestStep(i) PROVE BudgetStep
  <2>1. CASE StartIngest(i) \/ FetchBill(i) \/ StoreEntry(i) \/ PersistGuard(i)
    BY <2>1, KindsNamed DEF StartIngest, FetchBill, StoreEntry, PersistGuard
  <2>2. CASE ListResources(i) \/ SavePaused(i) \/ ScopeDone(i)
    BY <2>2, KindsNamed DEF ListResources, SavePaused, ScopeDone
  <2>3. CASE IngestDone(i) \/ ReleaseIngest(i) \/ RunEnds(i)
    BY <2>3, KindsNamed DEF IngestDone, ReleaseIngest, RunEnds
  <2>4. ASSUME NEW r \in Resources, SwitchOff(i, r) PROVE BudgetStep
    BY <2>4, KindsNamed DEF SwitchOff
  <2> QED BY <1>2, <2>1, <2>2, <2>3, <2>4 DEF IngestStep
<1> QED BY <1>1, <1>2 DEF CostNext

LEMMA AccessStepSpends == ASSUME AccessNext PROVE BudgetStep
<1> USE DEF BudgetStep
<1>1. ASSUME NEW r \in Requests, NEW p \in People,
             (\E k \in Keys : SignRequest(r, p, k)) \/ SendCommand(r, p)
      PROVE  BudgetStep
  BY <1>1, KindsNamed DEF SignRequest, SendCommand
<1>2. ASSUME NEW r \in Requests, DropClaim(r) PROVE BudgetStep
  BY <1>2 DEF DropClaim
<1>3. ASSUME NEW old \in Keys, NEW new \in Keys, RotateKeys(old, new) PROVE BudgetStep
  BY <1>3, KindsNamed DEF RotateKeys
<1>4. ASSUME NEW a \in Arrivals, ArrivalStep(a) PROVE BudgetStep
  <2>1. ASSUME NEW r \in Requests, NEW g \in Gateways, ArriveAtGateway(a, r, g) PROVE BudgetStep
    BY <2>1, KindsNamed DEF ArriveAtGateway
  <2>2. ASSUME NEW r \in Requests, ArriveAtControlPlane(a, r) \/ ArriveFromSlack(a, r)
        PROVE  BudgetStep
    BY <2>2, KindsNamed DEF ArriveAtControlPlane, ArriveFromSlack
  <2>3. CASE LookUpKey(a) \/ FetchKeys(a) \/ StoreKeys(a) \/ LookAgain(a) \/ AskControlPlane(a)
    BY <2>3 DEF LookUpKey, FetchKeys, StoreKeys, LookAgain, AskControlPlane
  <2>4. CASE Claim(a) \/ RecordActivity(a) \/ Serve(a)
    BY <2>4, KindsNamed DEF Claim, RecordActivity, Serve
  <2>5. CASE DecideApp(a) \/ DecideControl(a) \/ ReadInstall(a) \/ DecideSlack(a) \/ Abandon(a)
    BY <2>5 DEF DecideApp, DecideControl, ReadInstall, DecideSlack, Abandon
  <2> QED BY <1>4, <2>1, <2>2, <2>3, <2>4, <2>5 DEF ArrivalStep
<1> QED BY <1>1, <1>2, <1>3, <1>4 DEF AccessNext

LEMMA ActivityStepSpends == ASSUME ActivityNext PROVE BudgetStep
<1> USE DEF BudgetStep
<1>1. ASSUME NEW p \in People, RecordVisit(p) \/ RecordRun(p) PROVE BudgetStep
  BY <1>1, KindsNamed DEF RecordVisit, RecordRun, RecordEvent
<1>2. ASSUME NEW i \in Runs, PlanRetention(i) \/ ExpireEvents(i) \/ Aggregate(i)
                             \/ UpsertAggregate(i) \/ RollupDone(i)
      PROVE  BudgetStep
  BY <1>2, KindsNamed DEF PlanRetention, ExpireEvents, Aggregate, UpsertAggregate, RollupDone
<1> QED BY <1>1, <1>2 DEF ActivityNext

(* What the directory's own steps leave alone, and every other step of it. *)
LEMMA StepsOfTheParts ==
  ASSUME [Next]_vars
  PROVE  \/ DirectoryNext /\ UNCHANGED << slackVars, costVars, accessVars, activityVars >>
         \/ BudgetStep /\ UNCHANGED directoryKept
BY SlackStepSpends, CostStepSpends, AccessStepSpends, ActivityStepSpends
DEF Next, vars, directoryVars, directoryKept, BudgetStep

LEMMA OthersKeepTheDirectory ==
  ASSUME DirectoryInvariant, BudgetStep, UNCHANGED directoryKept
  PROVE  DirectoryInvariant'
<1>1. BudgetKept'
  BY BudgetStepKeeps DEF DirectoryInvariant, directoryKept
<1>2. CompanyKept' /\ RecordsKept' /\ RecordsAreRecent' /\ lease' \in LeaseRecord
  BY DEF DirectoryInvariant, directoryKept, CompanyKept, RecordsKept, RecordsAreRecent,
     ActiveUntil, MemberUntil, Active, Member
<1>3. UsersFollowTheLastSnapshot'
  BY DEF DirectoryInvariant, directoryKept, UsersFollowTheLastSnapshot, Projected, Last
<1>4. JobsKept'
  <2>1. \A j \in Jobs : RunStands(job[j])'
    BY DEF DirectoryInvariant, directoryKept, JobsKept, RunStands,
       ActiveUntil, MemberUntil, Active, Member
  <2> QED BY <2>1 DEF DirectoryInvariant, directoryKept, JobsKept, Pending
<1> QED BY <1>1, <1>2, <1>3, <1>4 DEF DirectoryInvariant

LEMMA DirectoryInitially == ASSUME DirectoryInit PROVE DirectoryInvariant
<1>1. BudgetKept
  BY InitialBudget
<1>2. CompanyKept
  BY DEF DirectoryInit, CompanyKept, Accounted
<1>3. RecordsKept
  <2>1. users \in [People -> UserRecord]
    BY DirectoryBounds DEF DirectoryInit, UserRecord
  <2> QED BY <2>1 DEF DirectoryInit, RecordsKept
<1>4. JobsKept
  BY IdleJobStands DEF DirectoryInit, JobsKept, Pending, RunStands
<1>5. lease \in LeaseRecord
  BY DEF DirectoryInit, LeaseRecord
<1>6. UsersFollowTheLastSnapshot
  BY DEF DirectoryInit, UsersFollowTheLastSnapshot
<1>7. RecordsAreRecent
  BY DirectoryBounds DEF DirectoryInit, RecordsAreRecent, ActiveUntil, MemberUntil, Active, Member
<1> QED BY <1>1, <1>2, <1>3, <1>4, <1>5, <1>6, <1>7 DEF DirectoryInvariant

LEMMA DirectoryInvariantHolds == Spec => []DirectoryInvariant
<1>1. Init => DirectoryInvariant
  BY DirectoryInitially DEF Init
<1>2. DirectoryInvariant /\ [Next]_vars => DirectoryInvariant'
  BY StepsOfTheParts, DirectoryStepKeeps, OthersKeepTheDirectory
<1> QED BY <1>1, <1>2, PTL DEF Spec

(***************************************************************************)
(* The user records are what the latest snapshot says, for everybody at    *)
(* once, and no snapshot is applied over a later one, for any number of    *)
(* people and of overlapping runs of the sync job, with runs that die or   *)
(* lose the answer of their commit (apply_snapshot_once,                   *)
(* reconcile_identity).                                                    *)
(***************************************************************************)
THEOREM SnapshotsAreFollowed == Spec => []UsersFollowTheLastSnapshot
<1>1. DirectoryInvariant => UsersFollowTheLastSnapshot
  BY DEF DirectoryInvariant
<1> QED BY <1>1, DirectoryInvariantHolds, PTL

(* The directory's part of type correctness.                               *)
LEMMA DirectoryIsTyped == ASSUME DirectoryInvariant PROVE DirectoryTypeOK
<1>1. now \in 0..MaxTime
  BY NowIsBounded DEF DirectoryInvariant
<1>2. \E b \in Budgets : \A kind \in DOMAIN b : budget[kind] \in 0..b[kind]
  <2>1. PICK b \in Budgets : \A kind \in Kinds : budget[kind] <= b[kind]
    BY DEF DirectoryInvariant, BudgetKept
  <2>2. b \in [Kinds -> Nat] /\ budget \in [Kinds -> Nat]
    BY BudgetsTyped DEF DirectoryInvariant, BudgetKept
  <2> QED BY <2>1, <2>2
<1>3. company \in [People -> [account : {"gone", "suspended", "active"}, member : BOOLEAN]]
  BY DEF DirectoryInvariant, CompanyKept, Accounted
<1>4. left \in [People -> 0..MaxTime] /\ dropped \in [People -> 0..MaxTime]
  BY <1>1, DirectoryBounds DEF DirectoryInvariant, CompanyKept
<1>5. users \in [People -> UserRecord] /\ \A i \in DOMAIN ledger : ledger[i] \in SnapshotRecord
  BY DEF DirectoryInvariant, RecordsKept
<1> QED BY <1>1, <1>2, <1>3, <1>4, <1>5 DEF DirectoryTypeOK, DirectoryInvariant

================================================================================
