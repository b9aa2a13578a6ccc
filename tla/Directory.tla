------------------------------- MODULE Directory -------------------------------
(***************************************************************************)
(* The company directory and its copy in the control plane: the private    *)
(* job that reads Google Workspace and reconciles the users it manages     *)
(* (workers/identity_sync.py, jobs/directory_sync.py,                      *)
(* adapters/google_directory.py, adapters/firestore_directory.py), and the *)
(* policy that decides from a user record whether a person may act         *)
(* (security/authorization.py).                                            *)
(*                                                                         *)
(* A read of the directory is two passages, the users first and the        *)
(* members of the required group after them, and the company goes on       *)
(* changing between the two. The overlap lease is not renewed: a run that  *)
(* outlives it goes on beside its successor.                               *)
(***************************************************************************)
EXTENDS Integers, Sequences, FiniteSets

CONSTANTS People,         \* users the control plane manages
          Jobs,           \* executions of the sync job that may overlap
          MaxTime,        \* bound on the clock
          Budgets,        \* bounds: how often an execution may do each kind of thing
          MaxTrouble,     \* bound on crashes, failed calls and lost answers
          LeaseDuration,  \* _LEASE_DURATION (10 minutes)
          MaxCollection,  \* _MAX_COLLECTION_DURATION (5 minutes)
          MaxStaleness    \* IDENTITY_MAX_STALENESS_MINUTES (60 minutes)

ASSUME DirectoryBounds ==
    /\ {MaxTime, MaxTrouble, MaxCollection} \subseteq Nat
    /\ {LeaseDuration, MaxStaleness} \subseteq Nat \ {0}
    /\ Budgets \subseteq [{"ticks", "moves", "syncs", "installs", "commands", "requests",
                           "deliveries", "rotations", "bills", "guards", "visits", "trouble"} -> Nat]
    /\ \A b \in Budgets : b["ticks"] <= MaxTime /\ b["trouble"] <= MaxTrouble

\* the administrator who set the control plane up has a record in it
ASSUME SomeoneIsManaged == People # {}

VARIABLES now,      \* the clock every service reads
          company,  \* what Google Workspace says of each person
          left,     \* when a person last stopped being present and active
          dropped,  \* when a person last stopped being in the required group
          users,    \* the user records of the control plane
          ledger,   \* the snapshots applied, oldest first
          lease,    \* the overlap lease of the sync job
          job,      \* the executions of the sync job
          budget    \* what the execution may still do of each kind

directoryVars == <<now, company, left, dropped, users, ledger, lease, job, budget>>

\* what an operation of the named kind uses up
Spend(kind) ==
    /\ budget[kind] > 0
    /\ budget' = [budget EXCEPT ![kind] = @ - 1]

\* the records as the store reads them back
UserRecord == [state : {"active", "suspended", "offboarded"}, member : BOOLEAN,
               synced : 0..MaxTime, updated : 0..MaxTime, version : Nat \ {0}]

Free == "free"
LeaseRecord == [owner : Jobs \cup {Free}, until : Nat]
SnapshotRecord == [at : 0..MaxTime, members : SUBSET People,
                   seen : [People -> {"gone", "suspended", "active"}]]

NoView == [p \in People |-> "unread"]
IdleJob == [pc |-> "idle", started |-> 0, completed |-> 0, seen |-> NoView,
            members |-> {}, read |-> <<>>, replayed |-> FALSE]

\* present, and neither suspended nor archived
Active(p) == company[p].account = "active"
Member(p) == company[p].member

\* when the directory last said it: now, if it still does
ActiveUntil(p) == IF Active(p) THEN now ELSE left[p]
MemberUntil(p) == IF Member(p) THEN now ELSE dropped[p]

(***************************************************************************)
(* Reconciling one user with one snapshot.                                 *)
(***************************************************************************)

\* a bug: the provider's word for the account becomes the user's state
TargetStateVerbatim(state, account, member) ==
    IF state = "offboarded" THEN state ELSE account

\* projected_target_state: a person who left once stays offboarded
TargetState(state, account, member) ==
    IF state = "offboarded" \/ account = "gone" THEN "offboarded"
    ELSE IF account = "active" /\ member THEN "active"
    ELSE "suspended"

\* identity material may only move forward in time
Reconcilable(u, target, member, at) ==
    /\ at >= u.synced
    /\ (target # u.state \/ member # u.member) => at >= u.updated

Reconciled(u, target, member, at) ==
    IF u.state = target /\ u.member = member /\ u.synced = at
    THEN u
    ELSE [state   |-> target,
          member  |-> member,
          synced  |-> at,
          updated |-> IF target # u.state \/ member # u.member THEN at ELSE u.updated,
          version |-> u.version + 1]

(***************************************************************************)
(* What a user record allows.                                              *)
(***************************************************************************)

\* a bug: the age of the record is not looked at
AuthorizedEvenIfStale(p) == users[p].state = "active" /\ users[p].member

\* authorize_resolved_user: active, in the group, and the record is recent
Authorized(p) ==
    /\ users[p].state = "active"
    /\ users[p].member
    /\ now - users[p].synced \in 0..MaxStaleness

(***************************************************************************)
(* The company.                                                            *)
(***************************************************************************)

Tick ==
    /\ Spend("ticks")
    /\ now' = now + 1
    /\ UNCHANGED <<company, left, dropped, users, ledger, lease, job>>

Move(p) ==
    /\ Spend("moves")
    /\ \/ \E account \in {"gone", "suspended", "active"} \ {company[p].account} :
             company' = [company EXCEPT ![p].account = account]
       \/ company' = [company EXCEPT ![p].member = ~@]
    /\ left'    = [left EXCEPT ![p] = ActiveUntil(p)]
    /\ dropped' = [dropped EXCEPT ![p] = MemberUntil(p)]
    /\ UNCHANGED <<now, users, ledger, lease, job>>

(***************************************************************************)
(* The sync job.                                                           *)
(***************************************************************************)

Goto(j, pc) == job' = [job EXCEPT ![j].pc = pc]

\* a run that raises releases its lease if the lease is still its own
Failed(j) ==
    /\ job' = [job EXCEPT ![j] = IdleJob]
    /\ lease' = IF lease.owner = j THEN [owner |-> Free, until |-> 0] ELSE lease

\* try_acquire: an expired lease is taken over without asking its owner
Acquire(j) ==
    /\ job[j].pc = "idle"
    /\ Spend("syncs")
    /\ lease.owner = Free \/ lease.until <= now
    /\ lease' = [owner |-> j, until |-> now + LeaseDuration]
    /\ Goto(j, "leased")
    /\ UNCHANGED <<now, company, left, dropped, users, ledger>>

\* _collect_workspace_users
CollectUsers(j) ==
    /\ job[j].pc = "leased"
    /\ job' = [job EXCEPT ![j].pc = "users", ![j].started = now,
                          ![j].seen = [p \in People |-> company[p].account]]
    /\ UNCHANGED <<now, company, left, dropped, users, ledger, lease, budget>>

\* _collect_group_members; every collection ends at an instant of its own
CollectMembers(j) ==
    /\ job[j].pc = "users"
    /\ Spend("ticks")
    /\ now' = now + 1
    /\ job' = [job EXCEPT ![j].pc = "collected", ![j].completed = now + 1,
                          ![j].members = {p \in People : Member(p)}]
    /\ UNCHANGED <<company, left, dropped, users, ledger, lease>>

\* _validate_snapshot_timing
InTime(j) ==
    /\ now - job[j].completed \in 0..MaxStaleness
    /\ job[j].completed - job[j].started <= MaxCollection

\* the snapshot is validated, then the users are read
ReadUsers(j) ==
    /\ job[j].pc = "collected"
    /\ IF InTime(j)
       THEN /\ job' = [job EXCEPT ![j].pc = "read", ![j].read = users]
            /\ UNCHANGED lease
       ELSE Failed(j)
    /\ UNCHANGED <<now, company, left, dropped, users, ledger, budget>>

Target(j, p) == TargetState(job[j].read[p].state, job[j].seen[p], p \in job[j].members)

\* _build_changes: one user behind its record fails the whole run
Buildable(j) ==
    \A p \in People :
        Reconcilable(job[j].read[p], Target(j, p), p \in job[j].members, job[j].completed)

Change(j, p) == Reconciled(job[j].read[p], Target(j, p), p \in job[j].members, job[j].completed)
Changed(j)   == {p \in People : Change(j, p) # job[j].read[p]}

\* a bug: the versions that were read are not compared at the commit
CurrentUnchecked(j) == DOMAIN job[j].read = People

\* validate_directory_snapshot_write: every version is the one that was read
Current(j) == \A p \in Changed(j) : users[p].version = job[j].read[p].version

Snapshot(j) == [at |-> job[j].completed, seen |-> job[j].seen, members |-> job[j].members]

Commit(j) ==
    /\ users'  = [p \in People |-> IF p \in Changed(j) THEN Change(j, p) ELSE users[p]]
    /\ ledger' = Append(ledger, Snapshot(j))

\* The users and the ledger entry are one transaction. When its answer is
\* lost the ledger is read back and the run goes on as a replay; when that
\* read fails as well the run fails although its snapshot is applied.
ApplySnapshot(j) ==
    /\ job[j].pc = "read"
    /\ \/ /\ Buildable(j) /\ Current(j)
          /\ Commit(j)
          /\ Goto(j, "applied")
          /\ UNCHANGED <<lease, budget>>
       \/ /\ Buildable(j) /\ Current(j) /\ Spend("trouble")
          /\ Commit(j)
          /\ job' = [job EXCEPT ![j].pc = "applied", ![j].replayed = TRUE]
          /\ UNCHANGED lease
       \/ /\ Buildable(j) /\ Current(j) /\ Spend("trouble")
          /\ Commit(j)
          /\ Failed(j)
       \/ /\ ~(Buildable(j) /\ Current(j))
          /\ Failed(j)
          /\ UNCHANGED <<users, ledger, budget>>
    /\ UNCHANGED <<now, company, left, dropped>>

\* unless it was a replay, every reconciled user must read back as written
ConfirmPersisted(j) ==
    /\ job[j].pc = "applied"
    /\ IF job[j].replayed \/ \A p \in Changed(j) : users[p] = Change(j, p)
       THEN Goto(j, "completed") /\ UNCHANGED lease
       ELSE Failed(j)
    /\ UNCHANGED <<now, company, left, dropped, users, ledger, budget>>

\* release: a lease taken over by another run is left alone
Release(j) ==
    /\ job[j].pc = "completed"
    /\ Failed(j)
    /\ UNCHANGED <<now, company, left, dropped, users, ledger, budget>>

\* the provider refuses, or the execution dies with its lease
FetchFails(j) ==
    /\ job[j].pc \in {"leased", "users"}
    /\ Spend("trouble")
    /\ Failed(j)
    /\ UNCHANGED <<now, company, left, dropped, users, ledger>>

JobDies(j) ==
    /\ job[j].pc # "idle"
    /\ Spend("trouble")
    /\ job' = [job EXCEPT ![j] = IdleJob]
    /\ UNCHANGED <<now, company, left, dropped, users, ledger, lease>>

SyncStep(j) ==
    \/ Acquire(j) \/ CollectUsers(j) \/ CollectMembers(j) \/ ReadUsers(j)
    \/ ApplySnapshot(j) \/ ConfirmPersisted(j) \/ Release(j)
    \/ FetchFails(j) \/ JobDies(j)

DirectoryInit ==
    /\ now = 0
    /\ company = [p \in People |-> [account |-> "active", member |-> TRUE]]
    /\ left = [p \in People |-> 0]
    /\ dropped = [p \in People |-> 0]
    /\ users = [p \in People |-> [state |-> "active", member |-> TRUE,
                                  synced |-> 0, updated |-> 0, version |-> 1]]
    /\ ledger = <<>>
    /\ lease = [owner |-> Free, until |-> 0]
    /\ job = [j \in Jobs |-> IdleJob]
    /\ budget \in Budgets

DirectoryNext ==
    \/ Tick
    \/ \E p \in People : Move(p)
    \/ \E j \in Jobs : SyncStep(j)

--------------------------------------------------------------------------------

(***************************************************************************)
(* Properties.                                                             *)
(***************************************************************************)

DirectoryTypeOK ==
    /\ now \in 0..MaxTime
    /\ \E b \in Budgets : \A kind \in DOMAIN b : budget[kind] \in 0..b[kind]
    /\ company \in [People -> [account : {"gone", "suspended", "active"}, member : BOOLEAN]]
    /\ left \in [People -> 0..MaxTime] /\ dropped \in [People -> 0..MaxTime]
    /\ users \in [People -> UserRecord]
    /\ \A i \in DOMAIN ledger : ledger[i] \in SnapshotRecord
    /\ lease \in LeaseRecord

Last(s) == s[Len(s)]

\* what the snapshots applied so far make of a person
Projected(p) ==
    TargetState(IF \E i \in DOMAIN ledger : ledger[i].seen[p] = "gone"
                THEN "offboarded" ELSE "active",
                Last(ledger).seen[p], p \in Last(ledger).members)

(***************************************************************************)
(* The user records are what the latest snapshot says, for everybody at    *)
(* once, and a snapshot that was collected earlier is never applied over a *)
(* later one, however the runs of the sync job overlap, die or lose the    *)
(* answer of their commit (apply_snapshot_once, reconcile_identity).       *)
(***************************************************************************)
UsersFollowTheLastSnapshot ==
    /\ \A i, k \in DOMAIN ledger : i < k => ledger[i].at <= ledger[k].at
    /\ ledger # <<>> =>
         \A p \in People :
             /\ users[p].synced = Last(ledger).at
             /\ users[p].state = Projected(p)
             /\ users[p].member = (p \in Last(ledger).members)

================================================================================
