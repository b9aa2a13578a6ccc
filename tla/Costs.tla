--------------------------------- MODULE Costs ---------------------------------
(***************************************************************************)
(* The hourly job that reads the bill and acts on it                       *)
(* (jobs/usage_ingest.py, workers/usage_ingest.py,                         *)
(* adapters/billing_export.py): it stores what every entry of the bill has *)
(* come to, evaluates the organisation's ceiling into the cost guard that  *)
(* every hot path reads (services/org_cost_guard.py), and pauses what the  *)
(* ceiling or an owner's budget says must stop                             *)
(* (adapters/cost_enforcement.py, services/quota.py, services/usage.py).   *)
(*                                                                         *)
(* A resource is an app with its public host or a schedule with its        *)
(* scheduler job. Its effect is switched off before its record is saved,   *)
(* and the record may have moved in between.                               *)
(***************************************************************************)
EXTENDS Directory, Functions

CONSTANTS Runs,          \* executions of the ingest job
          Entries,       \* entries of the month's bill
          EntryOwner,    \* whose each entry is, or Shared
          Shared,        \* an entry that is nobody's
          MaxBill,       \* bound on the cost of an entry
          UserBudget,    \* TARGET_MONTHLY_BUDGET_KRW
          OrgCeiling,    \* ADMIN_BUDGET_CEILING_KRW
          Resources,     \* apps and schedules
          ResourceOwner, \* whose each resource is
          TaskTimeout,   \* the task timeout of the job (600 seconds)
          GuardMaxAge    \* ORG_COST_GUARD_MAX_AGE (2 hours)

NoResource == "none"

ASSUME CostBounds ==
    /\ Shared \notin People
    /\ IsFiniteSet(Entries)
    /\ EntryOwner \in [Entries -> People \cup {Shared}]
    /\ ResourceOwner \in [Resources -> People]
    /\ {MaxBill, OrgCeiling, GuardMaxAge} \subseteq Nat
    /\ UserBudget \in Nat \ {0}
    /\ Free \notin Runs /\ NoResource \notin Resources
    /\ TaskTimeout \in 1..LeaseDuration

VARIABLES bill,      \* what the billing export says each entry has come to
          usage,     \* the stored usage entries
          guard,     \* the organisation's cost guard
          costLease, \* the overlap lease of the ingest job
          ingest,    \* the executions of the ingest job
          resource   \* the apps and schedules: record and effect

costVars == <<bill, usage, guard, costLease, ingest, resource>>

\* the records as the store reads them back
UsageRecord == [cost : -1..MaxBill, at : 0..MaxTime]
GuardRecord == [at : 0..MaxTime, stopped : BOOLEAN]

NotStored == [cost |-> -1, at |-> 0]
IdleRun   == [pc |-> "idle", now |-> 0, deadline |-> 0, known |-> <<>>, rows |-> <<>>,
              todo |-> {}, seen |-> <<>>, off |-> NoResource]

\* _policy_cost: what is stored for one owner, for everybody
Cost     == [e \in Entries |-> IF usage[e] = NotStored THEN 0 ELSE usage[e].cost]
Spent(p) == SumFunctionOnSet(Cost, {e \in Entries : EntryOwner[e] = p})
OrgSpent == SumFunctionOnSet(Cost, Entries)

\* evaluate_cost_policy
Pause(p)      == Spent(p) >= UserBudget
EmergencyStop == OrgSpent >= OrgCeiling

\* require_current_org_cost_guard
GuardCurrent(t) == t - guard.at \in 0..GuardMaxAge /\ ~guard.stopped

RunsTo(i, pc) == ingest' = [ingest EXCEPT ![i].pc = pc]

\* Cloud Run ends a task at its timeout, before its lease can lapse
Alive(i) == now < ingest[i].deadline

\* a run that raises gives its lease back and records that it failed
RunFails(i) ==
    /\ ingest' = [ingest EXCEPT ![i] = IdleRun]
    /\ costLease' = IF costLease.owner = i THEN [owner |-> Free, until |-> 0] ELSE costLease

(***************************************************************************)
(* The bill grows, and sometimes a correction takes some of it back.       *)
(***************************************************************************)

ChangeBill(e) ==
    /\ Spend("bills")
    /\ \E cost \in 0..MaxBill \ {bill[e]} : bill' = [bill EXCEPT ![e] = cost]
    /\ UNCHANGED <<usage, guard, costLease, ingest, resource>>

(***************************************************************************)
(* Reading the bill.                                                       *)
(***************************************************************************)

\* one instant, read after the lease is taken, is the run's for good
StartIngest(i) ==
    /\ ingest[i].pc = "idle"
    /\ Spend("guards")
    /\ costLease.owner = Free \/ costLease.until <= now
    /\ costLease' = [owner |-> i, until |-> now + LeaseDuration]
    /\ ingest' = [ingest EXCEPT ![i].pc = "leased", ![i].now = now,
                                ![i].deadline = now + TaskTimeout]
    /\ UNCHANGED <<bill, usage, guard, resource>>

\* what the export answers, an entry at a time
Fetched == [e \in Entries |-> bill[e]]

\* the stored entries are listed, then the export is queried
FetchBill(i) ==
    /\ ingest[i].pc = "leased" /\ Alive(i)
    /\ \/ /\ ingest' = [ingest EXCEPT ![i].pc = "storing", ![i].known = usage,
                                      ![i].rows = Fetched]
          /\ UNCHANGED <<costLease, budget>>
       \/ RunFails(i) /\ Spend("trouble")
    /\ UNCHANGED <<bill, usage, guard, resource>>

\* a bug: a correction of the bill is taken over
MergeableAlways(known, cost) == cost >= 0 \/ known = NotStored

\* _merge_usage_entry: a decrease fails the run
Mergeable(known, cost) == cost >= known.cost
Merged(known, cost, at) ==
    [cost |-> cost, at |-> IF at > known.at THEN at ELSE known.at]

\* append_usage_entry, upsert_usage_entry_monotonic: nothing is stored over
\* an entry that is not the one that was listed
StoreEntry(i) ==
    /\ ingest[i].pc = "storing" /\ Alive(i)
    /\ \E e \in DOMAIN ingest[i].rows :
          LET known == ingest[i].known[e]
              cost  == ingest[i].rows[e]
          IN  IF usage[e] = known /\ Mergeable(known, cost)
              THEN /\ usage' = [usage EXCEPT ![e] = Merged(known, cost, ingest[i].now)]
                   /\ ingest' = [ingest EXCEPT
                          ![i].rows = [x \in DOMAIN ingest[i].rows \ {e} |-> ingest[i].rows[x]]]
                   /\ UNCHANGED costLease
              ELSE RunFails(i) /\ UNCHANGED usage
    /\ UNCHANGED <<bill, guard, resource, budget>>

(***************************************************************************)
(* The guard, before anything is enforced.                                 *)
(***************************************************************************)

\* persist_org_cost_guard: a guard only moves forward in time
Candidate(i) == [at |-> ingest[i].now, stopped |-> EmergencyStop]
Persists(i)  == Candidate(i) = guard \/ guard.at < ingest[i].now

Owners == {EntryOwner[e] : e \in Entries} \ {Shared}

\* then the scopes the run has to look at: the organisation if it must
\* stop, and every owner of a stored entry
PersistGuard(i) ==
    /\ ingest[i].pc = "storing" /\ ingest[i].rows = <<>> /\ Alive(i)
    /\ \/ /\ Persists(i)
          /\ guard' = Candidate(i)
          /\ ingest' = [ingest EXCEPT
                 ![i] = [IdleRun EXCEPT !.pc = "enforcing", !.now = ingest[i].now,
                             !.deadline = ingest[i].deadline,
                             !.todo = Owners \cup (IF EmergencyStop THEN {Shared} ELSE {})]]
          /\ UNCHANGED <<costLease, budget>>
       \/ /\ ~Persists(i) /\ RunFails(i) /\ UNCHANGED <<guard, budget>>
       \/ /\ Persists(i) /\ Spend("trouble")
          /\ guard' \in {guard, Candidate(i)}
          /\ RunFails(i)
    /\ UNCHANGED <<bill, usage, resource>>

(***************************************************************************)
(* Enforcement.                                                            *)
(***************************************************************************)

InScope(scope) == {r \in Resources : scope = Shared \/ ResourceOwner[r] = scope}

\* _pause_all_resources before any owner, _pause_owner_resources for the
\* owners over their budget; each works on one listing of its resources
ListResources(i) ==
    /\ ingest[i].pc = "enforcing" /\ Alive(i)
    /\ \E scope \in ingest[i].todo :
          /\ Shared \in ingest[i].todo => scope = Shared
          /\ ingest' = [ingest EXCEPT
                 ![i].todo = @ \ {scope},
                 ![i].pc = IF scope = Shared THEN "stopping"
                           ELSE IF Pause(scope) THEN "pausing" ELSE "enforcing",
                 ![i].seen = IF scope = Shared \/ Pause(scope)
                             THEN [r \in {s \in InScope(scope) : resource[s].state = "active"}
                                      |-> resource[r].version]
                             ELSE <<>>]
    /\ UNCHANGED <<bill, usage, guard, costLease, resource, budget>>

AsListed(i, r) == resource[r].version = ingest[i].seen[r]

\* _require_access_removal_reason: a budget is enforced on active users only
Enforceable(i, r) ==
    /\ AsListed(i, r)
    /\ ingest[i].pc = "pausing" => users[ResourceOwner[r]].state = "active"

Pausing(i) == ingest[i].pc \in {"stopping", "pausing"} /\ Alive(i)

\* a bug: a resource whose effect could not be switched off is passed over
SwitchOffOrSkip(i, r) ==
    /\ Pausing(i) /\ ingest[i].off = NoResource /\ r \in DOMAIN ingest[i].seen
    /\ \/ /\ Enforceable(i, r)
          /\ resource' = [resource EXCEPT ![r].on = FALSE]
          /\ ingest' = [ingest EXCEPT ![i].off = r]
          /\ UNCHANGED budget
       \/ /\ Enforceable(i, r) => Spend("trouble")
          /\ ~Enforceable(i, r) => UNCHANGED budget
          /\ ingest' = [ingest EXCEPT
                 ![i].seen = [s \in DOMAIN ingest[i].seen \ {r} |-> ingest[i].seen[s]]]
          /\ UNCHANGED resource
    /\ UNCHANGED <<bill, usage, guard, costLease>>

\* remove_owner_access, apply_schedule_state
SwitchOff(i, r) ==
    /\ Pausing(i) /\ ingest[i].off = NoResource /\ r \in DOMAIN ingest[i].seen
    /\ \/ /\ Enforceable(i, r)
          /\ resource' = [resource EXCEPT ![r].on = FALSE]
          /\ ingest' = [ingest EXCEPT ![i].off = r]
          /\ UNCHANGED <<costLease, budget>>
       \/ /\ Enforceable(i, r) /\ Spend("trouble")
          /\ resource' \in {resource, [resource EXCEPT ![r].on = FALSE]}
          /\ RunFails(i)
       \/ ~Enforceable(i, r) /\ RunFails(i) /\ UNCHANGED <<resource, budget>>
    /\ UNCHANGED <<bill, usage, guard>>

\* save_workload, save_schedule, then the audit event: a newer record fails
\* the run, and its effect stays off; so does an audit that is not written
SavePaused(i) ==
    /\ Pausing(i) /\ ingest[i].off # NoResource
    /\ LET r     == ingest[i].off
           saved == [resource EXCEPT ![r].state = "paused", ![r].version = @ + 1]
       IN  \/ /\ AsListed(i, r)
              /\ resource' = saved
              /\ ingest' = [ingest EXCEPT ![i].off = NoResource,
                     ![i].seen = [s \in DOMAIN ingest[i].seen \ {r} |-> ingest[i].seen[s]]]
              /\ UNCHANGED <<costLease, budget>>
           \/ /\ AsListed(i, r) /\ Spend("trouble")
              /\ resource' \in {resource, saved}
              /\ RunFails(i)
           \/ ~AsListed(i, r) /\ RunFails(i) /\ UNCHANGED <<resource, budget>>
    /\ UNCHANGED <<bill, usage, guard>>

ScopeDone(i) ==
    /\ Pausing(i) /\ ingest[i].seen = <<>>
    /\ RunsTo(i, "enforcing")
    /\ UNCHANGED <<bill, usage, guard, costLease, resource, budget>>

\* the rollup of the activity events follows in the same run (Activity)
IngestDone(i) ==
    /\ ingest[i].pc = "enforcing" /\ Alive(i) /\ ingest[i].todo = {}
    /\ RunsTo(i, "billed")
    /\ UNCHANGED <<bill, usage, guard, costLease, resource, budget>>

ReleaseIngest(i) ==
    /\ ingest[i].pc = "completed"
    /\ RunFails(i)
    /\ UNCHANGED <<bill, usage, guard, resource, budget>>

\* the task is ended at its timeout, or its process dies, with the lease held
RunEnds(i) ==
    /\ ingest[i].pc # "idle"
    /\ \/ ~Alive(i) /\ UNCHANGED budget
       \/ Spend("trouble")
    /\ ingest' = [ingest EXCEPT ![i] = IdleRun]
    /\ UNCHANGED <<bill, usage, guard, costLease, resource>>

IngestStep(i) ==
    \/ StartIngest(i) \/ FetchBill(i) \/ StoreEntry(i) \/ PersistGuard(i)
    \/ ListResources(i) \/ SavePaused(i) \/ ScopeDone(i) \/ IngestDone(i) \/ ReleaseIngest(i) \/ RunEnds(i)
    \/ \E r \in Resources : SwitchOff(i, r)

CostInit ==
    /\ bill = [e \in Entries |-> 0]
    /\ usage = [e \in Entries |-> NotStored]
    /\ guard = [at |-> 0, stopped |-> FALSE]
    /\ costLease = [owner |-> Free, until |-> 0]
    /\ ingest = [i \in Runs |-> IdleRun]
    /\ resource = [r \in Resources |-> [state |-> "active", version |-> 1, on |-> TRUE]]

CostNext ==
    \/ \E e \in Entries : ChangeBill(e)
    \/ \E i \in Runs : IngestStep(i)

--------------------------------------------------------------------------------

CostTypeOK ==
    /\ bill \in [Entries -> 0..MaxBill]
    /\ usage \in [Entries -> UsageRecord]
    /\ guard \in GuardRecord
    /\ costLease \in [owner : Runs \cup {Free}, until : Nat]
    /\ \A r \in Resources : resource[r].state \in {"active", "paused"} /\ resource[r].on \in BOOLEAN

(***************************************************************************)
(* An organisation that was stopped in a month stays stopped: no later run *)
(* reopens the guard, whatever a correction of the bill, a crash between   *)
(* storing the entries and the guard, or a lost answer leaves behind       *)
(* (persist_org_cost_guard, _merge_usage_entry,                            *)
(* upsert_usage_entry_monotonic).                                          *)
(***************************************************************************)
StopIsFinal == [][guard.stopped => guard'.stopped]_guard

(***************************************************************************)
(* A run of the ingest job that comes through its bill has stopped all its *)
(* own stored entries say must stop, although every pause is two writes    *)
(* and an app's record moves with every request it answers                 *)
(* (_pause_workload_if_eligible, _pause_schedule_if_eligible).             *)
(***************************************************************************)
CompletedRunStops ==
    [][\A i \in Runs : ingest[i].pc = "enforcing" /\ ingest'[i].pc = "billed" =>
           \A r \in Resources :
               EmergencyStop \/ Pause(ResourceOwner[r]) =>
                   resource[r].state = "paused" /\ ~resource[r].on]_ingest

================================================================================
