----------------------------- MODULE ScheduleGate -----------------------------
(****************************************************************************)
(* The hourly execution of schedules: Cloud Scheduler sends a tick, the     *)
(* schedule gateway (machine_api.py, execute_schedule_tick) takes the       *)
(* schedule's lease, records an operation, checks the policies again, hands *)
(* the run to the Cloud Run job dispatcher with its ledger, and completes   *)
(* the run.  Every clock reading of the gateway is the time of its tick,    *)
(* never the wall clock.                                                    *)
(****************************************************************************)
EXTENDS ScheduleCommands, Sequences

CONSTANTS
  Gates,            \* deliveries of ticks that can be handled at once
  CrashableGates,   \* the deliveries whose process may die midway
  Hour,             \* units between two ticks
  LeaseTime,        \* _LEASE_DURATION, five minutes
  FailureLimit      \* failures in a row that disable a schedule, three

ASSUME GateParameters ==
  /\ CrashableGates \subseteq Gates
  /\ Hour \in Nat \ {0}
  /\ LeaseTime \in 1..Hour
  /\ FailureLimit \in Nat \ {0}

VARIABLES
  sent,             \* ticks Cloud Scheduler has sent, and may send again
  gates,            \* what each delivery has read, and where it is
  tickOps,          \* the operation of a tick, created once per owner and hour
  ledger,           \* schedule_dispatch_ledger
  executions,       \* external: executions of the Cloud Run job for a tick
  completed         \* history: the attempts that were counted, in order

gateVars == << sent, gates, tickOps, ledger, executions, completed >>
vars == << now, permitted, commandVars, gateVars >>

Ticks == {t \in Times : t > 0 /\ t % Hour = 0}

GateSteps == {"idle", "lease", "create", "queue", "revalidate", "dispatch", "claim",
              "run", "record", "reconcile", "succeed", "fail", "complete"}

GateRecord ==
  [pc : GateSteps, schedule : Schedules \cup {None}, tick : Times,
   version : Nat,               \* of the schedule, as read and then as leased
   ok : BOOLEAN]                \* did the run succeed?

IdleGate == [pc |-> "idle", schedule |-> None, tick |-> 0, version |-> 0, ok |-> FALSE]

TickStates == {"none", "planned", "queued", "building", "deploying", "verifying",
               "succeeded", "failed"}
LedgerStates == {"none", "claimed", "ambiguous", "succeeded"}

TypeOK ==
  /\ CommandsTypeOK
  /\ sent \subseteq Schedules \X Ticks
  /\ gates \in [Gates -> GateRecord]
  /\ tickOps \in [Schedules -> [Ticks -> TickStates]]
  /\ ledger \in [Schedules -> [Ticks -> LedgerStates]]
  /\ executions \in [Schedules -> [Ticks -> Nat]]
  /\ completed \in [Schedules -> Seq([tick : Ticks, ok : BOOLEAN])]

Init ==
  /\ CommandsInit
  /\ sent = {}
  /\ gates = [g \in Gates |-> IdleGate]
  /\ tickOps = [s \in Schedules |-> [t \in Ticks |-> "none"]]
  /\ ledger = [s \in Schedules |-> [t \in Ticks |-> "none"]]
  /\ executions = [s \in Schedules |-> [t \in Ticks |-> 0]]
  /\ completed = [s \in Schedules |-> << >>]

Goto(g, step) == gates' = [gates EXCEPT ![g].pc = step]
EndGate(g)    == gates' = [gates EXCEPT ![g] = IdleGate]

(* A step of a gate that touches nothing but what it names.                 *)
Untouched == UNCHANGED << now, permitted, claims, jobs, commands, sent >>

SetOp(g, state) ==
  tickOps' = [tickOps EXCEPT ![gates[g].schedule][gates[g].tick] = state]
SetLedger(g, state) ==
  ledger' = [ledger EXCEPT ![gates[g].schedule][gates[g].tick] = state]
OpOf(g)     == tickOps[gates[g].schedule][gates[g].tick]
LedgerOf(g) == ledger[gates[g].schedule][gates[g].tick]
RunsOf(g)   == executions[gates[g].schedule][gates[g].tick]

----------------------------------------------------------------------------
(* On the hour Cloud Scheduler sends the tick of every job that is enabled. *)
ClockTick ==
  /\ now < MaxTime
  /\ now' = now + 1
  /\ sent' = IF now' \in Ticks
               THEN sent \cup {<< s, now' >> : s \in {x \in Schedules : jobs[x] = "enabled"}}
               ELSE sent
  /\ UNCHANGED << permitted, commandVars, gates, tickOps, ledger, executions, completed >>

(* The owner, the workload or the costs change under everybody's feet.      *)
PolicyChanges ==
  /\ permitted' = ~permitted
  /\ UNCHANGED << now, commandVars, gateVars >>

(* execute_schedule_tick reads the schedule once.  A schedule that is not   *)
(* enabled is denied, a tick that was attempted already is a replay: both   *)
(* end here with nothing written.                                           *)
ExecuteTick(g, s, t) ==
  /\ gates[g].pc = "idle"
  /\ << s, t >> \in sent
  /\ schedules[s] # None
  /\ schedules[s].state = "enabled"
  /\ schedules[s].attempt < t
  /\ gates' = [gates EXCEPT ![g] =
       [IdleGate EXCEPT !.pc = "lease", !.schedule = s, !.tick = t,
                        !.version = schedules[s].version]]
  /\ Untouched
  /\ UNCHANGED << schedules, tickOps, ledger, executions, completed >>

(* Mutated: the tick may be older than the last change of the schedule.     *)
LeasableLate(s, v, t) ==
  /\ schedules[s].version = v
  /\ schedules[s].state = "enabled"
  /\ schedules[s].token = 0 \/ schedules[s].until <= t

(* Mutated: a lease that is still active does not stand in the way.         *)
LeasableOver(s, v, t) ==
  /\ schedules[s].state = "enabled"
  /\ t >= schedules[s].updated

(* acquire_schedule_lease, one transaction.  A fresh random token is stood  *)
(* for by the version the lease is stored under.                            *)
Leasable(s, v, t) ==
  /\ schedules[s].version = v
  /\ schedules[s].state = "enabled"
  /\ t >= schedules[s].updated
  /\ schedules[s].token = 0 \/ schedules[s].until <= t

(* Mutated: the lease leaves the time of the last change as it was.         *)
LeasedSilently(record, t) ==
  [record EXCEPT !.token = record.version + 1, !.until = t + LeaseTime,
                 !.version = record.version + 1]

Leased(record, t) ==
  [record EXCEPT !.token = record.version + 1, !.until = t + LeaseTime,
                 !.updated = t, !.version = record.version + 1]

AcquireLease(g) ==
  LET s == gates[g].schedule
      t == gates[g].tick
      v == schedules[s].version + 1
  IN /\ gates[g].pc = "lease"
     /\ IF Leasable(s, gates[g].version, t)
          THEN /\ schedules' = [schedules EXCEPT ![s] = Leased(@, t)]
               /\ gates' = [gates EXCEPT ![g].version = v, ![g].pc = "create"]
          ELSE EndGate(g) /\ UNCHANGED schedules
     /\ Untouched
     /\ UNCHANGED << tickOps, ledger, executions, completed >>

(* create_operation_once: the operation of this tick, new or as it is.  An  *)
(* operation that went past the queue denies the tick.                      *)
CreateTickOperation(g) ==
  /\ gates[g].pc = "create"
  /\ IF OpOf(g) = "none" THEN SetOp(g, "planned") ELSE UNCHANGED tickOps
  /\ IF OpOf(g) \in {"none", "planned"} THEN Goto(g, "queue")
     ELSE IF OpOf(g) = "queued" THEN Goto(g, "revalidate") ELSE EndGate(g)
  /\ Untouched
  /\ UNCHANGED << schedules, ledger, executions, completed >>

QueueTickOperation(g) ==
  /\ gates[g].pc = "queue"
  /\ SetOp(g, "queued")
  /\ Goto(g, "revalidate")
  /\ Untouched
  /\ UNCHANGED << schedules, ledger, executions, completed >>

(* _revalidate_execution_policy: the owner, the workload, the quota and the *)
(* costs once more.                                                         *)
Revalidate(g) ==
  /\ gates[g].pc = "revalidate"
  /\ Goto(g, IF HasCapacity THEN "dispatch" ELSE "fail")
  /\ Untouched
  /\ UNCHANGED << schedules, tickOps, ledger, executions, completed >>

----------------------------------------------------------------------------
(* CloudRunJobDispatcher.dispatch.  The job's boundary is checked, which    *)
(* may fail, and the ledger is read.                                        *)
Resolution(state) ==
  CASE state \in {"claimed", "ambiguous"} -> "reconcile"
    [] state = "succeeded"                -> "succeed"

ReadLedger(g) ==
  /\ gates[g].pc = "dispatch"
  /\ \/ Goto(g, IF LedgerOf(g) = "none" THEN "claim" ELSE Resolution(LedgerOf(g)))
     \/ Goto(g, "fail")
  /\ Untouched
  /\ UNCHANGED << schedules, tickOps, ledger, executions, completed >>

(* claim creates the ledger record, or answers with the one that is there;  *)
(* the answer "claimed" is taken for the caller's own.  A write may be lost, *)
(* and so may its answer.                                                    *)
ClaimDispatch(g) ==
  /\ gates[g].pc = "claim"
  /\ \/ /\ IF LedgerOf(g) = "none" THEN SetLedger(g, "claimed") ELSE UNCHANGED ledger
        /\ \/ Goto(g, IF LedgerOf(g) \in {"none", "claimed"} THEN "run"
                      ELSE Resolution(LedgerOf(g)))
           \/ Goto(g, "fail")
     \/ UNCHANGED ledger /\ Goto(g, "fail")
  /\ Untouched
  /\ UNCHANGED << schedules, tickOps, executions, completed >>

(* run_job starts an execution; the answer may be an error whether it did   *)
(* or not, and the ledger may refuse to note the doubt.                     *)
RunJob(g) ==
  /\ gates[g].pc = "run"
  /\ \E started \in {0, 1} :
       /\ executions' =
            [executions EXCEPT ![gates[g].schedule][gates[g].tick] = @ + started]
       /\ \/ started = 1 /\ Goto(g, "record") /\ UNCHANGED ledger
          \/ Goto(g, "reconcile") /\ SetLedger(g, "ambiguous")
          \/ Goto(g, "fail") /\ UNCHANGED ledger
  /\ Untouched
  /\ UNCHANGED << schedules, tickOps, completed >>

RecordSuccess(g) ==
  /\ gates[g].pc = "record"
  /\ \/ SetLedger(g, "succeeded") /\ (Goto(g, "succeed") \/ Goto(g, "fail"))
     \/ UNCHANGED ledger /\ Goto(g, "fail")
  /\ Untouched
  /\ UNCHANGED << schedules, tickOps, executions, completed >>

(* Mutated: an empty listing passes for a run that is over.                 *)
ReconciledBlindly(g) == RunsOf(g) <= 1

(* _reconcile lists the executions of the job and accepts exactly one that  *)
(* carries this tick's token.  The listing may lag behind.                  *)
Reconciled(g) == RunsOf(g) = 1

Reconcile(g) ==
  /\ gates[g].pc = "reconcile"
  /\ \/ Reconciled(g) /\ SetLedger(g, "succeeded") /\ (Goto(g, "succeed") \/ Goto(g, "fail"))
     \/ UNCHANGED ledger /\ Goto(g, "fail")
  /\ Untouched
  /\ UNCHANGED << schedules, tickOps, executions, completed >>

----------------------------------------------------------------------------
(* _mark_operation_succeeded saves the operation four times; nobody else    *)
(* writes it.  If a save fails the run counts as failed, and the operation  *)
(* stays where it got to unless it is still queued.                         *)
MarkSucceeded(g) ==
  /\ gates[g].pc = "succeed"
  /\ \/ /\ SetOp(g, "succeeded")
        /\ gates' = [gates EXCEPT ![g].ok = TRUE, ![g].pc = "complete"]
     \/ /\ SetOp(g, "failed")
        /\ Goto(g, "complete")
     \/ /\ \E state \in {"building", "deploying", "verifying"} : SetOp(g, state)
        /\ Goto(g, "complete")
  /\ Untouched
  /\ UNCHANGED << schedules, ledger, executions, completed >>

(* _mark_operation_failed, after a denial or any error of the dispatcher.   *)
MarkFailed(g) ==
  /\ gates[g].pc = "fail"
  /\ IF OpOf(g) = "queued" THEN SetOp(g, "failed") ELSE UNCHANGED tickOps
  /\ Goto(g, "complete")
  /\ Untouched
  /\ UNCHANGED << schedules, ledger, executions, completed >>

(* complete_schedule_run, one transaction: only the holder of the current   *)
(* lease counts its attempt; the FailureLimit-th failure in a row disables. *)
Completable(g) ==
  LET s == gates[g].schedule
  IN /\ schedules[s].version = gates[g].version
     /\ schedules[s].state = "enabled"
     /\ gates[g].tick >= schedules[s].updated
     /\ schedules[s].token = gates[g].version
     /\ schedules[s].until > gates[g].tick

(* Mutated: a success leaves the earlier failures standing.                 *)
AttemptedKeepingFailures(record, t, ok) ==
  LET failures == IF ok THEN record.failures ELSE record.failures + 1
  IN [record EXCEPT !.state = IF failures >= FailureLimit THEN "disabled" ELSE record.state,
        !.failures = failures, !.token = 0, !.until = 0, !.attempt = t,
        !.success = IF ok THEN t ELSE record.success, !.updated = t,
        !.version = record.version + 1]

Attempted(record, t, ok) ==
  LET failures == IF ok THEN 0 ELSE record.failures + 1
  IN [record EXCEPT !.state = IF failures >= FailureLimit THEN "disabled" ELSE record.state,
        !.failures = failures, !.token = 0, !.until = 0, !.attempt = t,
        !.success = IF ok THEN t ELSE record.success, !.updated = t,
        !.version = record.version + 1]

CompleteRun(g) ==
  LET s == gates[g].schedule
      t == gates[g].tick
  IN /\ gates[g].pc = "complete"
     /\ IF Completable(g)
          THEN /\ schedules' = [schedules EXCEPT ![s] = Attempted(@, t, gates[g].ok)]
               /\ completed' = [completed EXCEPT ![s] =
                                  Append(@, [tick |-> t, ok |-> gates[g].ok])]
          ELSE UNCHANGED << schedules, completed >>
     /\ EndGate(g)
     /\ Untouched
     /\ UNCHANGED << tickOps, ledger, executions >>

CrashGate(g) ==
  /\ g \in CrashableGates
  /\ gates[g].pc # "idle"
  /\ EndGate(g)
  /\ Untouched
  /\ UNCHANGED << schedules, tickOps, ledger, executions, completed >>

GateStep(g) ==
  \/ AcquireLease(g) \/ CreateTickOperation(g) \/ QueueTickOperation(g)
  \/ Revalidate(g) \/ ReadLedger(g) \/ ClaimDispatch(g) \/ RunJob(g)
  \/ RecordSuccess(g) \/ Reconcile(g) \/ MarkSucceeded(g) \/ MarkFailed(g)
  \/ CompleteRun(g)

Next ==
  \/ CommandsNext /\ UNCHANGED gateVars
  \/ ClockTick
  \/ PolicyChanges
  \/ \E g \in Gates :
       \/ \E s \in Schedules, t \in Ticks : ExecuteTick(g, s, t)
       \/ GateStep(g)
       \/ CrashGate(g)

Spec == Init /\ [][Next]_vars

----------------------------------------------------------------------------
(* However often a tick is sent, however late, and wherever a gateway dies, *)
(* the workload's job is started at most once for it: the lease has to keep *)
(* the dispatcher from taking another gateway's claim for its own.          *)
JobsRunOncePerTick ==
  \A s \in Schedules, t \in Ticks : executions[s][t] <= 1

(* What is reported as a success was carried out: the schedule's last       *)
(* success and the operation of a tick both stand for one execution that    *)
(* the ledger recorded.                                                     *)
SuccessMeansExecuted ==
  \A s \in Schedules, t \in Ticks :
    \/ tickOps[s][t] = "succeeded"
    \/ schedules[s] # None /\ schedules[s].success = t
    => executions[s][t] = 1 /\ ledger[s][t] = "succeeded"

(* Attempts are counted in the order of their ticks, each tick once, and    *)
(* the failure count of a schedule is the number of failed attempts since   *)
(* its last counted success, pauses and lost runs notwithstanding.          *)
AttemptsInOrder ==
  \A s \in Schedules :
    LET runs == completed[s]
        n    == Len(runs)
    IN /\ \A i, j \in 1..n : i < j => runs[i].tick < runs[j].tick
       /\ schedules[s] # None =>
            LET f == schedules[s].failures
            IN /\ f <= n
               /\ \A i \in (n - f + 1)..n : ~runs[i].ok
               /\ f < n => runs[n - f].ok

(* A stop holds: while a schedule is not enabled, no job was started for a  *)
(* tick after the moment it was stopped, whatever gateways were still at    *)
(* work then.                                                               *)
StopsHold ==
  \A s \in Schedules, t \in Ticks :
    /\ schedules[s] # None
    /\ schedules[s].state # "enabled"
    /\ t > schedules[s].updated
    => executions[s][t] = 0

(* A schedule's clock readings never go back: a late gateway or a slow stop *)
(* does not overwrite what was stored after it read.                        *)
ScheduleTimeMovesForward ==
  [][\A s \in Schedules : schedules[s] # None =>
       /\ schedules'[s].updated >= schedules[s].updated
       /\ schedules'[s].attempt >= schedules[s].attempt
       /\ schedules'[s].success >= schedules[s].success]_vars

(* The design: "Admission prevents a user from creating more than [...]     *)
(* three active schedules".                                                 *)
ScheduleLimitHolds == Cardinality(Owned) <= Limit

(* The design: "A user may own at most [...] three active schedules".  An   *)
(* owner who keeps to it is denied a run only when the owner, the workload  *)
(* or the costs call for it.                                                *)
OwnersWithinTheLimitRun ==
  [][\A g \in Gates :
       /\ gates[g].pc = "revalidate"
       /\ gates'[g].pc = "fail"
       => ~permitted \/ Cardinality(Owned) > Limit]_vars
==============================================================================
