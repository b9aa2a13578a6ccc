--------------------------- MODULE ScheduleCommands ---------------------------
(****************************************************************************)
(* The schedules of one owner, services/schedule_management.py: creation    *)
(* from a reviewed plan, pause and resume, and the stops of the cost guard  *)
(* and of the lifecycle worker.  A command is one request in flight; the    *)
(* store and Cloud Scheduler are written in separate steps.                 *)
(*                                                                          *)
(* Time is counted in units shorter than a lease; 0 stands for "never".     *)
(* A schedule and the plan it is created from share an id, as in the code   *)
(* (the id of the schedule is a digest of the plan's).                      *)
(****************************************************************************)
EXTENDS MimStates, Naturals, FiniteSets

CONSTANTS
  Schedules,        \* the schedules that plans were issued for
  Keys,             \* idempotency keys of create_schedule_from_plan
  Commands,         \* requests and maintenance jobs in flight at once
  StopTargets,      \* states the cost guard and the lifecycle worker impose
  Limit,            \* PER_USER_SCHEDULE_LIMIT
  MaxTime,          \* bound on the clock
  MaxVersion,       \* bound on the version of a schedule for commands
  None

ASSUME ScheduleParameters ==
  /\ StopTargets \subseteq {"paused", "disabled", "archived"}
  /\ Limit \in Nat \ {0}
  /\ MaxTime \in Nat
  /\ MaxVersion \in Nat

VARIABLES
  now,              \* the wall clock
  permitted,        \* owner active, workload active or failed, costs in bounds
  schedules,        \* the schedule collection
  claims,           \* (owner, key) -> the schedule its operation created
  jobs,             \* Cloud Scheduler: "none", "enabled" or "paused"
  commands          \* what each command has read, and where it is

commandVars == << schedules, claims, jobs, commands >>

Times == 0..MaxTime

ScheduleRecord ==
  [state : ScheduleStates, version : Nat \ {0}, updated : Times,
   failures : Nat, token : Nat, until : Nat,      \* the lease, 0 if none
   attempt : Times, success : Times]

CommandSteps == {"idle", "consume", "ensure", "savePause", "pauseJob",
                 "saveResume", "resumeJob", "stopJob", "saveStop"}

CommandRecord ==
  [pc : CommandSteps, schedule : Schedules \cup {None}, key : Keys \cup {None},
   version : Nat, at : Times, target : StopTargets \cup {None}]

IdleCommand == [pc |-> "idle", schedule |-> None, key |-> None,
                version |-> 0, at |-> 0, target |-> None]

ASSUME NoneIsNoSchedule == None \notin ScheduleRecord \cup Schedules \cup Keys

CommandsTypeOK ==
  /\ now \in Times
  /\ permitted \in BOOLEAN
  /\ schedules \in [Schedules -> ScheduleRecord \cup {None}]
  /\ claims \in [Keys -> Schedules \cup {None}]
  /\ jobs \in [Schedules -> {"none", "enabled", "paused"}]
  /\ commands \in [Commands -> CommandRecord]

CommandsInit ==
  /\ now = 1 /\ MaxTime >= 1
  /\ permitted = TRUE
  /\ schedules = [s \in Schedules |-> None]
  /\ claims = [k \in Keys |-> None]
  /\ jobs = [s \in Schedules |-> "none"]
  /\ commands = [c \in Commands |-> IdleCommand]

(* Mutated: a record is created without its first version.                  *)
NewScheduleUnversioned(at) ==
  [state |-> "enabled", version |-> 0, updated |-> at, failures |-> 0,
   token |-> 0, until |-> 0, attempt |-> 0, success |-> 0]

NewSchedule(at) ==
  [state |-> "enabled", version |-> 1, updated |-> at, failures |-> 0,
   token |-> 0, until |-> 0, attempt |-> 0, success |-> 0]

(* Schedules that count against the limit of their owner.                   *)
Owned == {s \in Schedules : schedules[s] # None
                /\ schedules[s].state \in {"enabled", "paused", "disabled"}}

(* _require_schedule_capacity: the same test admits a new schedule, a       *)
(* resumed one and every tick.                                              *)
HasCapacity == permitted /\ Cardinality(Owned) < Limit

(* save_schedule of a copy read at version v, moved to another state.       *)
CanMove(s, v, target, at) ==
  /\ schedules[s].version = v
  /\ target \in ScheduleMoves[schedules[s].state]
  /\ at >= schedules[s].updated

Moved(record, target, at) ==
  [record EXCEPT !.state = target, !.updated = at, !.version = record.version + 1]

StepTo(c, step) == commands' = [commands EXCEPT ![c].pc = step]
EndCommand(c)   == commands' = [commands EXCEPT ![c] = IdleCommand]
StartCommand(c, s, step, v) ==
  commands' = [commands EXCEPT ![c] =
    [IdleCommand EXCEPT !.pc = step, !.schedule = s, !.version = v, !.at = now]]

----------------------------------------------------------------------------
(* create_schedule_from_plan reviews the workload, the quota and the costs  *)
(* first, on a retry as well.                                               *)
CreateSchedule(c, s, k) ==
  /\ commands[c].pc = "idle"
  /\ HasCapacity
  /\ commands' = [commands EXCEPT ![c] =
       [IdleCommand EXCEPT !.pc = "consume", !.schedule = s, !.key = k, !.at = now]]
  /\ UNCHANGED << now, permitted, schedules, claims, jobs >>

(* A replay finds its key claimed and the schedule that was created under   *)
(* it; a first use finds neither.                                           *)
Replayed(s, k) == claims[k] # None /\ schedules[s] # None
FirstUse(s, k) == claims[k] = None /\ schedules[s] = None

(* consume_schedule_plan_with_operation: one transaction that consumes the  *)
(* plan, creates the schedule and claims the key; a replay under the same   *)
(* key answers with the stored schedule, anything else is denied.  The      *)
(* scheduler refuses a schedule that is not enabled.                        *)
ConsumeSchedulePlan(c) ==
  LET s == commands[c].schedule
      k == commands[c].key
  IN /\ commands[c].pc = "consume"
     /\ \/ /\ FirstUse(s, k)
           /\ schedules' = [schedules EXCEPT ![s] = NewSchedule(commands[c].at)]
           /\ claims' = [claims EXCEPT ![k] = s]
           /\ StepTo(c, "ensure")
        \/ /\ Replayed(s, k)
           /\ IF schedules[s].state = "enabled" THEN StepTo(c, "ensure")
                                                ELSE EndCommand(c)
           /\ UNCHANGED << schedules, claims >>
        \/ /\ ~FirstUse(s, k) /\ ~Replayed(s, k)
           /\ EndCommand(c)
           /\ UNCHANGED << schedules, claims >>
     /\ UNCHANGED << now, permitted, jobs >>

(* The scheduler creates or repairs the job and enables it; a failure       *)
(* leaves the job as it was and denies the request.                         *)
EnsureJob(c, step) ==
  /\ commands[c].pc = step
  /\ \/ jobs' = [jobs EXCEPT ![commands[c].schedule] = "enabled"]
     \/ UNCHANGED jobs
  /\ EndCommand(c)
  /\ UNCHANGED << now, permitted, schedules, claims >>

EnsureEnabled(c) == EnsureJob(c, "ensure")
ResumeJob(c)     == EnsureJob(c, "resumeJob")

----------------------------------------------------------------------------
(* pause_schedule.  A schedule that is paused already goes straight to the  *)
(* scheduler.                                                               *)
PauseSchedule(c, s) ==
  /\ commands[c].pc = "idle"
  /\ schedules[s] # None
  /\ schedules[s].state \in {"enabled", "paused"}
  /\ schedules[s].version < MaxVersion
  /\ StartCommand(c, s, IF schedules[s].state = "paused" THEN "pauseJob" ELSE "savePause",
                  schedules[s].version)
  /\ UNCHANGED << now, permitted, schedules, claims, jobs >>

SaveMove(c, step, target, at, next) ==
  LET s == commands[c].schedule
  IN /\ commands[c].pc = step
     /\ \/ /\ CanMove(s, commands[c].version, target, at)
           /\ schedules' = [schedules EXCEPT ![s] = Moved(@, target, at)]
           /\ IF next = "idle" THEN EndCommand(c) ELSE StepTo(c, next)
        \/ /\ ~CanMove(s, commands[c].version, target, at)
           /\ EndCommand(c)
           /\ UNCHANGED schedules
     /\ UNCHANGED << now, permitted, claims, jobs >>

(* The clock is read after the review and before the save.                   *)
SavePause(c) ==
  \E at \in commands[c].at..now : SaveMove(c, "savePause", "paused", at, "pauseJob")

(* The adapter enables the job before it pauses it, and may fail in between. *)
PauseJob(c) ==
  /\ commands[c].pc = "pauseJob"
  /\ \/ \E state \in {"paused", "enabled"} :
          jobs' = [jobs EXCEPT ![commands[c].schedule] = state]
     \/ UNCHANGED jobs
  /\ EndCommand(c)
  /\ UNCHANGED << now, permitted, schedules, claims >>

(* resume_schedule asks for capacity again, the schedule itself included.   *)
ResumeSchedule(c, s) ==
  /\ commands[c].pc = "idle"
  /\ schedules[s] # None
  /\ schedules[s].version < MaxVersion
  /\ \/ /\ schedules[s].state = "enabled"
        /\ StartCommand(c, s, "resumeJob", schedules[s].version)
     \/ /\ schedules[s].state \in {"paused", "disabled"}
        /\ HasCapacity
        /\ StartCommand(c, s, "saveResume", schedules[s].version)
  /\ UNCHANGED << now, permitted, schedules, claims, jobs >>

SaveResume(c) ==
  \E at \in commands[c].at..now : SaveMove(c, "saveResume", "enabled", at, "resumeJob")

----------------------------------------------------------------------------
(* The cost guard pauses what is enabled; the lifecycle worker disables     *)
(* what a locked owner still has, and archives before it deletes.  All      *)
(* three take the scheduler job away first and save the schedule after.     *)
(* The lifecycle worker's clock reading is the start of its job, long       *)
(* before it reads the schedule.                                            *)
StopSchedule(c, s, target, at) ==
  /\ commands[c].pc = "idle"
  /\ at \in 1..now
  /\ target = "paused" => at = now
  /\ schedules[s] # None
  /\ schedules[s].version < MaxVersion
  /\ schedules[s].state \in CASE target = "paused"   -> {"enabled"}
                              [] target = "disabled" -> {"enabled", "paused"}
                              [] target = "archived" -> ScheduleStates \ {"archived"}
  /\ commands' = [commands EXCEPT ![c] =
       [IdleCommand EXCEPT !.pc = "stopJob", !.schedule = s, !.target = target,
                           !.version = schedules[s].version, !.at = at]]
  /\ UNCHANGED << now, permitted, schedules, claims, jobs >>

StopJob(c) ==
  LET s == commands[c].schedule
  IN /\ commands[c].pc = "stopJob"
     /\ \/ /\ schedules[s].version = commands[c].version
           /\ jobs' = [jobs EXCEPT ![s] =
                IF @ = "none" \/ commands[c].target = "archived" THEN "none" ELSE "paused"]
           /\ StepTo(c, "saveStop")
        \/ EndCommand(c) /\ UNCHANGED jobs       \* another version, or the API fails
     /\ UNCHANGED << now, permitted, schedules, claims >>

SaveStop(c) ==
  \E at \in commands[c].at..(IF commands[c].target = "paused" THEN now
                                                            ELSE commands[c].at) :
    SaveMove(c, "saveStop", commands[c].target, at, "idle")

(* A request or a maintenance job may die between any two of its steps.     *)
CrashCommand(c) ==
  /\ commands[c].pc # "idle"
  /\ EndCommand(c)
  /\ UNCHANGED << now, permitted, schedules, claims, jobs >>

CommandsNext ==
  \E c \in Commands :
    \/ \E s \in Schedules, k \in Keys : CreateSchedule(c, s, k)
    \/ ConsumeSchedulePlan(c) \/ EnsureEnabled(c)
    \/ \E s \in Schedules : PauseSchedule(c, s) \/ ResumeSchedule(c, s)
    \/ SavePause(c) \/ PauseJob(c) \/ SaveResume(c) \/ ResumeJob(c)
    \/ \E s \in Schedules, target \in StopTargets, at \in Times :
         StopSchedule(c, s, target, at)
    \/ StopJob(c) \/ SaveStop(c) \/ CrashCommand(c)
==============================================================================
