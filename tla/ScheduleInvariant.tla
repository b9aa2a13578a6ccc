-------------------------- MODULE ScheduleInvariant --------------------------
(****************************************************************************)
(* What holds of every reachable state of ScheduleGate and is preserved by  *)
(* every step of it: the strengthening of the safety properties that        *)
(* ScheduleProofs proves, and that TLC checks here on small instances.      *)
(****************************************************************************)
EXTENDS ScheduleGate

(* A gate that was granted a lease for its tick, and has not completed.     *)
WorkingGateSteps == GateSteps \ {"idle", "lease"}
Working(g) == gates[g].pc \in WorkingGateSteps

(* No lease will be granted for tick t of schedule s again: an attempt at   *)
(* it or at a later tick was counted, or a lease of such a tick is stored.  *)
Spent(s, t) ==
  /\ schedules[s] # None
  /\ \/ t <= schedules[s].attempt
     \/ schedules[s].token # 0 /\ t + LeaseTime <= schedules[s].until

(* The times of a schedule record.  A stored lease belongs to a tick later  *)
(* than the last attempt, and no later than the last change.                *)
LeaseFacts ==
  \A s \in Schedules : schedules[s] # None =>
    /\ schedules[s].success <= schedules[s].attempt
    /\ schedules[s].attempt <= schedules[s].updated
    /\ schedules[s].token # 0 =>
         /\ schedules[s].attempt + LeaseTime < schedules[s].until
         /\ schedules[s].until <= schedules[s].updated + LeaseTime

(* Nothing is recorded or started for a tick without a lease.               *)
UnspentTicksAreUntouched ==
  \A s \in Schedules, t \in Ticks : ~Spent(s, t) =>
    tickOps[s][t] = "none" /\ ledger[s][t] = "none" /\ executions[s][t] = 0

(* What a command has established by the time it reaches each step.         *)
CommandFacts(c) ==
  LET command == commands[c]
  IN /\ command.pc # "idle" => command.schedule \in Schedules
     /\ command.pc = "consume" => command.key \in Keys
     /\ command.pc \notin {"idle", "consume"} => schedules[command.schedule] # None
     /\ command.pc \in {"stopJob", "saveStop"} => command.target \in StopTargets

(* What the operation, the ledger and the job of a tick are when the gate   *)
(* that works on it is about to do its next step.                           *)
TickStands(gate, op, led, runs) ==
  /\ gate.pc = "create" => op = "none"
  /\ gate.pc = "queue" => op = "planned"
  /\ gate.pc \in WorkingGateSteps \ {"create", "queue", "complete"} => op = "queued"
  /\ gate.pc \in {"create", "queue", "revalidate", "dispatch", "claim"} =>
       led = "none" /\ runs = 0
  /\ gate.pc = "run" => led = "claimed" /\ runs = 0
  /\ gate.pc = "record" => led = "claimed" /\ runs = 1
  /\ gate.pc = "reconcile" => led = "ambiguous"
  /\ gate.pc = "succeed" \/ (gate.pc = "complete" /\ gate.ok) =>
       led = "succeeded" /\ runs = 1

(* What a gate has established by the time it reaches each step.            *)
GateFacts(g) ==
  LET gate == gates[g]
      s    == gate.schedule
      t    == gate.tick
  IN /\ gate.ok => gate.pc = "complete"
     /\ gate.pc # "idle" =>
          /\ s \in Schedules
          /\ t \in Ticks
          /\ schedules[s] # None
          /\ gate.version <= schedules[s].version
     /\ gate.pc = "lease" /\ schedules[s].version = gate.version =>
          schedules[s].attempt < t
     /\ Working(g) =>
          /\ Spent(s, t)
          /\ TickStands(gate, tickOps[s][t], ledger[s][t], executions[s][t])

(* No two gates work on one tick.                                           *)
OneGatePerTick ==
  \A g, h \in Gates :
    /\ Working(g) /\ Working(h)
    /\ gates[g].schedule = gates[h].schedule
    /\ gates[g].tick = gates[h].tick
    => g = h

(* The last attempt that was counted is the one the record shows.           *)
HistoryFacts ==
  \A s \in Schedules :
    LET runs == completed[s]
    IN /\ schedules[s] = None => runs = << >>
       /\ runs # << >> => runs[Len(runs)].tick = schedules[s].attempt

(* The inductive invariant of the schedules: what the records, the commands *)
(* and the gates agree on between any two steps of any of them              *)
(* (services/schedule_management.py, adapters/memory_store.py,              *)
(* adapters/cloud_run_job_dispatch.py).                                     *)
ScheduleInvariant ==
  /\ TypeOK
  /\ JobsRunOncePerTick
  /\ SuccessMeansExecuted
  /\ AttemptsInOrder
  /\ LeaseFacts
  /\ UnspentTicksAreUntouched
  /\ \A c \in Commands : CommandFacts(c)
  /\ \A g \in Gates : GateFacts(g)
  /\ OneGatePerTick
  /\ HistoryFacts
==============================================================================
