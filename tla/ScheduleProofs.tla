---------------------------- MODULE ScheduleProofs ----------------------------
(****************************************************************************)
(* Proofs about the schedules.                                              *)
(****************************************************************************)
EXTENDS ScheduleInvariant, TLAPS

LEMMA ScheduleMovesClosed ==
  \A x \in ScheduleStates : ScheduleMoves[x] \subseteq ScheduleStates
BY DEF ScheduleStates, ScheduleMoves

LEMMA TicksAreTimes == \A t \in Ticks : t \in Times /\ t \in Nat /\ t > 0
BY ScheduleParameters DEF Ticks, Times

LEMMA IdleCommandTyped == IdleCommand \in CommandRecord /\ IdleCommand.pc = "idle"
BY ScheduleParameters DEF IdleCommand, CommandRecord, CommandSteps, Times

LEMMA IdleGateTyped == IdleGate \in GateRecord /\ IdleGate.pc = "idle" /\ ~IdleGate.ok
BY ScheduleParameters DEF IdleGate, GateRecord, GateSteps, Times

(* A schedule that is stored is a record.                                   *)
LEMMA StoredSchedule ==
  ASSUME ScheduleInvariant, NEW s \in Schedules, schedules[s] # None
  PROVE  /\ schedules[s] \in ScheduleRecord
         /\ schedules[s].version \in Nat \ {0}
         /\ schedules[s].updated \in Nat
         /\ schedules[s].attempt \in Nat
         /\ schedules[s].success \in Nat
         /\ schedules[s].until \in Nat
         /\ schedules[s].token \in Nat
         /\ schedules[s].failures \in Nat
<1>1. schedules[s] \in ScheduleRecord
  BY DEF ScheduleInvariant, TypeOK, CommandsTypeOK
<1> QED BY <1>1, ScheduleParameters DEF ScheduleRecord, Times

LEMMA Initially == ASSUME Init PROVE ScheduleInvariant
<1>1. TypeOK
  <2>1. CommandsTypeOK
    BY IdleCommandTyped, ScheduleParameters DEF Init, CommandsInit, CommandsTypeOK, Times
  <2>2. /\ sent \subseteq Schedules \X Ticks
        /\ gates \in [Gates -> GateRecord]
        /\ tickOps \in [Schedules -> [Ticks -> TickStates]]
        /\ ledger \in [Schedules -> [Ticks -> LedgerStates]]
        /\ executions \in [Schedules -> [Ticks -> Nat]]
    BY IdleGateTyped DEF Init, TickStates, LedgerStates
  <2>3. completed \in [Schedules -> Seq([tick : Ticks, ok : BOOLEAN])]
    BY DEF Init
  <2> QED BY <2>1, <2>2, <2>3 DEF TypeOK
<1>2. JobsRunOncePerTick /\ SuccessMeansExecuted
  BY DEF Init, CommandsInit, JobsRunOncePerTick, SuccessMeansExecuted
<1>3. AttemptsInOrder
  BY DEF Init, CommandsInit, AttemptsInOrder
<1>4. LeaseFacts /\ HistoryFacts /\ UnspentTicksAreUntouched
  BY DEF Init, CommandsInit, LeaseFacts, HistoryFacts, UnspentTicksAreUntouched
<1>5. \A c \in Commands : CommandFacts(c)
  BY DEF Init, CommandsInit, CommandFacts, IdleCommand
<1>6. (\A g \in Gates : GateFacts(g)) /\ OneGatePerTick
  BY DEF Init, GateFacts, OneGatePerTick, Working, WorkingGateSteps, IdleGate
<1> QED BY <1>1, <1>2, <1>3, <1>4, <1>5, <1>6 DEF ScheduleInvariant

----------------------------------------------------------------------------
(* What a command may hold at the step it is about to do.                   *)
CommandStands(x) ==
  /\ x \in CommandRecord
  /\ x.pc # "idle" => x.schedule \in Schedules
  /\ x.pc = "consume" => x.key \in Keys
  /\ x.pc \notin {"idle", "consume"} => schedules[x.schedule] # None
  /\ x.pc \in {"stopJob", "saveStop"} => x.target \in StopTargets

(* A step of a command that writes no schedule.                             *)
LEMMA CommandMoves ==
  ASSUME ScheduleInvariant, NEW c \in Commands, NEW x, CommandStands(x),
         commands' = [commands EXCEPT ![c] = x],
         jobs' \in [Schedules -> {"none", "enabled", "paused"}],
         UNCHANGED << now, permitted, schedules, claims, gateVars >>
  PROVE  ScheduleInvariant'
<1>1. commands' \in [Commands -> CommandRecord]
  BY DEF ScheduleInvariant, TypeOK, CommandsTypeOK, CommandStands
<1>2. TypeOK'
  BY <1>1 DEF ScheduleInvariant, TypeOK, CommandsTypeOK, gateVars
<1>3. \A d \in Commands : commands'[d] = IF d = c THEN x ELSE commands[d]
  BY DEF ScheduleInvariant, TypeOK, CommandsTypeOK
<1>4. ASSUME NEW d \in Commands PROVE CommandFacts(d)'
  BY <1>3 DEF ScheduleInvariant, CommandFacts, CommandStands
<1>5. (JobsRunOncePerTick /\ SuccessMeansExecuted /\ AttemptsInOrder)'
  BY DEF ScheduleInvariant, JobsRunOncePerTick, SuccessMeansExecuted, AttemptsInOrder, gateVars
<1>6. (LeaseFacts /\ UnspentTicksAreUntouched /\ HistoryFacts)'
  BY DEF ScheduleInvariant, LeaseFacts, UnspentTicksAreUntouched, HistoryFacts, Spent, gateVars
<1>7. ((\A g \in Gates : GateFacts(g)) /\ OneGatePerTick)'
  BY DEF ScheduleInvariant, GateFacts, OneGatePerTick, Working, Spent, TickStands, gateVars
<1> QED BY <1>2, <1>4, <1>5, <1>6, <1>7 DEF ScheduleInvariant

LEMMA CommandEnds ==
  ASSUME ScheduleInvariant, NEW c \in Commands, EndCommand(c),
         jobs' \in [Schedules -> {"none", "enabled", "paused"}],
         UNCHANGED << now, permitted, schedules, claims, gateVars >>
  PROVE  ScheduleInvariant'
<1>1. CommandStands(IdleCommand)
  BY IdleCommandTyped DEF CommandStands
<1> QED BY <1>1, CommandMoves DEF EndCommand

(* A command that goes on keeps what it has read.                           *)
LEMMA CommandGoesOn ==
  ASSUME ScheduleInvariant, NEW c \in Commands, NEW step \in CommandSteps,
         StepTo(c, step),
         commands[c].pc # "idle",
         step # "consume",
         schedules[commands[c].schedule] # None,
         step \in {"stopJob", "saveStop"} => commands[c].target \in StopTargets,
         jobs' \in [Schedules -> {"none", "enabled", "paused"}],
         UNCHANGED << now, permitted, schedules, claims, gateVars >>
  PROVE  ScheduleInvariant'
<1> DEFINE x == [commands[c] EXCEPT !.pc = step]
<1>1. commands[c] \in CommandRecord /\ commands[c].schedule \in Schedules
  BY DEF ScheduleInvariant, TypeOK, CommandsTypeOK, CommandFacts
<1>2. x \in CommandRecord /\ x.pc = step
      /\ x.schedule = commands[c].schedule /\ x.target = commands[c].target
  BY <1>1 DEF CommandRecord
<1>3. commands' = [commands EXCEPT ![c] = x]
  BY DEF StepTo
<1> HIDE DEF x
<1>4. CommandStands(x)
  BY <1>1, <1>2 DEF CommandStands
<1> QED BY <1>3, <1>4, CommandMoves

----------------------------------------------------------------------------
(* What the commands may do to a schedule: create it, or move it without    *)
(* touching the lease and the counts.                                       *)
CommandWrites(s, q) ==
  /\ q \in ScheduleRecord
  /\ \/ /\ schedules[s] = None
        /\ q.attempt = 0 /\ q.success = 0 /\ q.token = 0 /\ q.failures = 0
     \/ /\ schedules[s] # None
        /\ q.version = schedules[s].version + 1
        /\ q.updated >= schedules[s].updated
        /\ q.attempt = schedules[s].attempt /\ q.success = schedules[s].success
        /\ q.token = schedules[s].token /\ q.until = schedules[s].until
        /\ q.failures = schedules[s].failures

LEMMA ScheduleWritten ==
  ASSUME ScheduleInvariant, NEW c \in Commands, NEW x, NEW s \in Schedules, NEW q,
         CommandWrites(s, q),
         schedules' = [schedules EXCEPT ![s] = q],
         commands' = [commands EXCEPT ![c] = x],
         x \in CommandRecord,
         x.pc # "idle" => x.schedule = s /\ x.pc \notin {"consume", "stopJob", "saveStop"},
         claims' \in [Keys -> Schedules \cup {None}],
         UNCHANGED << now, permitted, jobs, gateVars >>
  PROVE  ScheduleInvariant'
<1>1. q # None
  BY NoneIsNoSchedule DEF CommandWrites
<1>2. \A y \in Schedules : schedules'[y] = IF y = s THEN q ELSE schedules[y]
  BY DEF ScheduleInvariant, TypeOK, CommandsTypeOK
<1>3. \A y \in Schedules : schedules[y] # None => schedules'[y] # None
  BY <1>1, <1>2
<1>4. TypeOK'
  <2>1. schedules' \in [Schedules -> ScheduleRecord \cup {None}]
    BY DEF ScheduleInvariant, TypeOK, CommandsTypeOK, CommandWrites
  <2>2. commands' \in [Commands -> CommandRecord]
    BY DEF ScheduleInvariant, TypeOK, CommandsTypeOK
  <2> QED BY <2>1, <2>2 DEF ScheduleInvariant, TypeOK, CommandsTypeOK, gateVars
<1>5. ASSUME NEW d \in Commands PROVE CommandFacts(d)'
  <2>1. commands'[d] = IF d = c THEN x ELSE commands[d]
    BY DEF ScheduleInvariant, TypeOK, CommandsTypeOK
  <2>2. CommandFacts(d)
    BY DEF ScheduleInvariant
  <2>3. CASE d = c
    BY <1>1, <1>2, <2>1, <2>3 DEF CommandFacts
  <2>4. CASE d # c
    BY <1>3, <2>1, <2>2, <2>4 DEF CommandFacts
  <2> QED BY <2>3, <2>4
<1>6. \A y \in Schedules, t \in Ticks : Spent(y, t)' <=> Spent(y, t)
  <2> SUFFICES ASSUME NEW y \in Schedules, NEW t \in Ticks
               PROVE  Spent(y, t)' <=> Spent(y, t)
    OBVIOUS
  <2>1. CASE y # s
    BY <1>2, <2>1 DEF Spent
  <2>2. CASE y = s /\ schedules[s] = None
    BY <1>1, <1>2, <2>2, TicksAreTimes DEF Spent, CommandWrites
  <2>3. CASE y = s /\ schedules[s] # None
    BY <1>1, <1>2, <2>3 DEF Spent, CommandWrites
  <2> QED BY <2>1, <2>2, <2>3
<1>7. JobsRunOncePerTick' /\ UnspentTicksAreUntouched'
  BY <1>6 DEF ScheduleInvariant, JobsRunOncePerTick, UnspentTicksAreUntouched, gateVars
<1>8. SuccessMeansExecuted'
  <2>1. \A y \in Schedules, t \in Ticks :
          schedules'[y] # None /\ schedules'[y].success = t
          => schedules[y] # None /\ schedules[y].success = t
    BY <1>2, TicksAreTimes DEF CommandWrites
  <2> QED BY <2>1 DEF ScheduleInvariant, SuccessMeansExecuted, gateVars
<1>9. LeaseFacts'
  <2> SUFFICES ASSUME NEW y \in Schedules, schedules'[y] # None
               PROVE  /\ schedules'[y].success <= schedules'[y].attempt
                      /\ schedules'[y].attempt <= schedules'[y].updated
                      /\ schedules'[y].token # 0 =>
                           /\ schedules'[y].attempt + LeaseTime < schedules'[y].until
                           /\ schedules'[y].until <= schedules'[y].updated + LeaseTime
    BY DEF LeaseFacts
  <2>1. CASE y # s
    BY <1>2, <2>1 DEF ScheduleInvariant, LeaseFacts
  <2>2. CASE y = s /\ schedules[s] = None
    BY <1>2, <2>2, ScheduleParameters DEF CommandWrites, ScheduleRecord, Times
  <2>3. CASE y = s /\ schedules[s] # None
    <3>1. /\ schedules[s].success <= schedules[s].attempt
          /\ schedules[s].attempt <= schedules[s].updated
          /\ schedules[s].token # 0 =>
               /\ schedules[s].attempt + LeaseTime < schedules[s].until
               /\ schedules[s].until <= schedules[s].updated + LeaseTime
      BY <2>3 DEF ScheduleInvariant, LeaseFacts
    <3>2. schedules[s].updated \in Nat /\ schedules[s].attempt \in Nat
          /\ schedules[s].until \in Nat /\ q.updated \in Nat /\ LeaseTime \in Nat
      BY <2>3, StoredSchedule, GateParameters, ScheduleParameters
      DEF CommandWrites, ScheduleRecord, Times
    <3> QED BY <1>2, <2>3, <3>1, <3>2 DEF CommandWrites
  <2> QED BY <2>1, <2>2, <2>3
<1>10. AttemptsInOrder' /\ HistoryFacts'
  <2>1. \A y \in Schedules : schedules'[y] # None =>
          \/ schedules[y] = None /\ schedules'[y].failures = 0 /\ schedules'[y].attempt = 0
          \/ /\ schedules[y] # None
             /\ schedules'[y].failures = schedules[y].failures
             /\ schedules'[y].attempt = schedules[y].attempt
    BY <1>2 DEF CommandWrites
  <2>2. \A y \in Schedules : schedules[y] = None => completed[y] = << >>
    BY DEF ScheduleInvariant, HistoryFacts
  <2>3. HistoryFacts'
    BY <1>3, <2>1, <2>2 DEF ScheduleInvariant, HistoryFacts, gateVars
  <2>4. completed' = completed
    BY DEF gateVars
  <2>5. AttemptsInOrder'
    <3> SUFFICES ASSUME NEW y \in Schedules
                 PROVE  LET runs == completed[y]
                            n    == Len(runs)
                        IN /\ \A i, j \in 1..n : i < j => runs[i].tick < runs[j].tick
                           /\ schedules'[y] # None =>
                                LET f == schedules'[y].failures
                                IN /\ f <= n
                                   /\ \A i \in (n - f + 1)..n : ~runs[i].ok
                                   /\ f < n => runs[n - f].ok
      BY <2>4 DEF AttemptsInOrder
    <3>1. CASE schedules[y] # None
      BY <2>1, <3>1 DEF ScheduleInvariant, AttemptsInOrder
    <3>2. CASE schedules[y] = None
      BY <2>1, <2>2, <3>2
    <3> QED BY <3>1, <3>2
  <2> QED BY <2>3, <2>5
<1>11. ASSUME NEW g \in Gates PROVE GateFacts(g)'
  <2>1. gates' = gates /\ tickOps' = tickOps /\ ledger' = ledger /\ executions' = executions
    BY DEF gateVars
  <2>2. GateFacts(g)
    BY DEF ScheduleInvariant
  <2>3. CASE gates[g].pc = "idle"
    BY <2>1, <2>2, <2>3 DEF GateFacts, Working, WorkingGateSteps
  <2>4. CASE gates[g].pc # "idle"
    <3> DEFINE y == gates[g].schedule
    <3>1. y \in Schedules /\ gates[g].tick \in Ticks /\ schedules[y] # None
          /\ gates[g].version <= schedules[y].version
      BY <2>2, <2>4 DEF GateFacts
    <3>2. gates[g].version \in Nat
      BY DEF ScheduleInvariant, TypeOK, GateRecord
    <3>3. schedules[y].version \in Nat
      BY <3>1, StoredSchedule
    <3> HIDE DEF y
    <3>4. \/ schedules'[y] = schedules[y]
          \/ schedules'[y].version = schedules[y].version + 1
      BY <1>2, <3>1 DEF CommandWrites
    <3>5. schedules'[y] # None
      BY <1>3, <3>1
    <3>6. gates[g].version <= schedules'[y].version
      BY <3>1, <3>2, <3>3, <3>4
    <3>7. gates[g].version = schedules'[y].version => schedules'[y] = schedules[y]
      BY <3>1, <3>2, <3>3, <3>4
    <3>8. Spent(y, gates[g].tick)' <=> Spent(y, gates[g].tick)
      BY <1>6, <2>1, <3>1 DEF y
    <3> QED BY <2>1, <2>2, <3>1, <3>5, <3>6, <3>7, <3>8 DEF GateFacts, Working, y
  <2> QED BY <2>3, <2>4
<1>12. OneGatePerTick'
  BY DEF ScheduleInvariant, OneGatePerTick, Working, gateVars
<1> QED BY <1>4, <1>5, <1>7, <1>8, <1>9, <1>10, <1>11, <1>12 DEF ScheduleInvariant

(* A command that is starting.                                              *)
LEMMA CommandStarts ==
  ASSUME ScheduleInvariant, NEW c \in Commands, NEW x \in CommandRecord,
         commands' = [commands EXCEPT ![c] = x],
         x.schedule \in Schedules,
         x.pc = "consume" => x.key \in Keys,
         x.pc # "consume" => schedules[x.schedule] # None,
         x.pc \in {"stopJob", "saveStop"} => x.target \in StopTargets,
         UNCHANGED << now, permitted, schedules, claims, jobs, gateVars >>
  PROVE  ScheduleInvariant'
<1>1. CommandStands(x)
  BY DEF CommandStands
<1>2. jobs' \in [Schedules -> {"none", "enabled", "paused"}]
  BY DEF ScheduleInvariant, TypeOK, CommandsTypeOK
<1> QED BY <1>1, <1>2, CommandMoves

LEMMA CreateKeeps ==
  ASSUME ScheduleInvariant, NEW c \in Commands, NEW s \in Schedules, NEW k \in Keys,
         CreateSchedule(c, s, k), UNCHANGED gateVars
  PROVE  ScheduleInvariant'
<1> DEFINE x == [IdleCommand EXCEPT !.pc = "consume", !.schedule = s, !.key = k, !.at = now]
<1>1. now \in Times
  BY DEF ScheduleInvariant, TypeOK, CommandsTypeOK
<1>2. x \in CommandRecord /\ x.pc = "consume" /\ x.schedule = s /\ x.key = k
  BY <1>1 DEF IdleCommand, CommandRecord, CommandSteps
<1>3. commands' = [commands EXCEPT ![c] = x]
  BY DEF CreateSchedule
<1> HIDE DEF x
<1> QED BY <1>2, <1>3, CommandStarts DEF CreateSchedule

(* Where StartCommand leads.                                                *)
LEMMA StartKeeps ==
  ASSUME ScheduleInvariant, NEW c \in Commands, NEW s \in Schedules, NEW step, NEW v,
         StartCommand(c, s, step, v), v \in Nat,
         step \in {"savePause", "pauseJob", "saveResume", "resumeJob"},
         schedules[s] # None,
         UNCHANGED << now, permitted, schedules, claims, jobs, gateVars >>
  PROVE  ScheduleInvariant'
<1> DEFINE x == [IdleCommand EXCEPT !.pc = step, !.schedule = s, !.version = v, !.at = now]
<1>1. now \in Times
  BY DEF ScheduleInvariant, TypeOK, CommandsTypeOK
<1>2. x \in CommandRecord /\ x.pc = step /\ x.schedule = s
  BY <1>1 DEF IdleCommand, CommandRecord, CommandSteps
<1>3. commands' = [commands EXCEPT ![c] = x]
  BY DEF StartCommand
<1> HIDE DEF x
<1> QED BY <1>2, <1>3, CommandStarts

LEMMA PauseAndResumeKeep ==
  ASSUME ScheduleInvariant, NEW c \in Commands, NEW s \in Schedules,
         PauseSchedule(c, s) \/ ResumeSchedule(c, s), UNCHANGED gateVars
  PROVE  ScheduleInvariant'
<1>1. schedules[s] # None
  BY DEF PauseSchedule, ResumeSchedule
<1>2. schedules[s].version \in Nat
  BY <1>1, StoredSchedule
<1>3. UNCHANGED << now, permitted, schedules, claims, jobs >>
  BY DEF PauseSchedule, ResumeSchedule
<1>4. \E step \in {"savePause", "pauseJob", "saveResume", "resumeJob"} :
        StartCommand(c, s, step, schedules[s].version)
  BY DEF PauseSchedule, ResumeSchedule
<1> QED BY <1>1, <1>2, <1>3, <1>4, StartKeeps

LEMMA StopKeeps ==
  ASSUME ScheduleInvariant, NEW c \in Commands, NEW s \in Schedules,
         NEW target \in StopTargets, NEW at \in Times,
         StopSchedule(c, s, target, at), UNCHANGED gateVars
  PROVE  ScheduleInvariant'
<1> DEFINE x == [IdleCommand EXCEPT !.pc = "stopJob", !.schedule = s, !.target = target,
                                    !.version = schedules[s].version, !.at = at]
<1>1. schedules[s] # None
  BY DEF StopSchedule
<1>2. schedules[s].version \in Nat
  BY <1>1, StoredSchedule
<1>3. x \in CommandRecord /\ x.pc = "stopJob" /\ x.schedule = s /\ x.target = target
  BY <1>2 DEF IdleCommand, CommandRecord, CommandSteps
<1>4. commands' = [commands EXCEPT ![c] = x]
  BY DEF StopSchedule
<1> HIDE DEF x
<1> QED BY <1>1, <1>3, <1>4, CommandStarts DEF StopSchedule

LEMMA JobStepsKeep ==
  ASSUME ScheduleInvariant, NEW c \in Commands,
         EnsureEnabled(c) \/ ResumeJob(c) \/ PauseJob(c), UNCHANGED gateVars
  PROVE  ScheduleInvariant'
<1>1. jobs \in [Schedules -> {"none", "enabled", "paused"}]
  BY DEF ScheduleInvariant, TypeOK, CommandsTypeOK
<1>2. jobs' \in [Schedules -> {"none", "enabled", "paused"}]
  BY <1>1 DEF EnsureEnabled, ResumeJob, EnsureJob, PauseJob
<1> QED BY <1>2, CommandEnds DEF EnsureEnabled, ResumeJob, EnsureJob, PauseJob

LEMMA StopJobKeeps ==
  ASSUME ScheduleInvariant, NEW c \in Commands, StopJob(c), UNCHANGED gateVars
  PROVE  ScheduleInvariant'
<1>1. jobs \in [Schedules -> {"none", "enabled", "paused"}]
  BY DEF ScheduleInvariant, TypeOK, CommandsTypeOK
<1>2. commands[c].schedule \in Schedules /\ schedules[commands[c].schedule] # None
      /\ commands[c].target \in StopTargets
  BY DEF ScheduleInvariant, CommandFacts, StopJob
<1>3. jobs' \in [Schedules -> {"none", "enabled", "paused"}]
  BY <1>1 DEF StopJob
<1>4. CASE EndCommand(c)
  BY <1>3, <1>4, CommandEnds DEF StopJob
<1>5. CASE StepTo(c, "saveStop")
  BY <1>2, <1>3, <1>5, CommandGoesOn DEF StopJob, CommandSteps
<1> QED BY <1>4, <1>5 DEF StopJob

LEMMA CrashCommandKeeps ==
  ASSUME ScheduleInvariant, NEW c \in Commands, CrashCommand(c), UNCHANGED gateVars
  PROVE  ScheduleInvariant'
BY CommandEnds DEF CrashCommand, ScheduleInvariant, TypeOK, CommandsTypeOK

LEMMA ConsumeKeeps ==
  ASSUME ScheduleInvariant, NEW c \in Commands, ConsumeSchedulePlan(c), UNCHANGED gateVars
  PROVE  ScheduleInvariant'
<1> DEFINE s == commands[c].schedule
           k == commands[c].key
           q == NewSchedule(commands[c].at)
           x == [commands[c] EXCEPT !.pc = "ensure"]
<1>1. s \in Schedules /\ k \in Keys
  BY DEF ScheduleInvariant, CommandFacts, ConsumeSchedulePlan,
     FirstUse, Replayed
<1>2. commands[c] \in CommandRecord
  BY DEF ScheduleInvariant, TypeOK, CommandsTypeOK
<1>3. jobs' \in [Schedules -> {"none", "enabled", "paused"}]
  BY DEF ScheduleInvariant, TypeOK, CommandsTypeOK, ConsumeSchedulePlan,
     FirstUse, Replayed
<1>4. CASE claims[k] = None /\ schedules[s] = None
  <2>1. x \in CommandRecord /\ x.pc = "ensure" /\ x.schedule = s
    BY <1>2 DEF CommandRecord, CommandSteps
  <2>2. q \in ScheduleRecord /\ q.attempt = 0 /\ q.success = 0 /\ q.token = 0 /\ q.failures = 0
    BY <1>2, ScheduleParameters DEF NewSchedule, ScheduleRecord, CommandRecord, Times, ScheduleStates, ScheduleMoves
  <2>3. CommandWrites(s, q)
    BY <1>4, <2>2 DEF CommandWrites
  <2>4. claims' \in [Keys -> Schedules \cup {None}]
    BY <1>1, <1>4 DEF ConsumeSchedulePlan, FirstUse, Replayed, ScheduleInvariant, TypeOK, CommandsTypeOK
  <2>5. schedules' = [schedules EXCEPT ![s] = q] /\ commands' = [commands EXCEPT ![c] = x]
    BY <1>4 DEF ConsumeSchedulePlan, FirstUse, Replayed, StepTo
  <2>6. UNCHANGED << now, permitted, jobs >>
    BY DEF ConsumeSchedulePlan, FirstUse, Replayed
  <2> HIDE DEF s, q, x
  <2> QED BY <1>1, <2>1, <2>3, <2>4, <2>5, <2>6, ScheduleWritten
<1>5. CASE ~(claims[k] = None /\ schedules[s] = None)
  <2>1. UNCHANGED << now, permitted, schedules, claims >>
    BY <1>5 DEF ConsumeSchedulePlan, FirstUse, Replayed
  <2>2. EndCommand(c) \/ (StepTo(c, "ensure") /\ schedules[s] # None)
    BY <1>5 DEF ConsumeSchedulePlan, FirstUse, Replayed
  <2>3. commands[c].pc # "idle"
    BY DEF ConsumeSchedulePlan, FirstUse, Replayed
  <2> QED BY <1>3, <2>1, <2>2, <2>3, CommandEnds, CommandGoesOn DEF CommandSteps
<1> QED BY <1>4, <1>5

LEMMA SaveMoveKeeps ==
  ASSUME ScheduleInvariant, NEW c \in Commands, NEW step, NEW target, NEW at \in Times, NEW next,
         SaveMove(c, step, target, at, next), UNCHANGED gateVars,
         step \in {"savePause", "saveResume", "saveStop"},
         next \in {"idle", "pauseJob", "resumeJob"}
  PROVE  ScheduleInvariant'
<1> DEFINE s == commands[c].schedule
           q == Moved(schedules[s], target, at)
           x == IF next = "idle" THEN IdleCommand ELSE [commands[c] EXCEPT !.pc = next]
<1>1. commands[c].pc = step /\ UNCHANGED << now, permitted, claims, jobs >>
  BY DEF SaveMove
<1>2. s \in Schedules /\ schedules[s] # None
  BY <1>1 DEF ScheduleInvariant, CommandFacts
<1>3. jobs \in [Schedules -> {"none", "enabled", "paused"}]
      /\ claims \in [Keys -> Schedules \cup {None}]
      /\ commands[c] \in CommandRecord
  BY DEF ScheduleInvariant, TypeOK, CommandsTypeOK
<1>4. CASE CanMove(s, commands[c].version, target, at)
  <2>1. schedules[s] \in ScheduleRecord
    BY <1>2, StoredSchedule
  <2>2. target \in ScheduleStates /\ at >= schedules[s].updated
    BY <1>4, <2>1, ScheduleMovesClosed DEF CanMove, ScheduleRecord
  <2>3. CommandWrites(s, q)
    <3> DEFINE r == schedules[s]
    <3>1. r \in ScheduleRecord /\ r # None
      BY <1>2, <2>1
    <3>2. q = [r EXCEPT !.state = target, !.updated = at, !.version = r.version + 1]
      BY DEF Moved
    <3> HIDE DEF r, q
    <3>5. r.version + 1 \in Nat \ {0}
      BY <3>1 DEF ScheduleRecord
    <3>3. q \in ScheduleRecord
      BY <2>2, <3>1, <3>2, <3>5 DEF ScheduleRecord
    <3>4. /\ q.version = r.version + 1 /\ q.updated = at
          /\ q.attempt = r.attempt /\ q.success = r.success
          /\ q.token = r.token /\ q.until = r.until /\ q.failures = r.failures
      BY <3>1, <3>2 DEF ScheduleRecord
    <3> QED BY <2>2, <3>1, <3>3, <3>4 DEF CommandWrites, r
  <2>4. x \in CommandRecord /\ (x.pc # "idle" => x.schedule = s /\ x.pc = next)
    BY <1>3, IdleCommandTyped DEF CommandRecord, CommandSteps
  <2>5. schedules' = [schedules EXCEPT ![s] = q]
    BY <1>4 DEF SaveMove
  <2>6. commands' = [commands EXCEPT ![c] = x]
    BY <1>4 DEF SaveMove, EndCommand, StepTo
  <2> HIDE DEF s, q, x
  <2> QED BY <1>1, <1>2, <1>3, <2>3, <2>4, <2>5, <2>6, ScheduleWritten
<1>5. CASE ~CanMove(s, commands[c].version, target, at)
  BY <1>1, <1>3, <1>5, CommandEnds DEF SaveMove
<1> QED BY <1>4, <1>5

LEMMA SavesKeep ==
  ASSUME ScheduleInvariant, NEW c \in Commands,
         SavePause(c) \/ SaveResume(c) \/ SaveStop(c), UNCHANGED gateVars
  PROVE  ScheduleInvariant'
<1>1. commands[c].at \in Times /\ now \in Times
  BY DEF ScheduleInvariant, TypeOK, CommandsTypeOK, CommandRecord
<1>2. \A i \in Times : commands[c].at..i \subseteq Times
  BY <1>1, ScheduleParameters DEF Times
<1>3. CASE SavePause(c)
  <2>1. PICK at \in commands[c].at..now : SaveMove(c, "savePause", "paused", at, "pauseJob")
    BY <1>3 DEF SavePause
  <2>2. at \in Times
    BY <1>1, <1>2
  <2> QED BY <2>1, <2>2, SaveMoveKeeps
<1>4. CASE SaveResume(c)
  <2>1. PICK at \in commands[c].at..now : SaveMove(c, "saveResume", "enabled", at, "resumeJob")
    BY <1>4 DEF SaveResume
  <2>2. at \in Times
    BY <1>1, <1>2
  <2> QED BY <2>1, <2>2, SaveMoveKeeps
<1>5. CASE SaveStop(c)
  <2>1. PICK at \in commands[c].at..(IF commands[c].target = "paused" THEN now
                                                                    ELSE commands[c].at) :
          SaveMove(c, "saveStop", commands[c].target, at, "idle")
    BY <1>5 DEF SaveStop
  <2>2. at \in Times
    BY <1>1, <1>2
  <2> QED BY <2>1, <2>2, SaveMoveKeeps
<1> QED BY <1>3, <1>4, <1>5

LEMMA CommandsKeep ==
  ASSUME ScheduleInvariant, CommandsNext, UNCHANGED gateVars
  PROVE  ScheduleInvariant'
<1> PICK c \in Commands :
       \/ \E s \in Schedules, k \in Keys : CreateSchedule(c, s, k)
       \/ ConsumeSchedulePlan(c) \/ EnsureEnabled(c)
       \/ \E s \in Schedules : PauseSchedule(c, s) \/ ResumeSchedule(c, s)
       \/ SavePause(c) \/ PauseJob(c) \/ SaveResume(c) \/ ResumeJob(c)
       \/ \E s \in Schedules, target \in StopTargets, at \in Times :
            StopSchedule(c, s, target, at)
       \/ StopJob(c) \/ SaveStop(c) \/ CrashCommand(c)
  BY DEF CommandsNext
<1> QED BY CreateKeeps, ConsumeKeeps, JobStepsKeep, PauseAndResumeKeep, SavesKeep,
           StopKeeps, StopJobKeeps, CrashCommandKeeps

----------------------------------------------------------------------------
(* A gate that stops, whether it has done its work or not.                  *)
LEMMA GateEnds ==
  ASSUME ScheduleInvariant, NEW g \in Gates, EndGate(g), Untouched,
         UNCHANGED << schedules, tickOps, ledger, executions, completed >>
  PROVE  ScheduleInvariant'
<1>1. \A h \in Gates : gates'[h] = IF h = g THEN IdleGate ELSE gates[h]
  BY DEF ScheduleInvariant, TypeOK, EndGate
<1>2. TypeOK'
  <2>1. gates' \in [Gates -> GateRecord]
    BY IdleGateTyped DEF ScheduleInvariant, TypeOK, EndGate
  <2> QED BY <2>1 DEF ScheduleInvariant, TypeOK, CommandsTypeOK, Untouched
<1>3. \A c \in Commands : CommandFacts(c)'
  BY DEF ScheduleInvariant, CommandFacts, Untouched
<1>4. (JobsRunOncePerTick /\ SuccessMeansExecuted /\ AttemptsInOrder)'
  BY DEF ScheduleInvariant, JobsRunOncePerTick, SuccessMeansExecuted, AttemptsInOrder
<1>5. (LeaseFacts /\ UnspentTicksAreUntouched /\ HistoryFacts)'
  BY DEF ScheduleInvariant, LeaseFacts, UnspentTicksAreUntouched, HistoryFacts, Spent
<1>6. ASSUME NEW h \in Gates PROVE GateFacts(h)'
  <2>1. CASE h = g
    BY <1>1, <2>1, IdleGateTyped DEF GateFacts, Working, WorkingGateSteps
  <2>2. CASE h # g
    BY <1>1, <2>2 DEF ScheduleInvariant, GateFacts, Working, Spent, TickStands
  <2> QED BY <2>1, <2>2
<1>7. OneGatePerTick'
  <2>1. \A h \in Gates : Working(h)' => Working(h) /\ gates'[h] = gates[h]
    BY <1>1, IdleGateTyped DEF Working, WorkingGateSteps
  <2> QED BY <2>1 DEF ScheduleInvariant, OneGatePerTick
<1> QED BY <1>2, <1>3, <1>4, <1>5, <1>6, <1>7 DEF ScheduleInvariant

LEMMA ExecuteTickKeeps ==
  ASSUME ScheduleInvariant, NEW g \in Gates, NEW s \in Schedules, NEW t \in Ticks,
         ExecuteTick(g, s, t)
  PROVE  ScheduleInvariant'
<1> DEFINE y == [IdleGate EXCEPT !.pc = "lease", !.schedule = s, !.tick = t,
                                 !.version = schedules[s].version]
<1>0. Untouched /\ UNCHANGED << schedules, tickOps, ledger, executions, completed >>
  BY DEF ExecuteTick
<1>1. schedules[s] # None /\ schedules[s].attempt < t
  BY DEF ExecuteTick
<1>2. schedules[s].version \in Nat
  BY <1>1, StoredSchedule
<1>3. /\ y \in GateRecord
      /\ y.pc = "lease" /\ ~y.ok /\ y.schedule = s /\ y.tick = t /\ y.version = schedules[s].version
  BY <1>2, TicksAreTimes DEF IdleGate, GateRecord, GateSteps
<1>4. gates' = [gates EXCEPT ![g] = y]
  BY DEF ExecuteTick
<1> HIDE DEF y
<1>5. \A h \in Gates : gates'[h] = IF h = g THEN y ELSE gates[h]
  BY <1>4 DEF ScheduleInvariant, TypeOK
<1>6. TypeOK'
  <2>1. gates' \in [Gates -> GateRecord]
    BY <1>3, <1>4 DEF ScheduleInvariant, TypeOK
  <2> QED BY <1>0, <2>1 DEF ScheduleInvariant, TypeOK, CommandsTypeOK, Untouched
<1>7. \A c \in Commands : CommandFacts(c)'
  BY <1>0 DEF ScheduleInvariant, CommandFacts, Untouched
<1>8. (JobsRunOncePerTick /\ SuccessMeansExecuted /\ AttemptsInOrder)'
  BY <1>0 DEF ScheduleInvariant, JobsRunOncePerTick, SuccessMeansExecuted, AttemptsInOrder
<1>9. (LeaseFacts /\ UnspentTicksAreUntouched /\ HistoryFacts)'
  BY <1>0 DEF ScheduleInvariant, LeaseFacts, UnspentTicksAreUntouched, HistoryFacts, Spent
<1>10. ASSUME NEW h \in Gates PROVE GateFacts(h)'
  <2>1. CASE h = g
    BY <1>0, <1>1, <1>2, <1>3, <1>5, <2>1 DEF GateFacts, Working, WorkingGateSteps
  <2>2. CASE h # g
    BY <1>0, <1>5, <2>2 DEF ScheduleInvariant, GateFacts, Working, Spent, TickStands
  <2> QED BY <2>1, <2>2
<1>11. OneGatePerTick'
  <2>1. \A h \in Gates : Working(h)' => Working(h) /\ gates'[h] = gates[h]
    BY <1>3, <1>5 DEF Working, WorkingGateSteps
  <2> QED BY <2>1 DEF ScheduleInvariant, OneGatePerTick
<1> QED BY <1>6, <1>7, <1>8, <1>9, <1>10, <1>11 DEF ScheduleInvariant

----------------------------------------------------------------------------
(* What a gate at work writes of its tick: the operation, the ledger and    *)
(* the job, and of no other tick.                                           *)
TickWrites(s, t, op, led, runs) ==
  /\ tickOps' \in [Schedules -> [Ticks -> TickStates]]
  /\ ledger' \in [Schedules -> [Ticks -> LedgerStates]]
  /\ executions' \in [Schedules -> [Ticks -> Nat]]
  /\ tickOps'[s][t] = op /\ ledger'[s][t] = led /\ executions'[s][t] = runs
  /\ \A x \in Schedules, u \in Ticks : x # s \/ u # t =>
       /\ tickOps'[x][u] = tickOps[x][u]
       /\ ledger'[x][u] = ledger[x][u]
       /\ executions'[x][u] = executions[x][u]

(* A gate at work that goes on working, or stops, after it wrote its tick.  *)
LEMMA GateWorks ==
  ASSUME ScheduleInvariant, NEW g \in Gates, Working(g), NEW y,
         NEW op, NEW led, NEW runs \in Nat,
         TickWrites(gates[g].schedule, gates[g].tick, op, led, runs),
         gates' = [gates EXCEPT ![g] = y], y \in GateRecord,
         y.pc \in WorkingGateSteps, y.ok => y.pc = "complete",
         y.schedule = gates[g].schedule, y.tick = gates[g].tick,
         y.version = gates[g].version,
         Untouched, UNCHANGED << schedules, completed >>,
         runs <= 1,
         op = "succeeded" => runs = 1 /\ led = "succeeded",
         ledger[gates[g].schedule][gates[g].tick] = "succeeded"
           /\ executions[gates[g].schedule][gates[g].tick] = 1
           => runs = 1 /\ led = "succeeded",
         TickStands(y, op, led, runs)
  PROVE  ScheduleInvariant'
<1>0. /\ gates[g].schedule \in Schedules /\ gates[g].tick \in Ticks
      /\ schedules[gates[g].schedule] # None
      /\ gates[g].version <= schedules[gates[g].schedule].version
      /\ Spent(gates[g].schedule, gates[g].tick)
  BY DEF ScheduleInvariant, GateFacts, Working, WorkingGateSteps
<1> PICK s \in Schedules, t \in Ticks : gates[g].schedule = s /\ gates[g].tick = t
  BY <1>0
<1>1. schedules[s] # None /\ gates[g].version <= schedules[s].version /\ Spent(s, t)
  BY <1>0
<1>2. TickWrites(s, t, op, led, runs) /\ y.schedule = s /\ y.tick = t
      /\ (ledger[s][t] = "succeeded" /\ executions[s][t] = 1 => runs = 1 /\ led = "succeeded")
  OBVIOUS
<1>3. \A h \in Gates : gates'[h] = IF h = g THEN y ELSE gates[h]
  BY DEF ScheduleInvariant, TypeOK
<1>4. TypeOK'
  <2>1. gates' \in [Gates -> GateRecord]
    BY DEF ScheduleInvariant, TypeOK
  <2> QED BY <1>2, <2>1 DEF ScheduleInvariant, TypeOK, CommandsTypeOK, Untouched, TickWrites
<1>5. \A c \in Commands : CommandFacts(c)'
  BY DEF ScheduleInvariant, CommandFacts, Untouched
<1>6. JobsRunOncePerTick'
  BY <1>2 DEF ScheduleInvariant, JobsRunOncePerTick, TickWrites
<1>7. SuccessMeansExecuted'
  <2> SUFFICES ASSUME NEW x \in Schedules, NEW u \in Ticks,
                      tickOps'[x][u] = "succeeded"
                      \/ (schedules[x] # None /\ schedules[x].success = u)
               PROVE  executions'[x][u] = 1 /\ ledger'[x][u] = "succeeded"
    BY DEF SuccessMeansExecuted
  <2>1. CASE x # s \/ u # t
    <3>1. tickOps'[x][u] = tickOps[x][u] /\ ledger'[x][u] = ledger[x][u]
          /\ executions'[x][u] = executions[x][u]
      BY <1>2, <2>1 DEF TickWrites
    <3> QED BY <3>1 DEF ScheduleInvariant, SuccessMeansExecuted
  <2>2. CASE x = s /\ u = t
    <3>1. tickOps'[x][u] = op /\ ledger'[x][u] = led /\ executions'[x][u] = runs
      BY <1>2, <2>2 DEF TickWrites
    <3>2. CASE op = "succeeded"
      BY <3>1, <3>2
    <3>3. CASE schedules[x] # None /\ schedules[x].success = u
      <4>1. ledger[s][t] = "succeeded" /\ executions[s][t] = 1
        BY <2>2, <3>3 DEF ScheduleInvariant, SuccessMeansExecuted
      <4> QED BY <1>2, <3>1, <4>1
    <3> QED BY <3>1, <3>2, <3>3
  <2> QED BY <2>1, <2>2
<1>8. (AttemptsInOrder /\ LeaseFacts /\ HistoryFacts)'
  BY DEF ScheduleInvariant, AttemptsInOrder, LeaseFacts, HistoryFacts
<1>9. \A x \in Schedules, u \in Ticks : Spent(x, u)' <=> Spent(x, u)
  BY DEF Spent
<1>10. UnspentTicksAreUntouched'
  <2> SUFFICES ASSUME NEW x \in Schedules, NEW u \in Ticks, ~Spent(x, u)
               PROVE  tickOps'[x][u] = "none" /\ ledger'[x][u] = "none"
                      /\ executions'[x][u] = 0
    BY <1>9 DEF UnspentTicksAreUntouched
  <2>1. x # s \/ u # t
    BY <1>1
  <2>2. tickOps'[x][u] = tickOps[x][u] /\ ledger'[x][u] = ledger[x][u]
        /\ executions'[x][u] = executions[x][u]
    BY <1>2, <2>1 DEF TickWrites
  <2> QED BY <2>2 DEF ScheduleInvariant, UnspentTicksAreUntouched
<1>11. ASSUME NEW h \in Gates PROVE GateFacts(h)'
  <2>1. CASE h = g
    <3>1. gates'[h] = y /\ y.pc \notin {"idle", "lease"}
      BY <1>3, <2>1 DEF WorkingGateSteps
    <3>2. TickStands(y, tickOps'[s][t], ledger'[s][t], executions'[s][t])
      BY <1>2 DEF TickWrites
    <3>3. Spent(s, t)'
      BY <1>1, <1>9
    <3>4. y.version <= schedules'[s].version /\ schedules'[s] # None
      BY <1>1
    <3> QED BY <1>1, <1>2, <3>1, <3>2, <3>3, <3>4 DEF GateFacts, TickStands
  <2>2. CASE h # g
    <3>1. gates'[h] = gates[h] /\ GateFacts(h)
      BY <1>3, <2>2 DEF ScheduleInvariant
    <3>2. CASE Working(h)
      <4> DEFINE x == gates[h].schedule
                 u == gates[h].tick
      <4>1. x \in Schedules /\ u \in Ticks
        BY <3>1, <3>2 DEF GateFacts, Working, WorkingGateSteps
      <4>2. x # s \/ u # t
        BY <1>2, <2>2, <3>2 DEF ScheduleInvariant, OneGatePerTick
      <4>3. tickOps'[x][u] = tickOps[x][u] /\ ledger'[x][u] = ledger[x][u]
            /\ executions'[x][u] = executions[x][u]
        BY <1>2, <4>1, <4>2 DEF TickWrites
      <4>4. Spent(x, u)' <=> Spent(x, u)
        BY <1>9, <4>1
      <4> QED BY <3>1, <3>2, <4>3, <4>4 DEF GateFacts, Working, TickStands
    <3>3. CASE ~Working(h)
      BY <3>1, <3>3 DEF GateFacts, Working
    <3> QED BY <3>2, <3>3
  <2> QED BY <2>1, <2>2
<1>12. OneGatePerTick'
  <2>1. \A h \in Gates : /\ Working(h)' => Working(h)
                        /\ gates'[h].schedule = gates[h].schedule
                        /\ gates'[h].tick = gates[h].tick
    BY <1>2, <1>3 DEF Working
  <2> QED BY <2>1 DEF ScheduleInvariant, OneGatePerTick
<1> QED BY <1>4, <1>5, <1>6, <1>7, <1>8, <1>10, <1>11, <1>12 DEF ScheduleInvariant

LEMMA Written ==
  ASSUME ScheduleInvariant, NEW s \in Schedules, NEW t \in Ticks,
         NEW op \in TickStates, NEW led \in LedgerStates, NEW runs \in Nat,
         tickOps' = [tickOps EXCEPT ![s][t] = op] \/ (tickOps' = tickOps /\ op = tickOps[s][t]),
         ledger' = [ledger EXCEPT ![s][t] = led] \/ (ledger' = ledger /\ led = ledger[s][t]),
         executions' = [executions EXCEPT ![s][t] = runs]
           \/ (executions' = executions /\ runs = executions[s][t])
  PROVE  TickWrites(s, t, op, led, runs)
<1>1. /\ tickOps \in [Schedules -> [Ticks -> TickStates]]
      /\ ledger \in [Schedules -> [Ticks -> LedgerStates]]
      /\ executions \in [Schedules -> [Ticks -> Nat]]
  BY DEF ScheduleInvariant, TypeOK
<1>2. /\ tickOps' \in [Schedules -> [Ticks -> TickStates]]
      /\ tickOps'[s][t] = op
      /\ \A x \in Schedules, u \in Ticks : x # s \/ u # t => tickOps'[x][u] = tickOps[x][u]
  <2>1. CASE tickOps' = tickOps /\ op = tickOps[s][t]
    BY <1>1, <2>1
  <2>2. CASE tickOps' = [tickOps EXCEPT ![s][t] = op]
    BY <1>1, <2>2
  <2> QED BY <2>1, <2>2
<1>3. /\ ledger' \in [Schedules -> [Ticks -> LedgerStates]]
      /\ ledger'[s][t] = led
      /\ \A x \in Schedules, u \in Ticks : x # s \/ u # t => ledger'[x][u] = ledger[x][u]
  <2>1. CASE ledger' = ledger /\ led = ledger[s][t]
    BY <1>1, <2>1
  <2>2. CASE ledger' = [ledger EXCEPT ![s][t] = led]
    BY <1>1, <2>2
  <2> QED BY <2>1, <2>2
<1>4. /\ executions' \in [Schedules -> [Ticks -> Nat]]
      /\ executions'[s][t] = runs
      /\ \A x \in Schedules, u \in Ticks : x # s \/ u # t => executions'[x][u] = executions[x][u]
  <2>1. CASE executions' = executions /\ runs = executions[s][t]
    BY <1>1, <2>1
  <2>2. CASE executions' = [executions EXCEPT ![s][t] = runs]
    BY <1>1, <2>2
  <2> QED BY <2>1, <2>2
<1> QED BY <1>2, <1>3, <1>4 DEF TickWrites

(* What is known when a gate at work is about to do a step.                 *)
LEMMA GateAtWork ==
  ASSUME ScheduleInvariant, NEW g \in Gates, Working(g)
  PROVE  \E s \in Schedules, t \in Ticks :
           /\ gates[g].schedule = s /\ gates[g].tick = t
           /\ OpOf(g) = tickOps[s][t] /\ LedgerOf(g) = ledger[s][t] /\ RunsOf(g) = executions[s][t]
           /\ tickOps[s][t] \in TickStates /\ ledger[s][t] \in LedgerStates
           /\ executions[s][t] \in Nat /\ executions[s][t] <= 1
           /\ TickStands(gates[g], tickOps[s][t], ledger[s][t], executions[s][t])
           /\ tickOps[s][t] = "succeeded" =>
                executions[s][t] = 1 /\ ledger[s][t] = "succeeded"
           /\ gates[g] \in GateRecord
           /\ gates[g].ok => gates[g].pc = "complete"
<1>1. GateFacts(g) /\ gates[g].pc # "idle"
  BY DEF ScheduleInvariant, Working, WorkingGateSteps
<1>2. gates[g].schedule \in Schedules /\ gates[g].tick \in Ticks
  BY <1>1 DEF GateFacts
<1> PICK s \in Schedules, t \in Ticks : gates[g].schedule = s /\ gates[g].tick = t
  BY <1>2
<1>3. OpOf(g) = tickOps[s][t] /\ LedgerOf(g) = ledger[s][t] /\ RunsOf(g) = executions[s][t]
  BY DEF OpOf, LedgerOf, RunsOf
<1>4. /\ tickOps[s][t] \in TickStates /\ ledger[s][t] \in LedgerStates
      /\ executions[s][t] \in Nat /\ gates[g] \in GateRecord
  BY DEF ScheduleInvariant, TypeOK
<1>5. executions[s][t] <= 1
  BY DEF ScheduleInvariant, JobsRunOncePerTick
<1>6. TickStands(gates[g], tickOps[s][t], ledger[s][t], executions[s][t])
      /\ (gates[g].ok => gates[g].pc = "complete")
  BY <1>1 DEF GateFacts
<1>7. tickOps[s][t] = "succeeded" => executions[s][t] = 1 /\ ledger[s][t] = "succeeded"
  BY DEF ScheduleInvariant, SuccessMeansExecuted
<1> QED BY <1>3, <1>4, <1>5, <1>6, <1>7

(* A gate at work goes on to another step.                                  *)
LEMMA GateGoesOn ==
  ASSUME ScheduleInvariant, NEW g \in Gates, Working(g),
         NEW s \in Schedules, NEW t \in Ticks,
         gates[g].schedule = s, gates[g].tick = t,
         gates[g].pc # "complete",
         NEW step \in WorkingGateSteps, Goto(g, step),
         NEW op \in TickStates, NEW led \in LedgerStates, NEW runs \in Nat,
         TickWrites(s, t, op, led, runs),
         Untouched, UNCHANGED << schedules, completed >>,
         runs <= 1,
         op = "succeeded" => runs = 1 /\ led = "succeeded",
         ledger[s][t] = "succeeded" /\ executions[s][t] = 1 => runs = 1 /\ led = "succeeded",
         \A y \in GateRecord : y.pc = step /\ ~y.ok => TickStands(y, op, led, runs)
  PROVE  ScheduleInvariant'
<1> DEFINE y == [gates[g] EXCEPT !.pc = step]
<1>1. gates[g] \in GateRecord /\ ~gates[g].ok
  BY DEF ScheduleInvariant, TypeOK, GateFacts, GateRecord
<1>2. /\ y \in GateRecord /\ y.pc = step /\ ~y.ok
      /\ y.schedule = s /\ y.tick = t /\ y.version = gates[g].version
  BY <1>1 DEF GateRecord, WorkingGateSteps
<1>3. gates' = [gates EXCEPT ![g] = y]
  BY DEF Goto
<1> HIDE DEF y
<1>4. TickStands(y, op, led, runs)
  BY <1>2
<1> QED BY <1>2, <1>3, <1>4, GateWorks

----------------------------------------------------------------------------
LEMMA CreateTickOperationKeeps ==
  ASSUME ScheduleInvariant, NEW g \in Gates, CreateTickOperation(g)
  PROVE  ScheduleInvariant'
<1>1. Working(g) /\ gates[g].pc = "create"
  BY DEF CreateTickOperation, Working, WorkingGateSteps, GateSteps
<1> PICK s \in Schedules, t \in Ticks :
       /\ gates[g].schedule = s /\ gates[g].tick = t /\ OpOf(g) = tickOps[s][t]
       /\ TickStands(gates[g], tickOps[s][t], ledger[s][t], executions[s][t])
  BY <1>1, GateAtWork
<1>2. tickOps[s][t] = "none" /\ ledger[s][t] = "none" /\ executions[s][t] = 0
  BY <1>1 DEF TickStands
<1>3. tickOps' = [tickOps EXCEPT ![s][t] = "planned"] /\ Goto(g, "queue")
  BY <1>2 DEF CreateTickOperation, SetOp
<1>4. Untouched /\ UNCHANGED << schedules, ledger, executions, completed >>
  BY DEF CreateTickOperation
<1>5. "planned" \in TickStates /\ "none" \in LedgerStates /\ 0 \in Nat
  BY DEF TickStates, LedgerStates
<1>7. TickWrites(s, t, "planned", "none", 0)
  BY <1>2, <1>3, <1>4, <1>5, Written
<1>6. \A y \in GateRecord : y.pc = "queue" /\ ~y.ok => TickStands(y, "planned", "none", 0)
  BY DEF TickStands
<1> QED BY <1>1, <1>2, <1>3, <1>4, <1>5, <1>6, <1>7, GateGoesOn
        DEF WorkingGateSteps, GateSteps

LEMMA QueueTickOperationKeeps ==
  ASSUME ScheduleInvariant, NEW g \in Gates, QueueTickOperation(g)
  PROVE  ScheduleInvariant'
<1>1. Working(g) /\ gates[g].pc = "queue"
  BY DEF QueueTickOperation, Working, WorkingGateSteps, GateSteps
<1> PICK s \in Schedules, t \in Ticks :
       /\ gates[g].schedule = s /\ gates[g].tick = t
       /\ TickStands(gates[g], tickOps[s][t], ledger[s][t], executions[s][t])
  BY <1>1, GateAtWork
<1>2. ledger[s][t] = "none" /\ executions[s][t] = 0
  BY <1>1 DEF TickStands
<1>3. tickOps' = [tickOps EXCEPT ![s][t] = "queued"] /\ Goto(g, "revalidate")
  BY DEF QueueTickOperation, SetOp
<1>4. Untouched /\ UNCHANGED << schedules, ledger, executions, completed >>
  BY DEF QueueTickOperation
<1>5. "queued" \in TickStates /\ "none" \in LedgerStates /\ 0 \in Nat
  BY DEF TickStates, LedgerStates
<1>6. TickWrites(s, t, "queued", "none", 0)
  BY <1>2, <1>3, <1>4, <1>5, Written
<1>7. \A y \in GateRecord : y.pc = "revalidate" /\ ~y.ok => TickStands(y, "queued", "none", 0)
  BY DEF TickStands
<1> QED BY <1>1, <1>2, <1>3, <1>4, <1>5, <1>6, <1>7, GateGoesOn
        DEF WorkingGateSteps, GateSteps

(* A gate that changes nothing but its own step.                            *)
LEMMA GateOnlyGoesOn ==
  ASSUME ScheduleInvariant, NEW g \in Gates, Working(g), gates[g].pc # "complete",
         NEW step \in WorkingGateSteps, Goto(g, step), Untouched,
         UNCHANGED << schedules, tickOps, ledger, executions, completed >>,
         \A op, led, runs : TickStands(gates[g], op, led, runs) =>
           \A y \in GateRecord : y.pc = step /\ ~y.ok => TickStands(y, op, led, runs)
  PROVE  ScheduleInvariant'
<1> PICK s \in Schedules, t \in Ticks :
       /\ gates[g].schedule = s /\ gates[g].tick = t
       /\ tickOps[s][t] \in TickStates /\ ledger[s][t] \in LedgerStates
       /\ executions[s][t] \in Nat /\ executions[s][t] <= 1
       /\ TickStands(gates[g], tickOps[s][t], ledger[s][t], executions[s][t])
       /\ tickOps[s][t] = "succeeded" =>
            executions[s][t] = 1 /\ ledger[s][t] = "succeeded"
  BY GateAtWork
<1>1. TickWrites(s, t, tickOps[s][t], ledger[s][t], executions[s][t])
  BY Written
<1> QED BY <1>1, GateGoesOn

LEMMA RevalidateKeeps ==
  ASSUME ScheduleInvariant, NEW g \in Gates, Revalidate(g)
  PROVE  ScheduleInvariant'
<1>1. Working(g) /\ gates[g].pc = "revalidate"
  BY DEF Revalidate, Working, WorkingGateSteps, GateSteps
<1>2. Untouched /\ UNCHANGED << schedules, tickOps, ledger, executions, completed >>
  BY DEF Revalidate
<1>3. PICK step \in {"dispatch", "fail"} : Goto(g, step)
  BY DEF Revalidate
<1>4. step \in WorkingGateSteps
  BY DEF WorkingGateSteps, GateSteps
<1>5. \A op, led, runs : TickStands(gates[g], op, led, runs) =>
        \A y \in GateRecord : y.pc = step /\ ~y.ok => TickStands(y, op, led, runs)
  BY <1>1 DEF TickStands, WorkingGateSteps, GateSteps
<1> QED BY <1>1, <1>2, <1>3, <1>4, <1>5, GateOnlyGoesOn

LEMMA ReadLedgerKeeps ==
  ASSUME ScheduleInvariant, NEW g \in Gates, ReadLedger(g)
  PROVE  ScheduleInvariant'
<1>1. Working(g) /\ gates[g].pc = "dispatch"
  BY DEF ReadLedger, Working, WorkingGateSteps, GateSteps
<1>2. Untouched /\ UNCHANGED << schedules, tickOps, ledger, executions, completed >>
  BY DEF ReadLedger
<1>3. LedgerOf(g) = "none"
  BY <1>1, GateAtWork DEF TickStands
<1>4. PICK step \in {"claim", "fail"} : Goto(g, step)
  BY <1>3 DEF ReadLedger
<1>5. step \in WorkingGateSteps
  BY DEF WorkingGateSteps, GateSteps
<1>6. \A op, led, runs : TickStands(gates[g], op, led, runs) =>
        \A y \in GateRecord : y.pc = step /\ ~y.ok => TickStands(y, op, led, runs)
  BY <1>1 DEF TickStands, WorkingGateSteps, GateSteps
<1> QED BY <1>1, <1>2, <1>4, <1>5, <1>6, GateOnlyGoesOn

LEMMA ClaimDispatchKeeps ==
  ASSUME ScheduleInvariant, NEW g \in Gates, ClaimDispatch(g)
  PROVE  ScheduleInvariant'
<1>1. Working(g) /\ gates[g].pc = "claim"
  BY DEF ClaimDispatch, Working, WorkingGateSteps, GateSteps
<1> PICK s \in Schedules, t \in Ticks :
       /\ gates[g].schedule = s /\ gates[g].tick = t /\ LedgerOf(g) = ledger[s][t]
       /\ TickStands(gates[g], tickOps[s][t], ledger[s][t], executions[s][t])
  BY <1>1, GateAtWork
<1>2. tickOps[s][t] = "queued" /\ ledger[s][t] = "none" /\ executions[s][t] = 0
  BY <1>1 DEF TickStands, WorkingGateSteps, GateSteps
<1>3. Untouched /\ UNCHANGED << schedules, tickOps, executions, completed >>
  BY DEF ClaimDispatch
<1>4. "queued" \in TickStates /\ {"none", "claimed"} \subseteq LedgerStates /\ 0 \in Nat
  BY DEF TickStates, LedgerStates
<1>5. \/ ledger' = [ledger EXCEPT ![s][t] = "claimed"] /\ (Goto(g, "run") \/ Goto(g, "fail"))
      \/ ledger' = ledger /\ Goto(g, "fail")
  BY <1>2 DEF ClaimDispatch, SetLedger
<1>6. CASE ledger' = [ledger EXCEPT ![s][t] = "claimed"] /\ (Goto(g, "run") \/ Goto(g, "fail"))
  <2>1. TickWrites(s, t, "queued", "claimed", 0)
    BY <1>2, <1>3, <1>4, <1>6, Written
  <2>2. PICK step \in {"run", "fail"} : Goto(g, step)
    BY <1>6
  <2>3. step \in WorkingGateSteps
    BY DEF WorkingGateSteps, GateSteps
  <2>4. \A y \in GateRecord : y.pc = step /\ ~y.ok => TickStands(y, "queued", "claimed", 0)
    BY DEF TickStands
  <2> QED BY <1>1, <1>2, <1>3, <1>4, <2>1, <2>2, <2>3, <2>4, GateGoesOn
<1>7. CASE ledger' = ledger /\ Goto(g, "fail")
  <2>1. "fail" \in WorkingGateSteps
    BY DEF WorkingGateSteps, GateSteps
  <2>2. \A op, led, runs : TickStands(gates[g], op, led, runs) =>
          \A y \in GateRecord : y.pc = "fail" /\ ~y.ok => TickStands(y, op, led, runs)
    BY <1>1 DEF TickStands, WorkingGateSteps, GateSteps
  <2> QED BY <1>1, <1>3, <1>7, <2>1, <2>2, GateOnlyGoesOn
<1> QED BY <1>5, <1>6, <1>7

LEMMA RunJobKeeps ==
  ASSUME ScheduleInvariant, NEW g \in Gates, RunJob(g)
  PROVE  ScheduleInvariant'
<1>1. Working(g) /\ gates[g].pc = "run"
  BY DEF RunJob, Working, WorkingGateSteps, GateSteps
<1> PICK s \in Schedules, t \in Ticks :
       /\ gates[g].schedule = s /\ gates[g].tick = t
       /\ tickOps[s][t] \in TickStates
       /\ TickStands(gates[g], tickOps[s][t], ledger[s][t], executions[s][t])
  BY <1>1, GateAtWork
<1>2. tickOps[s][t] = "queued" /\ ledger[s][t] = "claimed" /\ executions[s][t] = 0
  BY <1>1 DEF TickStands, WorkingGateSteps, GateSteps
<1>3. Untouched /\ UNCHANGED << schedules, tickOps, completed >>
  BY DEF RunJob
<1>4. "queued" \in TickStates /\ {"claimed", "ambiguous"} \subseteq LedgerStates
      /\ 0 \in Nat /\ 1 \in Nat
  BY DEF TickStates, LedgerStates
<1> PICK started \in {0, 1} :
       /\ executions' = [executions EXCEPT ![s][t] = executions[s][t] + started]
       /\ \/ started = 1 /\ Goto(g, "record") /\ UNCHANGED ledger
          \/ Goto(g, "reconcile") /\ SetLedger(g, "ambiguous")
          \/ Goto(g, "fail") /\ UNCHANGED ledger
  BY DEF RunJob
<1>5. started \in Nat /\ started <= 1 /\ executions' = [executions EXCEPT ![s][t] = started]
  <2>1. executions[s][t] + started = started
    BY <1>2
  <2>2. started \in Nat /\ started <= 1
    OBVIOUS
  <2> QED BY <2>1, <2>2
<1>6. CASE started = 1 /\ Goto(g, "record") /\ UNCHANGED ledger
  <2>1. TickWrites(s, t, "queued", "claimed", 1)
    BY <1>2, <1>3, <1>4, <1>5, <1>6, Written
  <2>2. \A y \in GateRecord : y.pc = "record" /\ ~y.ok => TickStands(y, "queued", "claimed", 1)
    BY DEF TickStands
  <2> QED BY <1>1, <1>2, <1>3, <1>4, <1>6, <2>1, <2>2, GateGoesOn
          DEF WorkingGateSteps, GateSteps
<1>7. CASE Goto(g, "reconcile") /\ SetLedger(g, "ambiguous")
  <2>1. ledger' = [ledger EXCEPT ![s][t] = "ambiguous"]
    BY <1>7 DEF SetLedger
  <2>2. TickWrites(s, t, "queued", "ambiguous", started)
    BY <1>2, <1>3, <1>4, <1>5, <2>1, Written
  <2>3. \A y \in GateRecord : y.pc = "reconcile" /\ ~y.ok =>
          TickStands(y, "queued", "ambiguous", started)
    BY DEF TickStands
  <2> QED BY <1>1, <1>2, <1>3, <1>4, <1>5, <1>7, <2>2, <2>3, GateGoesOn
          DEF WorkingGateSteps, GateSteps
<1>8. CASE Goto(g, "fail") /\ UNCHANGED ledger
  <2>1. TickWrites(s, t, "queued", "claimed", started)
    BY <1>2, <1>3, <1>4, <1>5, <1>8, Written
  <2>2. \A y \in GateRecord : y.pc = "fail" /\ ~y.ok =>
          TickStands(y, "queued", "claimed", started)
    BY DEF TickStands
  <2> QED BY <1>1, <1>2, <1>3, <1>4, <1>5, <1>8, <2>1, <2>2, GateGoesOn
          DEF WorkingGateSteps, GateSteps
<1> QED BY <1>6, <1>7, <1>8

(* A gate that found its one run, and notes it in the ledger.               *)
LEMMA SuccessNoted ==
  ASSUME ScheduleInvariant, NEW g \in Gates, Working(g),
         gates[g].pc \in {"record", "reconcile"}, RunsOf(g) = 1,
         SetLedger(g, "succeeded"), Goto(g, "succeed") \/ Goto(g, "fail"),
         Untouched, UNCHANGED << schedules, tickOps, executions, completed >>
  PROVE  ScheduleInvariant'
<1> PICK s \in Schedules, t \in Ticks :
       /\ gates[g].schedule = s /\ gates[g].tick = t /\ RunsOf(g) = executions[s][t]
       /\ TickStands(gates[g], tickOps[s][t], ledger[s][t], executions[s][t])
  BY GateAtWork
<1>1. tickOps[s][t] = "queued" /\ executions[s][t] = 1
  BY DEF TickStands, WorkingGateSteps, GateSteps
<1>2. "queued" \in TickStates /\ "succeeded" \in LedgerStates /\ 1 \in Nat
  BY DEF TickStates, LedgerStates
<1>3. ledger' = [ledger EXCEPT ![s][t] = "succeeded"]
  BY DEF SetLedger
<1>4. TickWrites(s, t, "queued", "succeeded", 1)
  BY <1>1, <1>2, <1>3, Written
<1>5. PICK step \in {"succeed", "fail"} : Goto(g, step)
  OBVIOUS
<1>6. step \in WorkingGateSteps
  BY DEF WorkingGateSteps, GateSteps
<1>7. \A y \in GateRecord : y.pc = step /\ ~y.ok => TickStands(y, "queued", "succeeded", 1)
  BY DEF TickStands
<1> QED BY <1>2, <1>4, <1>5, <1>6, <1>7, GateGoesOn

(* A gate at work that gives up.                                            *)
LEMMA GateFails ==
  ASSUME ScheduleInvariant, NEW g \in Gates, Working(g),
         gates[g].pc \in {"record", "reconcile"}, Goto(g, "fail"), Untouched,
         UNCHANGED << schedules, tickOps, ledger, executions, completed >>
  PROVE  ScheduleInvariant'
<1>1. "fail" \in WorkingGateSteps
  BY DEF WorkingGateSteps, GateSteps
<1>2. \A op, led, runs : TickStands(gates[g], op, led, runs) =>
        \A y \in GateRecord : y.pc = "fail" /\ ~y.ok => TickStands(y, op, led, runs)
  BY DEF TickStands, WorkingGateSteps, GateSteps
<1> QED BY <1>1, <1>2, GateOnlyGoesOn

LEMMA RecordSuccessKeeps ==
  ASSUME ScheduleInvariant, NEW g \in Gates, RecordSuccess(g)
  PROVE  ScheduleInvariant'
<1>1. Working(g) /\ gates[g].pc = "record"
  BY DEF RecordSuccess, Working, WorkingGateSteps, GateSteps
<1>2. RunsOf(g) = 1
  BY <1>1, GateAtWork DEF TickStands
<1>3. Untouched /\ UNCHANGED << schedules, tickOps, executions, completed >>
  BY DEF RecordSuccess
<1>4. CASE SetLedger(g, "succeeded") /\ (Goto(g, "succeed") \/ Goto(g, "fail"))
  BY <1>1, <1>2, <1>3, <1>4, SuccessNoted
<1>5. CASE UNCHANGED ledger /\ Goto(g, "fail")
  BY <1>1, <1>3, <1>5, GateFails
<1> QED BY <1>4, <1>5 DEF RecordSuccess

LEMMA ReconcileKeeps ==
  ASSUME ScheduleInvariant, NEW g \in Gates, Reconcile(g)
  PROVE  ScheduleInvariant'
<1>1. Working(g) /\ gates[g].pc = "reconcile"
  BY DEF Reconcile, Working, WorkingGateSteps, GateSteps
<1>2. Untouched /\ UNCHANGED << schedules, tickOps, executions, completed >>
  BY DEF Reconcile
<1>3. CASE Reconciled(g) /\ SetLedger(g, "succeeded") /\ (Goto(g, "succeed") \/ Goto(g, "fail"))
  BY <1>1, <1>2, <1>3, SuccessNoted DEF Reconciled
<1>4. CASE UNCHANGED ledger /\ Goto(g, "fail")
  BY <1>1, <1>2, <1>4, GateFails
<1> QED BY <1>3, <1>4 DEF Reconcile

(* Whatever became of the operation's record, a run that was noted in the   *)
(* ledger is on its way to be counted.                                      *)
LEMMA MarkSucceededKeeps ==
  ASSUME ScheduleInvariant, NEW g \in Gates, MarkSucceeded(g)
  PROVE  ScheduleInvariant'
<1>1. Working(g) /\ gates[g].pc = "succeed"
  BY DEF MarkSucceeded, Working, WorkingGateSteps, GateSteps
<1> PICK s \in Schedules, t \in Ticks :
       /\ gates[g].schedule = s /\ gates[g].tick = t
       /\ TickStands(gates[g], tickOps[s][t], ledger[s][t], executions[s][t])
       /\ gates[g] \in GateRecord
  BY <1>1, GateAtWork
<1>2. ledger[s][t] = "succeeded" /\ executions[s][t] = 1
  BY <1>1 DEF TickStands
<1>3. Untouched /\ UNCHANGED << schedules, ledger, executions, completed >>
  BY DEF MarkSucceeded
<1>4. "succeeded" \in LedgerStates /\ 1 \in Nat /\ "complete" \in WorkingGateSteps
  BY DEF LedgerStates, WorkingGateSteps, GateSteps
<1>5. ASSUME NEW op \in TickStates, SetOp(g, op) PROVE TickWrites(s, t, op, "succeeded", 1)
  BY <1>2, <1>3, <1>4, <1>5, Written DEF SetOp
<1>6. CASE SetOp(g, "succeeded")
           /\ gates' = [gates EXCEPT ![g].ok = TRUE, ![g].pc = "complete"]
  <2> DEFINE y == [gates[g] EXCEPT !.ok = TRUE, !.pc = "complete"]
  <2>1. /\ y \in GateRecord /\ y.pc = "complete" /\ y.schedule = s /\ y.tick = t
        /\ y.version = gates[g].version
    BY DEF GateRecord, GateSteps
  <2>2. gates' = [gates EXCEPT ![g] = y]
    BY <1>6 DEF ScheduleInvariant, TypeOK
  <2> HIDE DEF y
  <2>3. TickWrites(s, t, "succeeded", "succeeded", 1)
    BY <1>5, <1>6 DEF TickStates
  <2>4. TickStands(y, "succeeded", "succeeded", 1)
    BY <2>1 DEF TickStands
  <2>5. TickWrites(gates[g].schedule, gates[g].tick, "succeeded", "succeeded", 1)
    BY <2>3
  <2>6. Untouched /\ UNCHANGED << schedules, completed >>
    BY <1>3
  <2>7. /\ y \in GateRecord /\ y.pc \in WorkingGateSteps /\ y.pc = "complete"
        /\ y.schedule = gates[g].schedule /\ y.tick = gates[g].tick
        /\ y.version = gates[g].version
    BY <1>4, <2>1
  <2>8. Working(g) /\ 1 \in Nat /\ 1 <= 1
    BY <1>1
  <2> QED BY <2>2, <2>4, <2>5, <2>6, <2>7, <2>8, GateWorks
<1>7. CASE Goto(g, "complete")
           /\ \E op \in {"failed", "building", "deploying", "verifying"} : SetOp(g, op)
  <2>1. PICK op \in {"failed", "building", "deploying", "verifying"} : SetOp(g, op)
    BY <1>7
  <2>2. op \in TickStates
    BY DEF TickStates
  <2>3. TickWrites(s, t, op, "succeeded", 1)
    BY <1>5, <2>1, <2>2
  <2>4. \A y \in GateRecord : y.pc = "complete" /\ ~y.ok => TickStands(y, op, "succeeded", 1)
    BY DEF TickStands
  <2> QED BY <1>1, <1>3, <1>4, <1>7, <2>2, <2>3, <2>4, GateGoesOn
<1> QED BY <1>6, <1>7 DEF MarkSucceeded

LEMMA MarkFailedKeeps ==
  ASSUME ScheduleInvariant, NEW g \in Gates, MarkFailed(g)
  PROVE  ScheduleInvariant'
<1>1. Working(g) /\ gates[g].pc = "fail"
  BY DEF MarkFailed, Working, WorkingGateSteps, GateSteps
<1> PICK s \in Schedules, t \in Ticks :
       /\ gates[g].schedule = s /\ gates[g].tick = t /\ OpOf(g) = tickOps[s][t]
       /\ ledger[s][t] \in LedgerStates
       /\ executions[s][t] \in Nat /\ executions[s][t] <= 1
       /\ TickStands(gates[g], tickOps[s][t], ledger[s][t], executions[s][t])
  BY <1>1, GateAtWork
<1>2. tickOps[s][t] = "queued"
  BY <1>1 DEF TickStands, WorkingGateSteps, GateSteps
<1>3. Untouched /\ UNCHANGED << schedules, ledger, executions, completed >>
  BY DEF MarkFailed
<1>4. tickOps' = [tickOps EXCEPT ![s][t] = "failed"] /\ Goto(g, "complete")
  BY <1>2 DEF MarkFailed, SetOp
<1>5. "failed" \in TickStates /\ "complete" \in WorkingGateSteps
  BY DEF TickStates, WorkingGateSteps, GateSteps
<1>6. TickWrites(s, t, "failed", ledger[s][t], executions[s][t])
  BY <1>3, <1>4, <1>5, Written
<1>7. \A y \in GateRecord : y.pc = "complete" /\ ~y.ok =>
        TickStands(y, "failed", ledger[s][t], executions[s][t])
  BY DEF TickStands
<1> QED BY <1>1, <1>3, <1>4, <1>5, <1>6, <1>7, GateGoesOn

LEMMA CrashGateKeeps ==
  ASSUME ScheduleInvariant, NEW g \in Gates, CrashGate(g)
  PROVE  ScheduleInvariant'
BY GateEnds DEF CrashGate

----------------------------------------------------------------------------
(* A gate that writes its schedule under the next version, after which no   *)
(* tick can be leased that could not be leased before.                      *)
GateWrites(s, q) ==
  /\ schedules[s] # None
  /\ q \in ScheduleRecord
  /\ q.version = schedules[s].version + 1
  /\ \A u \in Ticks :
       u <= schedules[s].attempt
         \/ (schedules[s].token # 0 /\ u + LeaseTime <= schedules[s].until)
       => u <= q.attempt \/ (q.token # 0 /\ u + LeaseTime <= q.until)
  /\ q.success <= q.attempt
  /\ q.attempt <= q.updated
  /\ q.token # 0 =>
       /\ q.attempt + LeaseTime < q.until
       /\ q.until <= q.updated + LeaseTime

LEMMA ScheduleWrittenByGate ==
  ASSUME ScheduleInvariant, NEW g \in Gates, NEW s \in Schedules, NEW q, NEW y \in GateRecord,
         GateWrites(s, q),
         schedules' = [schedules EXCEPT ![s] = q],
         gates' = [gates EXCEPT ![g] = y],
         Untouched, UNCHANGED << tickOps, ledger, executions >>,
         completed' \in [Schedules -> Seq([tick : Ticks, ok : BOOLEAN])]
  PROVE  /\ q # None
         /\ \A x \in Schedules, u \in Ticks : Spent(x, u) => Spent(x, u)'
         /\ TypeOK'
         /\ JobsRunOncePerTick'
         /\ UnspentTicksAreUntouched'
         /\ LeaseFacts'
         /\ \A c \in Commands : CommandFacts(c)'
         /\ \A h \in Gates \ {g} : GateFacts(h)'
<1>1. q # None
  BY NoneIsNoSchedule DEF GateWrites
<1>2. \A x \in Schedules : schedules'[x] = IF x = s THEN q ELSE schedules[x]
  BY DEF ScheduleInvariant, TypeOK, CommandsTypeOK
<1>3. \A h \in Gates : gates'[h] = IF h = g THEN y ELSE gates[h]
  BY DEF ScheduleInvariant, TypeOK
<1>4. \A x \in Schedules : schedules[x] # None => schedules'[x] # None
  BY <1>1, <1>2
<1>5. \A x \in Schedules, u \in Ticks : Spent(x, u) => Spent(x, u)'
  <2> SUFFICES ASSUME NEW x \in Schedules, NEW u \in Ticks, Spent(x, u)
               PROVE  Spent(x, u)'
    OBVIOUS
  <2>1. CASE x = s
    BY <1>1, <1>2, <2>1 DEF Spent, GateWrites
  <2>2. CASE x # s
    BY <1>2, <2>2 DEF Spent
  <2> QED BY <2>1, <2>2
<1>6. TypeOK'
  <2>1. schedules' \in [Schedules -> ScheduleRecord \cup {None}]
    BY DEF ScheduleInvariant, TypeOK, CommandsTypeOK, GateWrites
  <2>2. gates' \in [Gates -> GateRecord]
    BY DEF ScheduleInvariant, TypeOK
  <2> QED BY <2>1, <2>2 DEF ScheduleInvariant, TypeOK, CommandsTypeOK, Untouched
<1>7. JobsRunOncePerTick' /\ UnspentTicksAreUntouched'
  BY <1>5 DEF ScheduleInvariant, JobsRunOncePerTick, UnspentTicksAreUntouched
<1>8. LeaseFacts'
  <2> SUFFICES ASSUME NEW x \in Schedules, schedules'[x] # None
               PROVE  /\ schedules'[x].success <= schedules'[x].attempt
                      /\ schedules'[x].attempt <= schedules'[x].updated
                      /\ schedules'[x].token # 0 =>
                           /\ schedules'[x].attempt + LeaseTime < schedules'[x].until
                           /\ schedules'[x].until <= schedules'[x].updated + LeaseTime
    BY DEF LeaseFacts
  <2>1. CASE x = s
    BY <1>2, <2>1 DEF GateWrites
  <2>2. CASE x # s
    BY <1>2, <2>2 DEF ScheduleInvariant, LeaseFacts
  <2> QED BY <2>1, <2>2
<1>9. \A c \in Commands : CommandFacts(c)'
  BY <1>4 DEF ScheduleInvariant, CommandFacts, Untouched
<1>10. ASSUME NEW h \in Gates \ {g} PROVE GateFacts(h)'
  <2>1. gates'[h] = gates[h] /\ GateFacts(h) /\ gates[h] \in GateRecord
    BY <1>3 DEF ScheduleInvariant, TypeOK
  <2>2. CASE gates[h].pc = "idle"
    BY <2>1, <2>2 DEF GateFacts, Working, WorkingGateSteps
  <2>3. CASE gates[h].pc # "idle"
    <3> PICK x \in Schedules, u \in Ticks : gates[h].schedule = x /\ gates[h].tick = u
      BY <2>1, <2>3 DEF GateFacts
    <3>1. schedules[x] # None /\ gates[h].version <= schedules[x].version
      BY <2>1, <2>3 DEF GateFacts
    <3>2. gates[h].version \in Nat /\ schedules[x].version \in Nat
      BY <2>1, <3>1, StoredSchedule DEF GateRecord
    <3>3. schedules'[x] = schedules[x] \/ schedules'[x].version = schedules[x].version + 1
      BY <1>2 DEF GateWrites
    <3>4. gates[h].version <= schedules'[x].version /\ schedules'[x] # None
      BY <1>4, <3>1, <3>2, <3>3
    <3>5. gates[h].version = schedules'[x].version => schedules'[x] = schedules[x]
      BY <3>1, <3>2, <3>3
    <3>6. Spent(x, u) => Spent(x, u)'
      BY <1>5
    <3> QED BY <2>1, <2>3, <3>1, <3>4, <3>5, <3>6 DEF GateFacts, Working, TickStands
  <2> QED BY <2>2, <2>3
<1> QED BY <1>1, <1>2, <1>3, <1>5, <1>6, <1>7, <1>8, <1>9, <1>10

LEMMA LeaseKeeps ==
  ASSUME ScheduleInvariant, NEW g \in Gates, AcquireLease(g),
         Leasable(gates[g].schedule, gates[g].version, gates[g].tick)
  PROVE  ScheduleInvariant'
<1>1. gates[g].pc = "lease" /\ GateFacts(g) /\ gates[g] \in GateRecord
  BY DEF AcquireLease, ScheduleInvariant, TypeOK
<1> PICK s \in Schedules, t \in Ticks : gates[g].schedule = s /\ gates[g].tick = t
  BY <1>1 DEF GateFacts
<1>2. /\ schedules[s] # None /\ schedules[s].version = gates[g].version
      /\ schedules[s].attempt < t
      /\ t >= schedules[s].updated
      /\ schedules[s].token = 0 \/ schedules[s].until <= t
  BY <1>1 DEF GateFacts, Leasable
<1> PICK r \in ScheduleRecord : schedules[s] = r
  BY <1>2, StoredSchedule
<1>3. /\ r.version \in Nat \ {0} /\ r.updated \in Nat /\ r.attempt \in Nat /\ r.success \in Nat
      /\ r.until \in Nat /\ r.token \in Nat /\ r.failures \in Nat
      /\ t \in Nat /\ t \in Times /\ LeaseTime \in Nat \ {0}
  BY <1>2, StoredSchedule, TicksAreTimes, GateParameters
<1>4. PICK q \in ScheduleRecord :
        /\ q = Leased(r, t)
        /\ q.version = r.version + 1 /\ q.updated = t
        /\ q.failures = r.failures /\ q.token = r.version + 1 /\ q.until = t + LeaseTime
        /\ q.attempt = r.attempt /\ q.success = r.success
  <2> DEFINE q == Leased(r, t)
  <2>1. r.version + 1 \in Nat \ {0} /\ r.version + 1 \in Nat /\ t + LeaseTime \in Nat
    BY <1>3
  <2>2. q = [r EXCEPT !.token = r.version + 1, !.until = t + LeaseTime,
                      !.updated = t, !.version = r.version + 1]
    BY DEF Leased
  <2>3. q = Leased(r, t)
    OBVIOUS
  <2> HIDE DEF q
  <2>4. /\ q \in ScheduleRecord /\ q.version = r.version + 1 /\ q.updated = t
        /\ q.failures = r.failures /\ q.token = r.version + 1 /\ q.until = t + LeaseTime
        /\ q.attempt = r.attempt /\ q.success = r.success
    BY <1>3, <2>1, <2>2 DEF ScheduleRecord
  <2> QED BY <2>3, <2>4
<1>5. PICK y \in GateRecord :
        /\ y = [gates[g] EXCEPT !.version = r.version + 1, !.pc = "create"]
        /\ y.version = r.version + 1 /\ y.pc = "create"
        /\ y.schedule = s /\ y.tick = t /\ y.ok = gates[g].ok
  <2> DEFINE y == [gates[g] EXCEPT !.version = r.version + 1, !.pc = "create"]
  <2>1. r.version + 1 \in Nat
    BY <1>3
  <2>2. /\ y \in GateRecord /\ y.version = r.version + 1 /\ y.pc = "create"
        /\ y.schedule = s /\ y.tick = t /\ y.ok = gates[g].ok
    BY <1>1, <2>1 DEF GateRecord, GateSteps
  <2> QED BY <2>2
<1>6. /\ schedules' = [schedules EXCEPT ![s] = q]
      /\ gates' = [gates EXCEPT ![g] = y]
      /\ Untouched /\ UNCHANGED << tickOps, ledger, executions, completed >>
  BY <1>4, <1>5 DEF AcquireLease, ScheduleInvariant, TypeOK
<1>7. GateWrites(s, q)
  <2>1. r.success <= r.attempt
    BY <1>2 DEF ScheduleInvariant, LeaseFacts
  <2>2. ASSUME NEW u \in Ticks,
               u <= r.attempt \/ (r.token # 0 /\ u + LeaseTime <= r.until)
        PROVE  u <= q.attempt \/ (q.token # 0 /\ u + LeaseTime <= q.until)
    <3>1. u \in Nat
      BY TicksAreTimes
    <3> QED BY <1>2, <1>3, <1>4, <2>2, <3>1
  <2>3. q.success <= q.attempt /\ q.attempt <= q.updated
        /\ q.attempt + LeaseTime < q.until /\ q.until <= q.updated + LeaseTime
    BY <1>2, <1>3, <1>4, <2>1
  <2> QED BY <1>2, <1>4, <2>2, <2>3 DEF GateWrites
<1>8. /\ completed' \in [Schedules -> Seq([tick : Ticks, ok : BOOLEAN])]
      /\ UNCHANGED << tickOps, ledger, executions >>
      /\ y \in GateRecord
  BY <1>6 DEF ScheduleInvariant, TypeOK
<1>9. /\ q # None
      /\ \A x \in Schedules : schedules'[x] = IF x = s THEN q ELSE schedules[x]
      /\ \A h \in Gates : gates'[h] = IF h = g THEN y ELSE gates[h]
      /\ \A x \in Schedules, u \in Ticks : Spent(x, u) => Spent(x, u)'
      /\ TypeOK' /\ JobsRunOncePerTick' /\ UnspentTicksAreUntouched' /\ LeaseFacts'
      /\ \A c \in Commands : CommandFacts(c)'
      /\ \A h \in Gates \ {g} : GateFacts(h)'
  <2>1. \A x \in Schedules : schedules'[x] = IF x = s THEN q ELSE schedules[x]
    BY <1>6 DEF ScheduleInvariant, TypeOK, CommandsTypeOK
  <2>2. \A h \in Gates : gates'[h] = IF h = g THEN y ELSE gates[h]
    BY <1>6 DEF ScheduleInvariant, TypeOK
  <2>3. /\ q # None
        /\ \A x \in Schedules, u \in Ticks : Spent(x, u) => Spent(x, u)'
        /\ TypeOK' /\ JobsRunOncePerTick' /\ UnspentTicksAreUntouched' /\ LeaseFacts'
        /\ \A c \in Commands : CommandFacts(c)'
        /\ \A h \in Gates \ {g} : GateFacts(h)'
    BY <1>6, <1>7, <1>8, ScheduleWrittenByGate
  <2> QED BY <2>1, <2>2, <2>3
<1>10. ~Spent(s, t)
  BY <1>2, <1>3 DEF Spent
<1>11. GateFacts(g)'
  <2>1. gates'[g] = y
    BY <1>9
  <2>2. ~y.ok
    BY <1>1, <1>5 DEF GateFacts, GateRecord
  <2>3. schedules'[s] = q /\ schedules'[s] # None
    BY <1>9
  <2>4. Spent(s, t)'
    BY <1>3, <1>4, <2>3 DEF Spent
  <2>5. tickOps'[s][t] = "none" /\ ledger'[s][t] = "none" /\ executions'[s][t] = 0
    BY <1>6, <1>10 DEF ScheduleInvariant, UnspentTicksAreUntouched
  <2>6. TickStands(y, "none", "none", 0)
    BY <1>5 DEF TickStands
  <2>7. y.version <= q.version
    BY <1>3, <1>4, <1>5
  <2> QED BY <1>5, <2>1, <2>2, <2>3, <2>4, <2>5, <2>6, <2>7 DEF GateFacts, TickStands
<1>12. OneGatePerTick'
  <2>1. \A h \in Gates \ {g} : Working(h) =>
          gates[h].schedule # s \/ gates[h].tick # t
    BY <1>10 DEF ScheduleInvariant, GateFacts
  <2>2. \A h \in Gates : h # g => gates'[h] = gates[h] /\ (Working(h)' <=> Working(h))
    BY <1>9 DEF Working
  <2>3. gates'[g] = y
    BY <1>9
  <2> SUFFICES ASSUME NEW h \in Gates, NEW i \in Gates,
                      Working(h)', Working(i)',
                      gates'[h].schedule = gates'[i].schedule,
                      gates'[h].tick = gates'[i].tick
               PROVE  h = i
    BY DEF OneGatePerTick
  <2>4. CASE h # g /\ i # g
    <3>1. OneGatePerTick
      BY DEF ScheduleInvariant
    <3>2. /\ gates'[h] = gates[h] /\ Working(h)
          /\ gates'[i] = gates[i] /\ Working(i)
      BY <2>2, <2>4
    <3>3. gates[h].schedule = gates[i].schedule /\ gates[h].tick = gates[i].tick
      BY <3>2
    <3> QED BY <3>1, <3>2, <3>3 DEF OneGatePerTick
  <2>5. CASE h = g /\ i # g
    <3>1. Working(i) /\ gates'[i] = gates[i] /\ i \in Gates \ {g}
      BY <2>2, <2>5
    <3>2. gates[i].schedule = s /\ gates[i].tick = t
      BY <1>5, <2>3, <2>5, <3>1
    <3> QED BY <2>1, <3>1, <3>2
  <2>6. CASE h # g /\ i = g
    <3>1. Working(h) /\ gates'[h] = gates[h] /\ h \in Gates \ {g}
      BY <2>2, <2>6
    <3>2. gates[h].schedule = s /\ gates[h].tick = t
      BY <1>5, <2>3, <2>6, <3>1
    <3> QED BY <2>1, <3>1, <3>2
  <2> QED BY <2>4, <2>5, <2>6
<1>13. SuccessMeansExecuted'
  <2>1. \A x \in Schedules : schedules'[x] # None =>
          schedules[x] # None /\ schedules'[x].success = schedules[x].success
    BY <1>2, <1>4, <1>9
  <2> QED BY <1>6, <2>1 DEF ScheduleInvariant, SuccessMeansExecuted
<1>14. \A x \in Schedules :
         /\ schedules'[x] # None <=> schedules[x] # None
         /\ schedules[x] # None => schedules'[x].failures = schedules[x].failures
                                  /\ schedules'[x].attempt = schedules[x].attempt
  BY <1>2, <1>4, <1>9
<1>15. HistoryFacts'
  <2> SUFFICES ASSUME NEW x \in Schedules
               PROVE  /\ schedules'[x] = None => completed[x] = << >>
                      /\ completed[x] # << >> =>
                           completed[x][Len(completed[x])].tick = schedules'[x].attempt
    BY <1>6 DEF HistoryFacts
  <2> QED BY <1>14 DEF ScheduleInvariant, HistoryFacts
<1>16. AttemptsInOrder'
  <2> SUFFICES ASSUME NEW x \in Schedules
               PROVE  LET runs == completed[x]
                          n    == Len(runs)
                      IN /\ \A i, j \in 1..n : i < j => runs[i].tick < runs[j].tick
                         /\ schedules'[x] # None =>
                              LET f == schedules'[x].failures
                              IN /\ f <= n
                                 /\ \A i \in (n - f + 1)..n : ~runs[i].ok
                                 /\ f < n => runs[n - f].ok
    BY <1>6 DEF AttemptsInOrder
  <2>1. CASE schedules[x] # None
    BY <1>14, <2>1 DEF ScheduleInvariant, AttemptsInOrder
  <2>2. CASE schedules[x] = None
    BY <1>14, <2>2 DEF ScheduleInvariant, AttemptsInOrder
  <2> QED BY <2>1, <2>2
<1>17. \A h \in Gates : GateFacts(h)'
  BY <1>9, <1>11
<1> QED BY <1>9, <1>12, <1>13, <1>15, <1>16, <1>17 DEF ScheduleInvariant

LEMMA AcquireLeaseKeeps ==
  ASSUME ScheduleInvariant, NEW g \in Gates, AcquireLease(g)
  PROVE  ScheduleInvariant'
<1>1. CASE Leasable(gates[g].schedule, gates[g].version, gates[g].tick)
  BY <1>1, LeaseKeeps
<1>2. CASE ~Leasable(gates[g].schedule, gates[g].version, gates[g].tick)
  BY <1>2, GateEnds DEF AcquireLease
<1> QED BY <1>1, <1>2

----------------------------------------------------------------------------
LEMMA Members ==
  ASSUME NEW R, NEW runs \in Seq(R)
  PROVE  \A i \in 1..Len(runs) : runs[i] \in R
OBVIOUS

LEMMA Appended ==
  ASSUME NEW R, NEW runs \in Seq(R), NEW e \in R, NEW longer, longer = Append(runs, e)
  PROVE  /\ longer \in Seq(R)
         /\ Len(runs) \in Nat
         /\ Len(longer) = Len(runs) + 1
         /\ \A i \in 1..Len(runs) : longer[i] = runs[i]
         /\ longer[Len(runs) + 1] = e
OBVIOUS

(* A history of n attempts that is in order and ends with f failures.       *)
HistoryStands(n, runs, f) ==
  /\ \A i, j \in 1..n : i < j => runs[i].tick < runs[j].tick
  /\ f <= n
  /\ \A i \in (n - f + 1)..n : ~runs[i].ok
  /\ f < n => runs[n - f].ok

(* One more attempt keeps the history in order, and its count of failures.  *)
LEMMA HistoryGrows ==
  ASSUME NEW n \in Nat, NEW runs, NEW longer, NEW t \in Nat, NEW ok \in BOOLEAN,
         NEW f \in Nat, NEW k,
         \A i \in 1..n : longer[i] = runs[i] /\ runs[i].tick \in Nat,
         longer[n + 1].tick = t, longer[n + 1].ok = ok,
         n > 0 => runs[n].tick < t,
         HistoryStands(n, runs, f),
         ok => k = 0, ~ok => k = f + 1
  PROVE  HistoryStands(n + 1, longer, k)
<1>0. /\ \A i, j \in 1..n : i < j => runs[i].tick < runs[j].tick
      /\ f <= n
      /\ \A i \in (n - f + 1)..n : ~runs[i].ok
      /\ f < n => runs[n - f].ok
  BY DEF HistoryStands
<1>1. ASSUME NEW i \in 1..(n + 1), NEW j \in 1..(n + 1), i < j
      PROVE  longer[i].tick < longer[j].tick
  <2>1. i \in 1..n
    BY <1>1
  <2>2. CASE j \in 1..n
    BY <1>0, <1>1, <2>1, <2>2
  <2>3. CASE j = n + 1
    <3>1. n \in 1..n /\ n > 0 /\ runs[n].tick < t
      BY <2>1
    <3>2. runs[i].tick <= runs[n].tick
      <4>1. CASE i = n
        BY <3>1, <4>1
      <4>2. CASE i # n
        <5>1. i < n
          BY <2>1, <4>2
        <5> QED BY <1>0, <2>1, <3>1, <5>1
      <4> QED BY <4>1, <4>2
    <3>3. runs[i].tick \in Nat /\ runs[n].tick \in Nat
      BY <2>1, <3>1
    <3>4. runs[i].tick < t
      BY <3>1, <3>2, <3>3
    <3> QED BY <2>1, <2>3, <3>4
  <2>4. j \in 1..n \/ j = n + 1
    OBVIOUS
  <2> QED BY <2>2, <2>3, <2>4
<1>2. CASE ok
  <2>1. k = 0 /\ longer[n + 1].ok
    BY <1>2
  <2>2. n + 1 - k = n + 1 /\ (n + 1 - k + 1)..(n + 1) = {}
    BY <2>1
  <2> QED BY <1>1, <2>1, <2>2 DEF HistoryStands
<1>3. CASE ~ok
  <2>1. k = f + 1 /\ ~longer[n + 1].ok
    BY <1>3
  <2>2. ASSUME NEW i \in (n + 1 - k + 1)..(n + 1) PROVE ~longer[i].ok
    <3>1. CASE i = n + 1
      BY <2>1, <3>1
    <3>2. CASE i # n + 1
      <4>1. i \in (n - f + 1)..n /\ i \in 1..n
        BY <1>0, <2>1, <3>2
      <4> QED BY <1>0, <4>1
    <3> QED BY <3>1, <3>2
  <2>3. ASSUME k < n + 1 PROVE longer[n + 1 - k].ok
    <3>1. f < n /\ n + 1 - k = n - f /\ n - f \in 1..n
      BY <1>0, <2>1, <2>3
    <3> QED BY <1>0, <3>1
  <2>4. k <= n + 1
    BY <1>0, <2>1
  <2> QED BY <1>1, <2>2, <2>3, <2>4 DEF HistoryStands
<1> QED BY <1>2, <1>3

LEMMA CompletionKeeps ==
  ASSUME ScheduleInvariant, NEW g \in Gates, CompleteRun(g), Completable(g)
  PROVE  ScheduleInvariant'
<1>1. gates[g].pc = "complete" /\ GateFacts(g) /\ gates[g] \in GateRecord
  BY DEF CompleteRun, ScheduleInvariant, TypeOK
<1> PICK s \in Schedules, t \in Ticks : gates[g].schedule = s /\ gates[g].tick = t
  BY <1>1 DEF GateFacts
<1>2. /\ schedules[s] # None
      /\ schedules[s].version = gates[g].version
      /\ t >= schedules[s].updated
      /\ schedules[s].token = gates[g].version
  BY <1>1 DEF GateFacts, Completable
<1> PICK r \in ScheduleRecord, ok \in BOOLEAN : schedules[s] = r /\ gates[g].ok = ok
  BY <1>1, <1>2, StoredSchedule DEF GateRecord
<1>3. /\ r.version \in Nat \ {0} /\ r.updated \in Nat /\ r.attempt \in Nat /\ r.success \in Nat
      /\ r.until \in Nat /\ r.token \in Nat /\ r.failures \in Nat
      /\ t \in Nat /\ t \in Times /\ LeaseTime \in Nat \ {0}
  BY <1>2, StoredSchedule, TicksAreTimes, GateParameters
<1>4. PICK k \in Nat, q \in ScheduleRecord :
        /\ k = IF ok THEN 0 ELSE r.failures + 1
        /\ q = Attempted(r, t, ok)
        /\ q.version = r.version + 1 /\ q.updated = t /\ q.failures = k
        /\ q.token = 0 /\ q.until = 0 /\ q.attempt = t
        /\ q.success = IF ok THEN t ELSE r.success
  <2> DEFINE k == IF ok THEN 0 ELSE r.failures + 1
             u == IF ok THEN t ELSE r.success
             state == IF k >= FailureLimit THEN "disabled" ELSE r.state
             q == Attempted(r, t, ok)
  <2>1. k \in Nat /\ r.version + 1 \in Nat \ {0}
    BY <1>3
  <2>2. u \in Times /\ state \in ScheduleStates
    <3>1. r.success \in Times /\ r.state \in ScheduleStates
      BY DEF ScheduleRecord
    <3>2. "disabled" \in ScheduleStates
      BY DEF ScheduleStates, ScheduleMoves
    <3> QED BY <1>3, <3>1, <3>2
  <2>3. q = [r EXCEPT !.state = state, !.failures = k, !.token = 0, !.until = 0,
                      !.attempt = t, !.success = u, !.updated = t, !.version = r.version + 1]
    BY DEF Attempted
  <2>4. q = Attempted(r, t, ok) /\ k = (IF ok THEN 0 ELSE r.failures + 1)
        /\ u = IF ok THEN t ELSE r.success
    OBVIOUS
  <2> HIDE DEF k, u, state, q
  <2>5. /\ q \in ScheduleRecord
        /\ q.version = r.version + 1 /\ q.updated = t /\ q.failures = k
        /\ q.token = 0 /\ q.until = 0 /\ q.attempt = t /\ q.success = u
    BY <1>3, <2>1, <2>2, <2>3 DEF ScheduleRecord
  <2> QED BY <2>1, <2>4, <2>5
<1>5. PICK e \in [tick : Ticks, ok : BOOLEAN] :
        e = [tick |-> t, ok |-> ok] /\ e.tick = t /\ e.ok = ok
  <2>1. [tick |-> t, ok |-> ok] \in [tick : Ticks, ok : BOOLEAN]
    OBVIOUS
  <2>2. [tick |-> t, ok |-> ok].tick = t /\ [tick |-> t, ok |-> ok].ok = ok
    OBVIOUS
  <2> QED BY <2>1, <2>2
<1>6. /\ schedules' = [schedules EXCEPT ![s] = q]
      /\ completed' = [completed EXCEPT ![s] = Append(completed[s], e)]
      /\ gates' = [gates EXCEPT ![g] = IdleGate]
      /\ Untouched /\ UNCHANGED << tickOps, ledger, executions >>
  BY <1>4, <1>5 DEF CompleteRun, EndGate
<1>7. r.success <= r.attempt /\ r.attempt < t /\ r.until <= t + LeaseTime
  <2>1. /\ r.success <= r.attempt
        /\ r.token # 0 =>
             r.attempt + LeaseTime < r.until /\ r.until <= r.updated + LeaseTime
    BY <1>2 DEF ScheduleInvariant, LeaseFacts
  <2> QED BY <1>2, <1>3, <2>1
<1>8. GateWrites(s, q)
  <2>1. ASSUME NEW u \in Ticks,
               u <= r.attempt \/ (r.token # 0 /\ u + LeaseTime <= r.until)
        PROVE  u <= q.attempt
    <3>1. u \in Nat
      BY TicksAreTimes
    <3> QED BY <1>3, <1>4, <1>7, <2>1, <3>1
  <2>2. q.success <= q.attempt /\ q.attempt <= q.updated
    BY <1>3, <1>4, <1>7
  <2> QED BY <1>2, <1>4, <2>1, <2>2 DEF GateWrites
<1>9. PICK runs \in Seq([tick : Ticks, ok : BOOLEAN]),
           longer \in Seq([tick : Ticks, ok : BOOLEAN]) :
        completed[s] = runs /\ longer = Append(runs, e)
  <2>1. completed[s] \in Seq([tick : Ticks, ok : BOOLEAN])
    BY DEF ScheduleInvariant, TypeOK
  <2>2. Append(completed[s], e) \in Seq([tick : Ticks, ok : BOOLEAN])
    BY <2>1, Appended
  <2> QED BY <2>1, <2>2
<1>10. completed' \in [Schedules -> Seq([tick : Ticks, ok : BOOLEAN])]
       /\ \A x \in Schedules : completed'[x] = IF x = s THEN longer ELSE completed[x]
  BY <1>6, <1>9 DEF ScheduleInvariant, TypeOK
<1>11. /\ q # None
       /\ TypeOK' /\ JobsRunOncePerTick' /\ UnspentTicksAreUntouched' /\ LeaseFacts'
       /\ \A c \in Commands : CommandFacts(c)'
       /\ \A h \in Gates \ {g} : GateFacts(h)'
  BY <1>6, <1>8, <1>10, IdleGateTyped, ScheduleWrittenByGate
<1>12. \A x \in Schedules : schedules'[x] = IF x = s THEN q ELSE schedules[x]
  BY <1>6 DEF ScheduleInvariant, TypeOK, CommandsTypeOK
<1>13. \A h \in Gates : gates'[h] = IF h = g THEN IdleGate ELSE gates[h]
  BY <1>6 DEF ScheduleInvariant, TypeOK
<1>14. GateFacts(g)' /\ OneGatePerTick'
  <2>1. GateFacts(g)'
    BY <1>13, IdleGateTyped DEF GateFacts, Working, WorkingGateSteps
  <2>2. \A h \in Gates : Working(h)' => Working(h) /\ gates'[h] = gates[h]
    BY <1>13, IdleGateTyped DEF Working, WorkingGateSteps
  <2> QED BY <2>1, <2>2 DEF ScheduleInvariant, OneGatePerTick
<1>15. SuccessMeansExecuted'
  <2> SUFFICES ASSUME NEW x \in Schedules, NEW u \in Ticks,
                      tickOps[x][u] = "succeeded"
                        \/ (schedules'[x] # None /\ schedules'[x].success = u)
               PROVE  executions[x][u] = 1 /\ ledger[x][u] = "succeeded"
    BY <1>6 DEF SuccessMeansExecuted
  <2>1. CASE x = s /\ ok /\ u = t
    <3>1. TickStands(gates[g], tickOps[s][t], ledger[s][t], executions[s][t])
      BY <1>1 DEF GateFacts, Working, WorkingGateSteps, GateSteps
    <3> QED BY <1>1, <2>1, <3>1 DEF TickStands
  <2>2. CASE ~(x = s /\ ok /\ u = t)
    <3>1. tickOps[x][u] = "succeeded" \/ (schedules[x] # None /\ schedules[x].success = u)
      BY <1>2, <1>4, <1>12, <2>2
    <3> QED BY <3>1 DEF ScheduleInvariant, SuccessMeansExecuted
  <2> QED BY <2>1, <2>2
<1>16. /\ Len(runs) \in Nat /\ Len(longer) = Len(runs) + 1
       /\ \A i \in 1..Len(runs) : longer[i] = runs[i]
       /\ longer[Len(runs) + 1] = e
  BY <1>9, Appended
<1>17. HistoryFacts'
  <2> SUFFICES ASSUME NEW x \in Schedules
               PROVE  /\ schedules'[x] = None => completed'[x] = << >>
                      /\ completed'[x] # << >> =>
                           completed'[x][Len(completed'[x])].tick = schedules'[x].attempt
    BY DEF HistoryFacts
  <2>1. CASE x = s
    BY <1>4, <1>5, <1>10, <1>11, <1>12, <1>16, <2>1
  <2>2. CASE x # s
    BY <1>10, <1>12, <2>2 DEF ScheduleInvariant, HistoryFacts
  <2> QED BY <2>1, <2>2
<1>18. AttemptsInOrder'
  <2> SUFFICES ASSUME NEW x \in Schedules
               PROVE  LET history == completed'[x]
                          n       == Len(history)
                      IN /\ \A i, j \in 1..n : i < j => history[i].tick < history[j].tick
                         /\ schedules'[x] # None =>
                              LET f == schedules'[x].failures
                              IN /\ f <= n
                                 /\ \A i \in (n - f + 1)..n : ~history[i].ok
                                 /\ f < n => history[n - f].ok
    BY DEF AttemptsInOrder
  <2>1. CASE x # s
    <3>1. schedules'[x] = schedules[x] /\ completed'[x] = completed[x]
      BY <1>10, <1>12, <2>1
    <3> QED BY <3>1 DEF ScheduleInvariant, AttemptsInOrder
  <2>2. CASE x = s
    <3>1. PICK n \in Nat : n = Len(runs)
      BY <1>16
    <3>2. HistoryStands(n, runs, r.failures)
      BY <1>2, <1>9, <3>1 DEF ScheduleInvariant, AttemptsInOrder, HistoryStands
    <3>3. n > 0 => runs[n].tick < t
      <4>1. n > 0 => runs # << >>
        BY <3>1
      <4>2. n > 0 => runs[n].tick = r.attempt
        BY <1>9, <3>1, <4>1 DEF ScheduleInvariant, HistoryFacts
      <4> QED BY <1>7, <4>2
    <3>4. \A i \in 1..n : longer[i] = runs[i] /\ runs[i].tick \in Nat
      <4>1. \A i \in 1..n : runs[i] \in [tick : Ticks, ok : BOOLEAN]
        BY <3>1, Members
      <4> QED BY <1>16, <3>1, <4>1, TicksAreTimes
    <3>5. longer[n + 1].tick = t /\ longer[n + 1].ok = ok
      BY <1>5, <1>16, <3>1
    <3>6. HistoryStands(n + 1, longer, k)
      <4>1. t \in Nat /\ r.failures \in Nat /\ (ok => k = 0) /\ (~ok => k = r.failures + 1)
        BY <1>3, <1>4
      <4> QED BY <3>2, <3>3, <3>4, <3>5, <4>1, HistoryGrows
    <3>7. completed'[x] = longer /\ Len(longer) = n + 1 /\ schedules'[x].failures = k
      BY <1>4, <1>10, <1>12, <1>16, <2>2, <3>1
    <3> QED BY <3>6, <3>7 DEF HistoryStands
  <2> QED BY <2>1, <2>2
<1>19. \A h \in Gates : GateFacts(h)'
  BY <1>11, <1>14
<1> QED BY <1>11, <1>14, <1>15, <1>17, <1>18, <1>19 DEF ScheduleInvariant

LEMMA CompleteRunKeeps ==
  ASSUME ScheduleInvariant, NEW g \in Gates, CompleteRun(g)
  PROVE  ScheduleInvariant'
<1>1. CASE Completable(g)
  BY <1>1, CompletionKeeps
<1>2. CASE ~Completable(g)
  BY <1>2, GateEnds DEF CompleteRun
<1> QED BY <1>1, <1>2

----------------------------------------------------------------------------
LEMMA EnvironmentKeeps ==
  ASSUME ScheduleInvariant, ClockTick \/ PolicyChanges \/ UNCHANGED vars
  PROVE  ScheduleInvariant'
<1>1. UNCHANGED << commandVars, gates, tickOps, ledger, executions, completed >>
  BY DEF ClockTick, PolicyChanges, vars, gateVars
<1>2. TypeOK'
  <2>1. now' \in Times /\ permitted' \in BOOLEAN
    <3>1. now \in Times /\ permitted \in BOOLEAN
      BY DEF ScheduleInvariant, TypeOK, CommandsTypeOK
    <3>2. CASE ClockTick
      BY <3>1, <3>2, ScheduleParameters DEF ClockTick, Times
    <3>3. CASE PolicyChanges
      BY <3>1, <3>3 DEF PolicyChanges
    <3>4. CASE UNCHANGED vars
      BY <3>1, <3>4 DEF vars
    <3> QED BY <3>2, <3>3, <3>4
  <2>2. sent' \subseteq Schedules \X Ticks
    <3>1. CASE ClockTick
      BY <3>1 DEF ScheduleInvariant, TypeOK, ClockTick
    <3>2. CASE sent' = sent
      BY <3>2 DEF ScheduleInvariant, TypeOK
    <3> QED BY <3>1, <3>2 DEF PolicyChanges, vars, gateVars
  <2> QED BY <1>1, <2>1, <2>2 DEF ScheduleInvariant, TypeOK, CommandsTypeOK, commandVars
<1>3. (JobsRunOncePerTick /\ SuccessMeansExecuted /\ AttemptsInOrder)'
  BY <1>1 DEF ScheduleInvariant, JobsRunOncePerTick, SuccessMeansExecuted, AttemptsInOrder,
       commandVars
<1>4. (LeaseFacts /\ UnspentTicksAreUntouched /\ HistoryFacts)'
  BY <1>1 DEF ScheduleInvariant, LeaseFacts, UnspentTicksAreUntouched, HistoryFacts, Spent,
       commandVars
<1>5. \A c \in Commands : CommandFacts(c)'
  BY <1>1 DEF ScheduleInvariant, CommandFacts, commandVars
<1>6. (\A g \in Gates : GateFacts(g)') /\ OneGatePerTick'
  BY <1>1 DEF ScheduleInvariant, GateFacts, OneGatePerTick, Working, Spent, TickStands,
       commandVars
<1> QED BY <1>2, <1>3, <1>4, <1>5, <1>6 DEF ScheduleInvariant

LEMMA GatesKeep ==
  ASSUME ScheduleInvariant, NEW g \in Gates,
         (\E s \in Schedules, t \in Ticks : ExecuteTick(g, s, t)) \/ GateStep(g) \/ CrashGate(g)
  PROVE  ScheduleInvariant'
BY ExecuteTickKeeps, AcquireLeaseKeeps, CreateTickOperationKeeps, QueueTickOperationKeeps,
   RevalidateKeeps, ReadLedgerKeeps, ClaimDispatchKeeps, RunJobKeeps, RecordSuccessKeeps,
   ReconcileKeeps, MarkSucceededKeeps, MarkFailedKeeps, CompleteRunKeeps, CrashGateKeeps
DEF GateStep

LEMMA StepsKeep ==
  ASSUME ScheduleInvariant, [Next]_vars
  PROVE  ScheduleInvariant'
<1>1. CASE CommandsNext /\ UNCHANGED gateVars
  BY <1>1, CommandsKeep
<1>2. CASE ClockTick \/ PolicyChanges \/ UNCHANGED vars
  BY <1>2, EnvironmentKeeps
<1>3. CASE \E g \in Gates :
             \/ \E s \in Schedules, t \in Ticks : ExecuteTick(g, s, t)
             \/ GateStep(g) \/ CrashGate(g)
  BY <1>3, GatesKeep
<1> QED BY <1>1, <1>2, <1>3 DEF Next

(* Whatever commands, gateways and Cloud Scheduler do, in any number and    *)
(* order, and wherever they die, the records of the schedules, their leases,*)
(* operations, ledger and jobs agree as ScheduleInvariant says              *)
(* (services/schedule_management.py, adapters/memory_store.py).             *)
THEOREM ScheduleInvariantHolds == Spec => []ScheduleInvariant
<1>1. Init => ScheduleInvariant
  BY Initially
<1>2. ScheduleInvariant /\ [Next]_vars => ScheduleInvariant'
  BY StepsKeep
<1> QED BY <1>1, <1>2, PTL DEF Spec

(* Every record, request and delivery keeps its type: versions stay         *)
(* positive, states stay in the schedule's table of moves, and a ledger     *)
(* and an operation are written for ticks only.                             *)
THEOREM ScheduleTypesHold == Spec => []TypeOK
<1>1. ScheduleInvariant => TypeOK
  BY DEF ScheduleInvariant
<1> QED BY <1>1, ScheduleInvariantHolds, PTL

(* However often a tick is delivered, however many gateways handle it and   *)
(* wherever one of them dies, CloudRunJobDispatcher starts the workload's   *)
(* job at most once for it, although a claim in the ledger is handed to     *)
(* whoever asks: the lease is what keeps two gateways from sharing one.     *)
THEOREM JobsRunOnce == Spec => []JobsRunOncePerTick
<1>1. ScheduleInvariant => JobsRunOncePerTick
  BY DEF ScheduleInvariant
<1> QED BY <1>1, ScheduleInvariantHolds, PTL

(* last_success_at of a schedule and a succeeded operation of a tick are    *)
(* only ever written for a tick whose job ran, exactly once, and was noted  *)
(* in the dispatch ledger.                                                  *)
THEOREM SuccessesWereExecuted == Spec => []SuccessMeansExecuted
<1>1. ScheduleInvariant => SuccessMeansExecuted
  BY DEF ScheduleInvariant
<1> QED BY <1>1, ScheduleInvariantHolds, PTL

(* complete_schedule_run counts attempts in the order of their ticks, each  *)
(* tick once, and consecutive_failures is what the history says.            *)
THEOREM AttemptsAreInOrder == Spec => []AttemptsInOrder
<1>1. ScheduleInvariant => AttemptsInOrder
  BY DEF ScheduleInvariant
<1> QED BY <1>1, ScheduleInvariantHolds, PTL

(* A pause, a disablement or an archive is final for every tick after it:   *)
(* a gateway that read the schedule before finds its version changed when   *)
(* it asks for the lease.                                                   *)
THEOREM SchedulesStayStopped == Spec => []StopsHold
<1>1. ScheduleInvariant => StopsHold
  <2> SUFFICES ASSUME ScheduleInvariant, NEW s \in Schedules, NEW t \in Ticks,
                      schedules[s] # None, t > schedules[s].updated
               PROVE  executions[s][t] = 0
    BY DEF StopsHold
  <2>1. /\ schedules[s].attempt \in Nat /\ schedules[s].updated \in Nat
        /\ schedules[s].until \in Nat /\ t \in Nat /\ LeaseTime \in Nat
    BY StoredSchedule, TicksAreTimes, GateParameters
  <2>2. /\ schedules[s].attempt <= schedules[s].updated
        /\ schedules[s].token # 0 => schedules[s].until <= schedules[s].updated + LeaseTime
    BY DEF ScheduleInvariant, LeaseFacts
  <2>3. ~Spent(s, t)
    BY <2>1, <2>2 DEF Spent
  <2> QED BY <2>3 DEF ScheduleInvariant, UnspentTicksAreUntouched
<1> QED BY <1>1, ScheduleInvariantHolds, PTL

----------------------------------------------------------------------------
(* What a step may do to the times of a stored schedule.                    *)
NeverBack(s) ==
  /\ schedules'[s].updated >= schedules[s].updated
  /\ schedules'[s].attempt >= schedules[s].attempt
  /\ schedules'[s].success >= schedules[s].success

LEMMA UnwrittenNeverGoesBack ==
  ASSUME ScheduleInvariant, NEW s \in Schedules, schedules[s] # None,
         schedules'[s] = schedules[s]
  PROVE  NeverBack(s)
BY StoredSchedule DEF NeverBack

LEMMA SavesNeverGoBack ==
  ASSUME ScheduleInvariant, NEW s \in Schedules, schedules[s] # None,
         NEW c \in Commands, NEW step, NEW target, NEW at, NEW next,
         SaveMove(c, step, target, at, next)
  PROVE  NeverBack(s)
<1>1. schedules \in [Schedules -> ScheduleRecord \cup {None}]
  BY DEF ScheduleInvariant, TypeOK, CommandsTypeOK
<1>2. CASE UNCHANGED schedules
  BY <1>2, UnwrittenNeverGoesBack
<1>3. CASE /\ CanMove(commands[c].schedule, commands[c].version, target, at)
           /\ schedules' = [schedules EXCEPT ![commands[c].schedule] =
                              Moved(schedules[commands[c].schedule], target, at)]
  <2>1. CASE s # commands[c].schedule
    <3>1. schedules'[s] = schedules[s]
      BY <1>1, <1>3, <2>1
    <3> QED BY <3>1, UnwrittenNeverGoesBack
  <2>2. CASE s = commands[c].schedule
    <3> PICK r \in ScheduleRecord : schedules[s] = r
      BY StoredSchedule
    <3>1. schedules'[s] = Moved(r, target, at) /\ at >= r.updated
      BY <1>1, <1>3, <2>2 DEF CanMove
    <3>2. /\ Moved(r, target, at).updated = at
          /\ Moved(r, target, at).attempt = r.attempt
          /\ Moved(r, target, at).success = r.success
      BY DEF Moved, ScheduleRecord
    <3>3. r.attempt \in Nat /\ r.success \in Nat
      BY StoredSchedule
    <3> QED BY <3>1, <3>2, <3>3 DEF NeverBack
  <2> QED BY <2>1, <2>2
<1> QED BY <1>2, <1>3 DEF SaveMove

LEMMA CommandsNeverGoBack ==
  ASSUME ScheduleInvariant, NEW s \in Schedules, schedules[s] # None, CommandsNext
  PROVE  NeverBack(s)
<1>1. schedules \in [Schedules -> ScheduleRecord \cup {None}]
  BY DEF ScheduleInvariant, TypeOK, CommandsTypeOK
<1> PICK c \in Commands :
       \/ \E x \in Schedules, k \in Keys : CreateSchedule(c, x, k)
       \/ ConsumeSchedulePlan(c) \/ EnsureEnabled(c)
       \/ \E x \in Schedules : PauseSchedule(c, x) \/ ResumeSchedule(c, x)
       \/ SavePause(c) \/ PauseJob(c) \/ SaveResume(c) \/ ResumeJob(c)
       \/ \E x \in Schedules, target \in StopTargets, at \in Times :
            StopSchedule(c, x, target, at)
       \/ StopJob(c) \/ SaveStop(c) \/ CrashCommand(c)
  BY DEF CommandsNext
<1>2. CASE SavePause(c) \/ SaveResume(c) \/ SaveStop(c)
  BY <1>2, SavesNeverGoBack DEF SavePause, SaveResume, SaveStop
<1>3. CASE ConsumeSchedulePlan(c)
  <2>1. UNCHANGED schedules
        \/ /\ schedules[commands[c].schedule] = None
           /\ schedules' = [schedules EXCEPT ![commands[c].schedule] =
                              NewSchedule(commands[c].at)]
    BY <1>3 DEF ConsumeSchedulePlan, FirstUse, Replayed
  <2>2. schedules'[s] = schedules[s]
    BY <1>1, <2>1
  <2> QED BY <2>2, UnwrittenNeverGoesBack
<1>4. CASE UNCHANGED schedules
  BY <1>4, UnwrittenNeverGoesBack
<1> QED BY <1>2, <1>3, <1>4 DEF CreateSchedule, EnsureEnabled, ResumeJob, EnsureJob,
     PauseSchedule, ResumeSchedule, PauseJob, StopSchedule, StopJob, CrashCommand

LEMMA LeasesNeverGoBack ==
  ASSUME ScheduleInvariant, NEW s \in Schedules, schedules[s] # None,
         NEW g \in Gates, AcquireLease(g)
  PROVE  NeverBack(s)
<1>1. schedules \in [Schedules -> ScheduleRecord \cup {None}]
  BY DEF ScheduleInvariant, TypeOK, CommandsTypeOK
<1>2. CASE schedules'[s] = schedules[s]
  BY <1>2, UnwrittenNeverGoesBack
<1>3. CASE schedules'[s] # schedules[s]
  <2> PICK r \in ScheduleRecord : schedules[s] = r
    BY StoredSchedule
  <2>1. /\ s = gates[g].schedule
        /\ schedules'[s] = Leased(r, gates[g].tick)
        /\ gates[g].tick >= r.updated
    BY <1>1, <1>3 DEF AcquireLease, Leasable
  <2>2. /\ Leased(r, gates[g].tick).updated = gates[g].tick
        /\ Leased(r, gates[g].tick).attempt = r.attempt
        /\ Leased(r, gates[g].tick).success = r.success
    BY DEF Leased, ScheduleRecord
  <2>3. r.attempt \in Nat /\ r.success \in Nat
    BY StoredSchedule
  <2> QED BY <2>1, <2>2, <2>3 DEF NeverBack
<1> QED BY <1>2, <1>3

LEMMA CompletionsNeverGoBack ==
  ASSUME ScheduleInvariant, NEW s \in Schedules, schedules[s] # None,
         NEW g \in Gates, CompleteRun(g)
  PROVE  NeverBack(s)
<1>1. schedules \in [Schedules -> ScheduleRecord \cup {None}]
  BY DEF ScheduleInvariant, TypeOK, CommandsTypeOK
<1>2. CASE schedules'[s] = schedules[s]
  BY <1>2, UnwrittenNeverGoesBack
<1>3. CASE schedules'[s] # schedules[s]
  <2> PICK r \in ScheduleRecord : schedules[s] = r
    BY StoredSchedule
  <2>1. /\ s = gates[g].schedule
        /\ schedules'[s] = Attempted(r, gates[g].tick, gates[g].ok)
        /\ gates[g].tick >= r.updated
    BY <1>1, <1>3 DEF CompleteRun, Completable
  <2> DEFINE t == gates[g].tick
             q == Attempted(r, t, gates[g].ok)
  <2>2. /\ q.updated = t /\ q.attempt = t
        /\ q.success = t \/ q.success = r.success
    BY DEF Attempted, ScheduleRecord
  <2>3. r.success <= r.attempt /\ r.attempt <= r.updated
    BY DEF ScheduleInvariant, LeaseFacts
  <2>4. r.attempt \in Nat /\ r.success \in Nat /\ r.updated \in Nat
    BY StoredSchedule
  <2>5. t \in Nat
    <3>1. gates[g].pc # "idle"
      BY DEF CompleteRun
    <3> QED BY <3>1, TicksAreTimes DEF ScheduleInvariant, GateFacts
  <2> HIDE DEF t
  <2>6. q.updated >= r.updated /\ q.attempt >= r.attempt /\ q.success >= r.success
    <3> HIDE DEF q
    <3>1. t >= r.updated
      BY <2>1 DEF t
    <3> QED BY <2>2, <2>3, <2>4, <2>5, <3>1
  <2> QED BY <2>1, <2>6 DEF NeverBack, t
<1> QED BY <1>2, <1>3

(* No save, lease or completed run sets a schedule's clock readings back,   *)
(* although each writes a reading it took long before (the lifecycle        *)
(* worker's is the start of its job, a gateway's is the tick's hour).       *)
THEOREM SchedulesMoveForward == Spec => ScheduleTimeMovesForward
<1>1. ASSUME ScheduleInvariant, Next, NEW s \in Schedules, schedules[s] # None
      PROVE  NeverBack(s)
  <2>1. CASE CommandsNext
    BY <1>1, <2>1, CommandsNeverGoBack
  <2>2. CASE \E g \in Gates : AcquireLease(g) \/ CompleteRun(g)
    BY <1>1, <2>2, LeasesNeverGoBack, CompletionsNeverGoBack
  <2>3. CASE UNCHANGED schedules
    BY <1>1, <2>3, UnwrittenNeverGoesBack
  <2> QED BY <1>1, <2>1, <2>2, <2>3 DEF Next, ClockTick, PolicyChanges, commandVars,
       ExecuteTick, GateStep, CreateTickOperation, QueueTickOperation, Revalidate, ReadLedger,
       ClaimDispatch, RunJob, RecordSuccess, Reconcile, MarkSucceeded, MarkFailed, CrashGate
<1>2. ScheduleInvariant /\ [Next]_vars =>
        [\A s \in Schedules : schedules[s] # None =>
           /\ schedules'[s].updated >= schedules[s].updated
           /\ schedules'[s].attempt >= schedules[s].attempt
           /\ schedules'[s].success >= schedules[s].success]_vars
  BY <1>1 DEF NeverBack
<1> QED BY <1>2, ScheduleInvariantHolds, PTL DEF Spec, ScheduleTimeMovesForward
===============================================================================
