------------------------------ MODULE MCSchedule ------------------------------
(* Instances of the schedules of one owner for TLC.                          *)
EXTENDS ScheduleInvariant, TLC

(* Requests, ticks in flight, schedules and keys are interchangeable.        *)
Interchangeable ==
  Permutations(Schedules) \cup Permutations(Keys) \cup Permutations(Commands)
    \cup Permutations(CrashableGates) \cup Permutations(Gates \ CrashableGates)
==============================================================================
