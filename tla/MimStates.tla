------------------------------ MODULE MimStates ------------------------------
(****************************************************************************)
(* The closed state machines of the control plane, domain/states.py.  Each  *)
(* table gives, for a state, the set of states a stored record may move to. *)
(****************************************************************************)

OperationMoves ==
  [ planned     |-> {"queued", "cancelled"},
    queued      |-> {"building", "failed", "cancelled", "quarantined"},
    building    |-> {"deploying", "failed", "cancelled", "quarantined"},
    deploying   |-> {"verifying", "failed", "rolled_back", "quarantined"},
    verifying   |-> {"succeeded", "failed", "rolled_back", "quarantined"},
    succeeded   |-> {},
    failed      |-> {},
    rolled_back |-> {},
    cancelled   |-> {},
    quarantined |-> {} ]

WorkloadMoves ==
  [ planned     |-> {"active", "failed", "quarantined", "archived"},
    active      |-> {"paused", "failed", "quarantined", "archived"},
    paused      |-> {"active", "quarantined", "archived"},
    failed      |-> {"active", "quarantined", "archived"},
    quarantined |-> {"active", "paused", "archived"},
    archived    |-> {"planned"} ]

PlanMoves ==
  [ issued    |-> {"consumed", "expired", "cancelled"},
    consumed  |-> {},
    expired   |-> {},
    cancelled |-> {} ]

(* The public host of a web workload, domain/models.py.                     *)
BindingMoves ==
  [ active   |-> {"disabled", "retired"},
    disabled |-> {"active", "retired"},
    retired  |-> {} ]

ScheduleMoves ==
  [ enabled     |-> {"disabled", "paused", "quarantined", "archived"},
    disabled    |-> {"enabled", "quarantined", "archived"},
    paused      |-> {"enabled", "disabled", "quarantined", "archived"},
    quarantined |-> {"disabled", "archived"},
    archived    |-> {} ]

OperationStates == DOMAIN OperationMoves
WorkloadStates  == DOMAIN WorkloadMoves
BindingStates   == DOMAIN BindingMoves
ScheduleStates  == DOMAIN ScheduleMoves

(* The worker's own reading of the operation table: states it answers       *)
(* "completed" for, and states it answers "in progress" for.                *)
TerminalOperationStates ==
  {"succeeded", "failed", "rolled_back", "cancelled", "quarantined"}

InProgressOperationStates == {"building", "deploying", "verifying"}

(* Workload states a deployment may be planned, queued and applied in.      *)
SafeWorkloadStates == {"active", "failed"}

==============================================================================
