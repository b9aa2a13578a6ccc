------------------------------ MODULE PlanLedger ------------------------------
(****************************************************************************)
(* What the deployment path promises, whatever is retried, delivered twice  *)
(* or lost on the way: a reviewed plan authorises at most one operation, an *)
(* operation reaches Cloud Run at most once, it has at most one outcome,    *)
(* and only an operation that reached Cloud Run can be reported a success.  *)
(****************************************************************************)
CONSTANTS PlanIds, OpIds, None

VARIABLES
  reviewed,   \* the plans a review has issued
  ledger,     \* the operation each plan was spent on, or None
  applied,    \* the operations whose image was written to Cloud Run
  outcome     \* "open", "success" or "other" for each operation

ledgerVars == << reviewed, ledger, applied, outcome >>

Authorised(o) == \E p \in PlanIds : ledger[p] = o

LedgerInit ==
  /\ reviewed = {}
  /\ ledger = [p \in PlanIds |-> None]
  /\ applied = {}
  /\ outcome = [o \in OpIds |-> "open"]

IssuePlan(p) ==
  /\ p \notin reviewed
  /\ reviewed' = reviewed \cup {p}
  /\ UNCHANGED << ledger, applied, outcome >>

(* A plan is spent on an operation no plan was spent on before.  An         *)
(* automatic deployment reviews and spends its plan at once.                *)
SpendPlan(p, o) ==
  /\ ledger[p] = None
  /\ ~Authorised(o)
  /\ reviewed' = reviewed \cup {p}
  /\ ledger' = [ledger EXCEPT ![p] = o]
  /\ UNCHANGED << applied, outcome >>

ApplyOperation(o) ==
  /\ Authorised(o)
  /\ o \notin applied
  /\ outcome[o] = "open"
  /\ applied' = applied \cup {o}
  /\ UNCHANGED << reviewed, ledger, outcome >>

SettleOperation(o, result) ==
  /\ Authorised(o)
  /\ outcome[o] = "open"
  /\ result = "success" => o \in applied
  /\ outcome' = [outcome EXCEPT ![o] = result]
  /\ UNCHANGED << reviewed, ledger, applied >>

LedgerNext ==
  \/ \E p \in PlanIds : IssuePlan(p)
  \/ \E p \in PlanIds, o \in OpIds : SpendPlan(p, o)
  \/ \E o \in OpIds : ApplyOperation(o)
  \/ \E o \in OpIds, result \in {"success", "other"} : SettleOperation(o, result)

LedgerSpec == LedgerInit /\ [][LedgerNext]_ledgerVars

==============================================================================
