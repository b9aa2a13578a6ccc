-------------------------------- MODULE Accounts --------------------------------
(***************************************************************************)
(* The people side of the control plane in one state machine: the company  *)
(* directory and its copy, the Slack installation, the bill with what it   *)
(* switches off, the totals of activity, and the requests of people that   *)
(* every door decides from all of these. The parts share the clock and the *)
(* records; each step is a step of one part, and only RecordActivity       *)
(* writes a record of another's, the activity of the app it opens.         *)
(***************************************************************************)
EXTENDS Access, Activity

vars == <<directoryVars, slackVars, costVars, accessVars, activityVars>>

\* the directory's variables that only its own actions change
directoryKept == <<now, company, left, dropped, users, ledger, lease, job>>

Init == DirectoryInit /\ SlackInit /\ CostInit /\ AccessInit /\ ActivityInit

Next ==
    \/ DirectoryNext /\ UNCHANGED <<slackVars, costVars, accessVars, activityVars>>
    \/ SlackNext /\ UNCHANGED <<directoryKept, costVars, accessVars, activityVars>>
    \/ CostNext /\ UNCHANGED <<directoryKept, slackVars, accessVars, activityVars>>
    \/ AccessNext /\ UNCHANGED <<directoryKept, slackVars,
                                bill, usage, guard, costLease, ingest, activityVars>>
    \/ ActivityNext /\ UNCHANGED <<directoryKept, slackVars, accessVars,
                                  bill, usage, guard, resource>>

Spec == Init /\ [][Next]_vars

--------------------------------------------------------------------------------

(***************************************************************************)
(* No step leaves the states of domain/states.py or stores a record of     *)
(* another shape (models.py).                                              *)
(***************************************************************************)
TypeOK == DirectoryTypeOK /\ SlackTypeOK /\ CostTypeOK /\ AccessTypeOK /\ ActivityTypeOK

================================================================================
