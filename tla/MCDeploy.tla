------------------------------- MODULE MCDeploy -------------------------------
(* Instances of the deployment path for TLC.                                 *)
EXTENDS DeployInvariant, TLC

(* Every push brings a commit of its own.                                    *)
PushedCommits == [a \in Admissions |-> a]

(* One door at a time: people review and deploy while the record moves a few *)
(* times, or GitHub pushes.  The two meet in DeployPush.                     *)
ReviewVersion == 2

OneDoor ==
  \/ \A p \in Plans : plans[p] = None
  \/ /\ deliveryClaims = {} /\ workload.version <= ReviewVersion
     /\ \A c \in Calls : calls[c].plan \notin Deliveries

(* One hazard at a time: two deliveries of a task race while the clocks      *)
(* stand still, or time passes around one delivery, whose request is done.   *)
TimePassesForOne ==
  \/ clock = 0
  \/ /\ \A c \in Calls : calls[c].pc = "idle"
     /\ Cardinality({r \in Runs : runs[r].pc # "idle"}) <= 1
     /\ \A k \in KeyIds : queue[k] # None

(* Requests, deliveries of tasks, and the ids people are handed are          *)
(* interchangeable, as far as the same of them may die midway.               *)
Interchangeable ==
  Permutations(CrashableCalls) \cup Permutations(Calls \ CrashableCalls)
    \cup Permutations(CrashableRuns) \cup Permutations(Runs \ CrashableRuns)
    \cup Permutations(Plans) \cup Permutations(Ops) \cup Permutations(Keys)
    \cup Permutations(Deliveries)
==============================================================================
