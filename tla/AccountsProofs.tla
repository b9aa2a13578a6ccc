------------------------------- MODULE AccountsProofs -------------------------------
(***************************************************************************)
(* Proofs about the Slack installation, the bill with what it switches     *)
(* off, and the totals of activity, as steps of the whole people side; and *)
(* the type correctness of all of it (Accounts). The lemmas about sums     *)
(* argue by a smallest set on which they would fail.                       *)
(***************************************************************************)
EXTENDS AccessProofs, FiniteSetTheorems

CallerSteps  == {"idle", "consumed", "exchange", "token", "granted", "unwritten", "revoking",
                 "destroying", "uninstall", "destroy", "mark"}
CallerRecord == [pc : CallerSteps, ref : Refs \cup {NoRef}]

(* The calls that hold a credential of their own making, those of them     *)
(* that have not offered it yet, and the calls that are taking the         *)
(* installation's apart.                                                   *)
HoldingSteps  == {"token", "granted", "unwritten", "revoking", "destroying"}
OfferingSteps == {"token", "granted", "unwritten"}
EndingSteps   == {"destroy", "mark"}

InstallKept ==
    /\ pending \in [States -> PendingRecord]
    /\ token \in [Refs -> {"unissued", "valid", "revoked"}]
    /\ vault \in [Refs -> {"absent", "enabled", "destroyed"}]
    /\ link \subseteq People
    /\ install \in InstallRecord /\ pointer = (install.state = "active")
    /\ IF install.state = "none" THEN install.ref = NoRef
       ELSE install.ref \in Refs /\ token[install.ref] # "unissued"
    /\ install.state = "revoked" =>
          token[install.ref] = "revoked" /\ vault[install.ref] = "destroyed"

(* What a call has established at the step it is about to do. A token that *)
(* a revocation finds good is the active installation's, and stays so      *)
(* until that revocation marks it.                                         *)
CallerStands(x) ==
    /\ x \in CallerRecord
    /\ x.pc \notin {"idle", "consumed", "exchange"} => x.ref \in Refs /\ token[x.ref] # "unissued"
    /\ x.pc \in OfferingSteps => token[x.ref] = "valid" /\ install.ref # x.ref
    /\ x.pc = "uninstall" /\ token[x.ref] = "valid" =>
          install.state = "active" /\ install.ref = x.ref
    /\ x.pc \in EndingSteps =>
          install.state = "active" /\ install.ref = x.ref /\ token[x.ref] = "revoked"
    /\ x.pc = "mark" => vault[x.ref] = "destroyed"

CallersKept ==
    /\ caller \in [Callers -> CallerRecord]
    /\ \A c \in Callers : CallerStands(caller[c])
    /\ \A c, d \in Callers : c # d =>
          /\ ~(caller[c].pc \in HoldingSteps /\ caller[d].pc \in HoldingSteps /\ Ref(c) = Ref(d))
          /\ ~(caller[c].pc \in EndingSteps /\ caller[d].pc \in EndingSteps)

Usable(r) == token[r] = "valid" \/ vault[r] = "enabled"

(* As long as no answer is lost and no call dies, what is usable is the    *)
(* installation's or in the hands of a call.                               *)
NothingIsLeftBehind ==
    Undisturbed =>
      /\ \A r \in Refs : Usable(r) =>
            \/ install.state = "active" /\ install.ref = r
            \/ \E c \in Callers : caller[c].pc \in HoldingSteps /\ Ref(c) = r
      /\ \A c \in Callers : /\ caller[c].pc # "unwritten"
                            /\ caller[c].pc = "destroying" => token[Ref(c)] = "revoked"

SlackInvariant == InstallKept /\ CallersKept /\ NothingIsLeftBehind

--------------------------------------------------------------------------------
EnforcingSteps == {"enforcing", "stopping", "pausing"}
RunSteps == EnforcingSteps \cup {"idle", "leased", "storing", "billed", "expiring", "counting",
                                 "rolling", "completed"}

Stopped(r) == resource[r].state = "paused" /\ ~resource[r].on

BillKept ==
    /\ bill \in [Entries -> 0..MaxBill]
    /\ usage \in [Entries -> UsageRecord]
    /\ guard \in GuardRecord /\ guard.at <= now
    /\ costLease \in [owner : Runs \cup {Free}, until : Nat]
    /\ resource \in [Resources -> [state : {"active", "paused"}, version : Nat, on : BOOLEAN]]
    /\ \A r \in Resources : resource[r].state = "paused" => Stopped(r)

EventsKept ==
    /\ IsFiniteSet(events) /\ events \subseteq ActivityEvent
    /\ \A x \in events : x.at <= now
    /\ totals \in [Cells -> Nat \cup {NoTotal}]

(* No total counts more than is stored, on a day that an expiry at t leaves *)
(* whole.                                                                  *)
WholeAt(c, t) == c[1] * DayLength >= t - Retention
TotalsHold(t) == \A c \in Cells : WholeAt(c, t) => totals[c] <= Count(c, events)

(* The events that were certainly recorded before a run began.             *)
Certain(x) == {y \in events : y.at + TickDelay < x.now}

(* What must stop and is not on the list of what is left to do has stopped, *)
(* or is listed for the scope at hand.                                     *)
StopsSoFar(x) ==
    /\ EmergencyStop /\ Shared \notin x.todo =>
          \A r \in Resources : r \in DOMAIN x.seen \/ Stopped(r)
    /\ \A r \in Resources :
          Pause(ResourceOwner[r]) /\ ResourceOwner[r] \notin x.todo =>
              r \in DOMAIN x.seen \/ Stopped(r)

(* The same of the totals.                                                 *)
TotalsSoFar(x) ==
    /\ \A c \in DOMAIN x.rows :
          c \in Cells /\ x.rows[c] \in Nat
          /\ Count(c, Certain(x)) <= x.rows[c] /\ x.rows[c] <= Count(c, events)
    /\ \A c \in Cells \ DOMAIN x.rows : WholeAt(c, x.now) =>
          (IF totals[c] = NoTotal THEN 0 ELSE totals[c]) \in Count(c, Certain(x))..Count(c, events)

IsRun(x) == x = [pc |-> x.pc, now |-> x.now, deadline |-> x.deadline, known |-> x.known,
                 rows |-> x.rows, todo |-> x.todo, seen |-> x.seen, off |-> x.off]

(* What the run of the ingest job i holds at the step it is about to do:   *)
(* until its deadline it has the lease, and no other run does anything.    *)
IngestStands(i, x) ==
    /\ IsRun(x) /\ x.pc \in RunSteps
    /\ x.now \in Nat /\ x.now <= now /\ x.deadline \in Nat
    /\ x.pc = "idle" => x.deadline = 0
    /\ x.pc = "storing" =>
          DOMAIN x.rows \subseteq Entries /\ \A e \in DOMAIN x.rows : x.rows[e] \in 0..MaxBill
    /\ x.pc = "enforcing" => DOMAIN x.seen = {} /\ x.off = NoResource
    /\ x.pc \in EnforcingSteps =>
          /\ DOMAIN x.seen \subseteq Resources
          /\ x.off # NoResource => x.off \in DOMAIN x.seen /\ ~resource[x.off].on
    /\ x.pc \in {"expiring", "counting"} => \A y \in x.known : y.at < x.now - Retention
    /\ now < x.deadline =>
          /\ costLease.owner = i /\ x.deadline <= costLease.until
          /\ TotalsHold(x.now)
          /\ x.pc \in EnforcingSteps => StopsSoFar(x)
          /\ x.pc = "rolling" => TotalsSoFar(x)

IngestKept ==
    /\ ingest = [i \in Runs |-> ingest[i]]
    /\ \A i \in Runs : IngestStands(i, ingest[i])

CostInvariant == BillKept /\ EventsKept /\ TotalsHold(now) /\ IngestKept

--------------------------------------------------------------------------------
(* Trouble is only ever used up.                                            *)
LEMMA TroubleDisturbs ==
  ASSUME BudgetKept, BudgetStep
  PROVE  /\ Undisturbed' => Undisturbed
         /\ Spend("trouble") => ~Undisturbed'
<1>1. PICK b \in Budgets : \A k \in Kinds : budget[k] <= b[k]
  BY DEF BudgetKept
<1>2. b["trouble"] \in Nat /\ b["trouble"] <= MaxTrouble /\ budget["trouble"] <= b["trouble"]
  BY <1>1, BudgetsTyped, KindsNamed, DirectoryBounds
<1>3. budget["trouble"] \in Nat /\ budget'["trouble"] \in Int /\ budget'["trouble"] <= budget["trouble"]
  BY KindsNamed DEF BudgetKept, BudgetStep, Spend
<1>4. Spend("trouble") => budget'["trouble"] = budget["trouble"] - 1
  BY KindsNamed DEF BudgetKept, Spend
<1> QED BY <1>2, <1>3, <1>4, DirectoryBounds DEF Undisturbed

(* One call goes on, and the others stand where they were.                  *)
LEMMA CallerMoves ==
  ASSUME CallersKept, NEW c \in Callers, NEW x,
         caller' = [caller EXCEPT ![c] = x],
         CallerStands(x)',
         \A d \in Callers \ {c} : CallerStands(caller[d])',
         \A d \in Callers \ {c} :
            /\ ~(x.pc \in HoldingSteps /\ caller[d].pc \in HoldingSteps /\ x.ref = Ref(d))
            /\ ~(x.pc \in EndingSteps /\ caller[d].pc \in EndingSteps)
  PROVE  CallersKept'
<1>1. \A d \in Callers : caller'[d] = IF d = c THEN x ELSE caller[d]
  BY DEF CallersKept
<1>2. caller' \in [Callers -> CallerRecord]
  BY DEF CallersKept, CallerStands
<1>3. \A d \in Callers : CallerStands(caller[d])'
  BY <1>1 DEF CallerStands
<1> QED BY <1>1, <1>2, <1>3 DEF CallersKept, Ref

(* A call goes on, and the documents, the tokens and the vault are left.    *)
LEMMA CallerGoesOn ==
  ASSUME SlackInvariant, NEW c \in Callers, NEW x, CallerStands(x),
         caller' = [caller EXCEPT ![c] = x],
         UNCHANGED << install, pointer, token, vault, link >>,
         pending' \in [States -> PendingRecord],
         x.pc \in HoldingSteps => caller[c].pc \in HoldingSteps /\ x.ref = Ref(c),
         x.pc \in EndingSteps => caller[c].pc \in EndingSteps,
         Undisturbed' =>
            /\ Undisturbed
            /\ caller[c].pc \in HoldingSteps => x.pc \in HoldingSteps /\ x.ref = Ref(c)
            /\ x.pc # "unwritten"
            /\ x.pc = "destroying" => token[x.ref] = "revoked"
  PROVE  SlackInvariant'
<1>1. InstallKept'
  BY DEF SlackInvariant, InstallKept
<1>2. \A d \in Callers : caller'[d] = IF d = c THEN x ELSE caller[d]
  BY DEF SlackInvariant, CallersKept
<1>3. CallersKept'
  <2>1. CallerStands(x)'
    BY DEF CallerStands
  <2>2. \A d \in Callers \ {c} : CallerStands(caller[d])'
    BY <1>2 DEF SlackInvariant, CallersKept, CallerStands
  <2>3. \A d \in Callers \ {c} :
           /\ ~(x.pc \in HoldingSteps /\ caller[d].pc \in HoldingSteps /\ x.ref = Ref(d))
           /\ ~(x.pc \in EndingSteps /\ caller[d].pc \in EndingSteps)
    BY DEF SlackInvariant, CallersKept
  <2>4. CallersKept
    BY DEF SlackInvariant
  <2> QED BY <2>1, <2>2, <2>3, <2>4, CallerMoves
<1>4. NothingIsLeftBehind'
  BY <1>2 DEF SlackInvariant, NothingIsLeftBehind, Usable, Ref
<1> QED BY <1>1, <1>3, <1>4 DEF SlackInvariant

(* Nobody calls.                                                            *)
LEMMA CallsRest ==
  ASSUME SlackInvariant, BudgetKept, BudgetStep,
         UNCHANGED << install, pointer, token, vault, caller >>,
         pending' \in [States -> PendingRecord], link' \subseteq People
  PROVE  SlackInvariant'
<1>1. InstallKept'
  BY DEF SlackInvariant, InstallKept
<1>2. CallersKept'
  BY DEF SlackInvariant, CallersKept, CallerStands, Ref
<1>3. NothingIsLeftBehind'
  BY TroubleDisturbs DEF SlackInvariant, NothingIsLeftBehind, Usable, Ref
<1> QED BY <1>1, <1>2, <1>3 DEF SlackInvariant

LEMMA IdleCallerStands == CallerStands(IdleCaller) /\ IdleCaller.pc = "idle"
BY DEF CallerStands, CallerRecord, CallerSteps, IdleCaller, OfferingSteps, EndingSteps

(* What is known of a call that is about to do something.                   *)
LEMMA CallerFacts ==
  ASSUME SlackInvariant, NEW c \in Callers
  PROVE  /\ caller[c] \in CallerRecord /\ CallerStands(caller[c]) /\ Ref(c) = caller[c].ref
         /\ caller[c].pc \notin {"idle", "consumed", "exchange"} =>
               Ref(c) \in Refs /\ token[Ref(c)] # "unissued"
BY DEF SlackInvariant, CallersKept, CallerStands, Ref

LEMMA InstallRests ==
  ASSUME DirectoryInvariant, SlackInvariant, NEW s \in States, StartInstallation(s)
  PROVE  SlackInvariant'
<1>1. now \in 0..MaxTime
  BY NowIsBounded DEF DirectoryInvariant
<1>2. pending' \in [States -> PendingRecord]
  BY <1>1 DEF StartInstallation, SlackInvariant, InstallKept, PendingRecord
<1>3. BudgetStep /\ BudgetKept
  BY SpendIsBudgetStep, KindsNamed DEF StartInstallation, DirectoryInvariant
<1>4. /\ UNCHANGED << install, pointer, token, vault, caller >>
      /\ link' \subseteq People
  BY DEF StartInstallation, SlackInvariant, InstallKept
<1> QED BY <1>2, <1>3, <1>4, CallsRest

LEMMA RevokeLinkKeeps ==
  ASSUME DirectoryInvariant, SlackInvariant, NEW p \in People, RevokeLink(p)
  PROVE  SlackInvariant'
<1>1. BudgetStep /\ BudgetKept
  BY SpendIsBudgetStep, KindsNamed DEF RevokeLink, DirectoryInvariant
<1>2. /\ UNCHANGED << install, pointer, token, vault, caller >>
      /\ pending' \in [States -> PendingRecord] /\ link' \subseteq People
  BY DEF RevokeLink, SlackInvariant, InstallKept
<1> QED BY <1>1, <1>2, CallsRest

(* A call that ends without having touched anything.                        *)
LEMMA CallerEnds ==
  ASSUME SlackInvariant, BudgetKept, BudgetStep, NEW c \in Callers, Ends(c),
         UNCHANGED << pending, install, pointer, token, vault, link >>,
         Undisturbed' => caller[c].pc \notin HoldingSteps
  PROVE  SlackInvariant'
<1>1. caller' = [caller EXCEPT ![c] = IdleCaller] /\ CallerStands(IdleCaller)
  BY IdleCallerStands DEF Ends
<1>2. IdleCaller.pc \notin HoldingSteps \cup EndingSteps \cup {"unwritten", "destroying"}
  BY DEF IdleCaller, HoldingSteps, EndingSteps
<1>3. pending' \in [States -> PendingRecord]
  BY DEF SlackInvariant, InstallKept
<1> QED BY <1>1, <1>2, <1>3, TroubleDisturbs, CallerGoesOn

(* Every step of a call but those that spend trouble leaves the budget, or  *)
(* starts a revocation.                                                     *)
LEMMA CallerSpends ==
  ASSUME NEW c \in Callers, CallerStep(c) PROVE BudgetStep
BY KindsNamed DEF CallerStep, ConsumeState, CheckExisting, Exchange, WriteToken, DropToken,
   RefuseGrant, SaveInstall, RevokeGrant, DestroyGrant, BeginRevocation, Uninstall, DestroyCredential,
   MarkRevoked, CallerDies, BudgetStep

LEMMA ConsumeStateKeeps ==
  ASSUME BudgetKept, BudgetStep, SlackInvariant, NEW c \in Callers, NEW s \in States,
         ConsumeState(c, s)
  PROVE  SlackInvariant'
<1> DEFINE x == [caller[c] EXCEPT !.pc = "consumed"]
<1>1. caller[c] \in CallerRecord /\ caller[c].pc = "idle"
  BY CallerFacts DEF ConsumeState
<1>2. x \in CallerRecord /\ x.pc = "consumed"
  BY <1>1 DEF CallerRecord, CallerSteps
<1>3. pending' \in [States -> PendingRecord]
  BY DEF ConsumeState, SlackInvariant, InstallKept, PendingRecord
<1>4. UNCHANGED << install, pointer, token, vault, link >>
  BY DEF ConsumeState
<1>5. CASE UNCHANGED caller
  BY <1>3, <1>4, <1>5, CallsRest DEF SlackInvariant, InstallKept
<1>6. CASE caller' = [caller EXCEPT ![c] = x]
  <2> HIDE DEF x
  <2>1. CallerStands(x) /\ x.pc \notin HoldingSteps \cup EndingSteps
    BY <1>2 DEF CallerStands, OfferingSteps, EndingSteps, HoldingSteps
  <2>2. caller[c].pc \notin HoldingSteps /\ x.pc \notin {"unwritten", "destroying"}
    BY <1>1, <1>2 DEF HoldingSteps
  <2> QED BY <1>3, <1>4, <1>6, <2>1, <2>2, TroubleDisturbs, CallerGoesOn
<1> QED BY <1>5, <1>6 DEF ConsumeState, Step

LEMMA CheckExistingKeeps ==
  ASSUME BudgetKept, BudgetStep, SlackInvariant, NEW c \in Callers, CheckExisting(c)
  PROVE  SlackInvariant'
<1> DEFINE x == [caller[c] EXCEPT !.pc = "exchange"]
<1>1. caller[c] \in CallerRecord /\ caller[c].pc = "consumed" /\ caller[c].pc \notin HoldingSteps
  BY CallerFacts DEF CheckExisting, HoldingSteps
<1>2. x \in CallerRecord /\ x.pc = "exchange"
  BY <1>1 DEF CallerRecord, CallerSteps
<1>3. UNCHANGED << pending, install, pointer, token, vault, link >>
  BY DEF CheckExisting
<1>4. CASE Ends(c)
  BY <1>1, <1>3, <1>4, CallerEnds
<1>5. CASE caller' = [caller EXCEPT ![c] = x]
  <2> HIDE DEF x
  <2>1. CallerStands(x) /\ x.pc \notin HoldingSteps \cup EndingSteps \cup {"unwritten", "destroying"}
    BY <1>2 DEF CallerStands, OfferingSteps, EndingSteps, HoldingSteps
  <2>2. pending' \in [States -> PendingRecord]
    BY <1>3 DEF SlackInvariant, InstallKept
  <2> QED BY <1>1, <1>3, <1>5, <2>1, <2>2, TroubleDisturbs, CallerGoesOn
<1> QED BY <1>4, <1>5 DEF CheckExisting, Step

LEMMA BeginRevocationKeeps ==
  ASSUME BudgetKept, BudgetStep, SlackInvariant, NEW c \in Callers, BeginRevocation(c)
  PROVE  SlackInvariant'
<1> DEFINE x == [pc |-> "uninstall", ref |-> install.ref]
<1>1. /\ caller[c].pc = "idle" /\ caller[c].pc \notin HoldingSteps
      /\ caller' = [caller EXCEPT ![c] = x]
      /\ UNCHANGED << pending, install, pointer, token, vault, link >>
  BY DEF BeginRevocation, HoldingSteps
<1>2. /\ install.ref \in Refs /\ token[install.ref] # "unissued"
      /\ token[install.ref] = "valid" => install.state = "active"
  BY DEF BeginRevocation, SlackInvariant, InstallKept, InstallRecord
<1>3. x \in CallerRecord /\ x.pc = "uninstall" /\ x.ref = install.ref
  BY <1>2 DEF CallerRecord, CallerSteps
<1> HIDE DEF x
<1>4. CallerStands(x) /\ x.pc \notin HoldingSteps \cup EndingSteps \cup {"unwritten", "destroying"}
  BY <1>2, <1>3 DEF CallerStands, OfferingSteps, EndingSteps, HoldingSteps
<1>5. pending' \in [States -> PendingRecord]
  BY <1>1 DEF SlackInvariant, InstallKept
<1> QED BY <1>1, <1>4, <1>5, TroubleDisturbs, CallerGoesOn

LEMMA CallerDiesKeeps ==
  ASSUME BudgetKept, BudgetStep, SlackInvariant, NEW c \in Callers, CallerDies(c)
  PROVE  SlackInvariant'
BY CallerEnds, TroubleDisturbs DEF CallerDies

LEMMA ExchangeKeeps ==
  ASSUME BudgetKept, BudgetStep, SlackInvariant, NEW c \in Callers, Exchange(c)
  PROVE  SlackInvariant'
<1>1. PICK r \in Refs :
        /\ token[r] = "unissued" /\ token' = [token EXCEPT ![r] = "valid"]
        /\ \/ caller' = [caller EXCEPT ![c] = [pc |-> "token", ref |-> r]] /\ UNCHANGED budget
           \/ Ends(c) /\ Spend("trouble")
  BY DEF Exchange
<1>2. PICK x \in {[pc |-> "token", ref |-> r], IdleCaller} :
        /\ caller' = [caller EXCEPT ![c] = x]
        /\ x = IdleCaller => Spend("trouble")
  BY <1>1 DEF Ends, IdleCaller
<1>3. x \in {[pc |-> "token", ref |-> r], IdleCaller}
  OBVIOUS
<1>4. x = IdleCaller => ~Undisturbed'
  BY <1>2, TroubleDisturbs
<1>5. /\ UNCHANGED << pending, install, pointer, vault, link >>
      /\ caller[c].pc = "exchange"
  BY DEF Exchange
<1>6. /\ token' \in [Refs -> {"unissued", "valid", "revoked"}]
      /\ \A q \in Refs : token'[q] = IF q = r THEN "valid" ELSE token[q]
  BY <1>1 DEF SlackInvariant, InstallKept
<1>7. install.ref # r
  BY <1>1, SlackBounds DEF SlackInvariant, InstallKept, InstallRecord
<1>8. InstallKept'
  BY <1>5, <1>6, <1>7 DEF SlackInvariant, InstallKept
<1>9. \A d \in Callers : caller'[d] = IF d = c THEN x ELSE caller[d]
  BY <1>2 DEF SlackInvariant, CallersKept
<1>10. \A d \in Callers : caller[d].pc \in HoldingSteps => Ref(d) \in Refs /\ Ref(d) # r
  BY <1>1, CallerFacts DEF HoldingSteps
<1>11. CallersKept'
  <2>1. CallerStands(x)'
    BY <1>3, <1>5, <1>6, <1>7, IdleCallerStands
       DEF CallerStands, CallerRecord, CallerSteps, OfferingSteps, EndingSteps, IdleCaller
  <2>2. \A d \in Callers \ {c} : CallerStands(caller[d])'
    <3> SUFFICES ASSUME NEW d \in Callers \ {c} PROVE CallerStands(caller[d])'
      OBVIOUS
    <3>1. CallerStands(caller[d]) /\ caller'[d] = caller[d]
      BY <1>9, CallerFacts
    <3>2. caller[d].pc \notin {"idle", "consumed", "exchange"} =>
             caller[d].ref \in Refs /\ caller[d].ref # r
      BY <1>1, <3>1 DEF CallerStands
    <3> QED BY <1>5, <1>6, <3>1, <3>2 DEF CallerStands, OfferingSteps, EndingSteps
  <2>3. \A d \in Callers \ {c} :
           /\ ~(x.pc \in HoldingSteps /\ caller[d].pc \in HoldingSteps /\ x.ref = Ref(d))
           /\ ~(x.pc \in EndingSteps /\ caller[d].pc \in EndingSteps)
    BY <1>3, <1>10 DEF IdleCaller, HoldingSteps, EndingSteps
  <2>4. CallersKept
    BY DEF SlackInvariant
  <2> QED BY <1>2, <2>1, <2>2, <2>3, <2>4, CallerMoves
<1>12. NothingIsLeftBehind'
  <2> SUFFICES ASSUME Undisturbed' PROVE NothingIsLeftBehind'
    BY DEF NothingIsLeftBehind
  <2>1. Undisturbed /\ x = [pc |-> "token", ref |-> r]
    BY <1>3, <1>4, TroubleDisturbs
  <2>2. caller'[c].pc \in HoldingSteps /\ caller'[c].ref = r /\ caller'[c].pc = "token"
    BY <1>9, <2>1 DEF HoldingSteps
  <2>3. caller[c].pc \notin HoldingSteps
    BY <1>5 DEF HoldingSteps
  <2>4. \A q \in Refs : Usable(q)' =>
           \/ install.state = "active" /\ install.ref = q
           \/ \E d \in Callers : caller'[d].pc \in HoldingSteps /\ caller'[d].ref = q
    <3> SUFFICES ASSUME NEW q \in Refs, q # r, Usable(q)'
                 PROVE  \/ install.state = "active" /\ install.ref = q
                        \/ \E d \in Callers : caller'[d].pc \in HoldingSteps /\ caller'[d].ref = q
      BY <2>2
    <3>1. Usable(q)
      BY <1>5, <1>6 DEF Usable
    <3> QED BY <1>9, <2>1, <2>3, <3>1 DEF SlackInvariant, NothingIsLeftBehind, Ref
  <2>5. \A d \in Callers : /\ caller'[d].pc # "unwritten"
                           /\ caller'[d].pc = "destroying" => token'[caller'[d].ref] = "revoked"
    <3> SUFFICES ASSUME NEW d \in Callers, d # c
                 PROVE  /\ caller'[d].pc # "unwritten"
                        /\ caller'[d].pc = "destroying" => token'[caller'[d].ref] = "revoked"
      BY <2>2
    <3> QED BY <1>6, <1>9, <1>10, <2>1 DEF SlackInvariant, NothingIsLeftBehind, Ref, HoldingSteps
  <2> QED BY <1>5, <2>4, <2>5 DEF NothingIsLeftBehind, Usable, Ref
<1> QED BY <1>8, <1>11, <1>12 DEF SlackInvariant

(* A call that changes the token, or the version, it holds.                 *)
LEMMA NothingElseIsLeft ==
  ASSUME SlackInvariant, BudgetKept, BudgetStep, NEW c \in Callers, NEW r \in Refs, Ref(c) = r,
         NEW x, caller' = [caller EXCEPT ![c] = x],
         \A q \in Refs \ {r} : /\ token'[q] = token[q] /\ vault'[q] = vault[q]
                               /\ install.state = "active" /\ install.ref = q =>
                                     install'.state = "active" /\ install'.ref = q,
         token[r] = "revoked" => token'[r] = "revoked",
         Undisturbed' =>
            /\ Usable(r)' => \/ install'.state = "active" /\ install'.ref = r
                             \/ x.pc \in HoldingSteps /\ x.ref = r
            /\ x.pc # "unwritten" /\ (x.pc = "destroying" => x.ref = r /\ token'[r] = "revoked")
  PROVE  NothingIsLeftBehind'
<1> SUFFICES ASSUME Undisturbed' PROVE NothingIsLeftBehind'
  BY DEF NothingIsLeftBehind
<1>1. Undisturbed
  BY TroubleDisturbs
<1>2. \A d \in Callers : caller'[d] = IF d = c THEN x ELSE caller[d]
  BY DEF SlackInvariant, CallersKept
<1>3. \A q \in Refs : Usable(q)' =>
         \/ install'.state = "active" /\ install'.ref = q
         \/ \E d \in Callers : caller'[d].pc \in HoldingSteps /\ caller'[d].ref = q
  <2> SUFFICES ASSUME NEW q \in Refs, q # r, Usable(q)'
               PROVE  \/ install'.state = "active" /\ install'.ref = q
                      \/ \E d \in Callers : caller'[d].pc \in HoldingSteps /\ caller'[d].ref = q
    BY <1>2
  <2>1. Usable(q)
    BY DEF Usable
  <2> QED BY <1>1, <1>2, <2>1 DEF SlackInvariant, NothingIsLeftBehind, Ref
<1>4. \A d \in Callers : /\ caller'[d].pc # "unwritten"
                         /\ caller'[d].pc = "destroying" => token'[caller'[d].ref] = "revoked"
  <2> SUFFICES ASSUME NEW d \in Callers, d # c
               PROVE  /\ caller'[d].pc # "unwritten"
                      /\ caller'[d].pc = "destroying" => token'[caller'[d].ref] = "revoked"
    BY <1>2
  <2>1. caller[d].pc = "destroying" => Ref(d) \in Refs
    BY CallerFacts
  <2> QED BY <1>1, <1>2, <2>1 DEF SlackInvariant, NothingIsLeftBehind, Ref
<1> QED BY <1>3, <1>4 DEF NothingIsLeftBehind, Usable, Ref

(* A call of which the others know nothing but the tokens, the versions and *)
(* the installation it leaves them.                                         *)
LEMMA OthersStand ==
  ASSUME SlackInvariant, NEW c \in Callers, NEW x, caller' = [caller EXCEPT ![c] = x],
         \A d \in Callers \ {c} : CallerStands(caller[d]) => CallerStands(caller[d])',
         CallerStands(x)',
         x.pc \in HoldingSteps => caller[c].pc \in HoldingSteps /\ x.ref = Ref(c),
         x.pc \in EndingSteps =>
            \/ caller[c].pc \in EndingSteps
            \/ \A d \in Callers \ {c} : caller[d].pc \notin EndingSteps
  PROVE  CallersKept'
<1>1. \A d \in Callers \ {c} : CallerStands(caller[d])'
  BY CallerFacts
<1>2. \A d \in Callers \ {c} :
         /\ ~(x.pc \in HoldingSteps /\ caller[d].pc \in HoldingSteps /\ x.ref = Ref(d))
         /\ ~(x.pc \in EndingSteps /\ caller[d].pc \in EndingSteps)
  BY DEF SlackInvariant, CallersKept
<1>3. CallersKept
  BY DEF SlackInvariant
<1> QED BY <1>1, <1>2, <1>3, CallerMoves

LEMMA CallGoesTo ==
  ASSUME SlackInvariant, NEW c \in Callers, NEW pc \in CallerSteps, Step(c, pc)
  PROVE  \E x \in CallerRecord : /\ x.pc = pc /\ x.ref = Ref(c)
                                 /\ caller' = [caller EXCEPT ![c] = x]
<1> DEFINE z == [caller[c] EXCEPT !.pc = pc]
<1>1. z \in CallerRecord /\ z.pc = pc /\ z.ref = Ref(c) /\ caller' = [caller EXCEPT ![c] = z]
  BY CallerFacts DEF CallerRecord, CallerSteps, Step
<1> HIDE DEF z
<1> QED BY <1>1

LEMMA WriteTokenKeeps ==
  ASSUME BudgetKept, BudgetStep, SlackInvariant, NEW c \in Callers, WriteToken(c)
  PROVE  SlackInvariant'
<1>1. PICK r \in Refs : r = Ref(c) /\ r = caller[c].ref /\ token[r] # "unissued"
  BY CallerFacts DEF WriteToken
<1>2. /\ caller[c].pc = "token" /\ token[r] = "valid" /\ install.ref # r
      /\ caller[c] \in CallerRecord
      /\ UNCHANGED << pending, install, pointer, token, link >>
  BY <1>1, CallerFacts DEF WriteToken, CallerStands, OfferingSteps
<1>3. PICK pc \in {"granted", "unwritten"} :
        /\ Step(c, pc)
        /\ vault' \in {vault, [vault EXCEPT ![r] = "enabled"]}
        /\ pc = "unwritten" => Spend("trouble")
  BY <1>1 DEF WriteToken
<1>4. PICK x \in CallerRecord : x.pc = pc /\ x.ref = r /\ caller' = [caller EXCEPT ![c] = x]
  <2>1. pc \in CallerSteps
    BY DEF CallerSteps
  <2>2. \E x \in CallerRecord : x.pc = pc /\ x.ref = Ref(c) /\ caller' = [caller EXCEPT ![c] = x]
    BY <1>3, <2>1, CallGoesTo
  <2> QED BY <1>1, <2>2
<1>5. /\ vault' \in [Refs -> {"absent", "enabled", "destroyed"}]
      /\ \A q \in Refs \ {r} : vault'[q] = vault[q]
  BY <1>3 DEF SlackInvariant, InstallKept
<1>6. InstallKept'
  BY <1>2, <1>5 DEF SlackInvariant, InstallKept
<1>7. CallersKept'
  <2>1. CallerStands(x)'
    BY <1>2, <1>3, <1>4 DEF CallerStands, OfferingSteps, EndingSteps
  <2>2. \A d \in Callers \ {c} : CallerStands(caller[d]) => CallerStands(caller[d])'
    <3> SUFFICES ASSUME NEW d \in Callers \ {c}, CallerStands(caller[d])
                 PROVE  CallerStands(caller[d])'
      OBVIOUS
    <3>1. caller'[d] = caller[d]
      BY <1>4
    <3>2. caller[d].pc = "mark" => caller[d].ref \in Refs \ {r}
      BY <1>2 DEF CallerStands, EndingSteps
    <3> QED BY <1>2, <1>5, <3>1, <3>2 DEF CallerStands
  <2>3. x.pc \notin EndingSteps /\ caller[c].pc \in HoldingSteps
    BY <1>2, <1>3, <1>4 DEF EndingSteps, HoldingSteps
  <2> QED BY <1>1, <1>4, <2>1, <2>2, <2>3, OthersStand
<1>8. NothingIsLeftBehind'
  <2>1. \A q \in Refs \ {r} : /\ token'[q] = token[q] /\ vault'[q] = vault[q]
                              /\ install.state = "active" /\ install.ref = q =>
                                    install'.state = "active" /\ install'.ref = q
    BY <1>2, <1>5
  <2>2. Undisturbed' => x.pc = "granted"
    BY <1>3, <1>4, TroubleDisturbs
  <2>3. Undisturbed' => x.pc \in HoldingSteps /\ x.pc \notin {"unwritten", "destroying"}
    BY <2>2 DEF HoldingSteps
  <2> QED BY <1>1, <1>2, <1>4, <2>1, <2>3, NothingElseIsLeft
<1> QED BY <1>6, <1>7, <1>8 DEF SlackInvariant

(* A token is revoked by a call that holds it, or by a revocation: whoever  *)
(* else relies on its being good does not hold it.                          *)
LEMMA RevokedForOthers ==
  ASSUME SlackInvariant, NEW c \in Callers, NEW r \in Refs, r = Ref(c),
         caller[c].pc \in HoldingSteps \/ install.ref = r,
         UNCHANGED << install, vault >>,
         token' = [token EXCEPT ![r] = "revoked"],
         NEW x, caller' = [caller EXCEPT ![c] = x]
  PROVE  \A d \in Callers \ {c} : CallerStands(caller[d]) => CallerStands(caller[d])'
<1> SUFFICES ASSUME NEW d \in Callers \ {c}, CallerStands(caller[d]) PROVE CallerStands(caller[d])'
  OBVIOUS
<1>1. caller'[d] = caller[d]
  OBVIOUS
<1>2. token \in [Refs -> {"unissued", "valid", "revoked"}]
  BY DEF SlackInvariant, InstallKept
<1>3. caller[d].pc \in OfferingSteps => caller[d].ref \in Refs \ {r}
  BY DEF SlackInvariant, CallersKept, CallerStands, HoldingSteps, OfferingSteps, Ref
<1> QED BY <1>1, <1>2, <1>3 DEF CallerStands, OfferingSteps, EndingSteps

LEMMA RevokedKeepsInstall ==
  ASSUME SlackInvariant, NEW r \in Refs, token[r] # "unissued",
         token' = [token EXCEPT ![r] = "revoked"],
         UNCHANGED << pending, install, pointer, vault, link >>
  PROVE  /\ InstallKept' /\ token'[r] = "revoked"
         /\ \A q \in Refs \ {r} : token'[q] = token[q]
BY DEF SlackInvariant, InstallKept

LEMMA DropTokenKeeps ==
  ASSUME BudgetKept, BudgetStep, SlackInvariant, NEW c \in Callers, DropToken(c)
  PROVE  SlackInvariant'
<1>1. PICK r \in Refs : r = Ref(c) /\ token[r] # "unissued"
  BY CallerFacts DEF DropToken
<1>2. /\ caller[c].pc = "unwritten" /\ caller[c].pc \in HoldingSteps
      /\ caller' = [caller EXCEPT ![c] = IdleCaller]
      /\ UNCHANGED << pending, install, pointer, vault, link >>
  BY DEF DropToken, Ends, HoldingSteps
<1>3. ~Undisturbed'
  BY <1>2, TroubleDisturbs DEF SlackInvariant, NothingIsLeftBehind
<1>4. CASE UNCHANGED token
  BY <1>2, <1>3, <1>4, CallerEnds DEF Ends
<1>5. CASE token' = [token EXCEPT ![r] = "revoked"]
  <2>1. InstallKept'
    BY <1>1, <1>2, <1>5, RevokedKeepsInstall
  <2>2. \A d \in Callers \ {c} : CallerStands(caller[d]) => CallerStands(caller[d])'
    BY <1>1, <1>2, <1>5, RevokedForOthers
  <2>3. CallerStands(IdleCaller)' /\ IdleCaller.pc \notin HoldingSteps \cup EndingSteps
    BY DEF CallerStands, CallerRecord, CallerSteps, IdleCaller, OfferingSteps, EndingSteps,
       HoldingSteps
  <2>4. CallersKept'
    BY <1>2, <2>2, <2>3, OthersStand
  <2>5. NothingIsLeftBehind'
    BY <1>3 DEF NothingIsLeftBehind
  <2> QED BY <2>1, <2>4, <2>5 DEF SlackInvariant
<1> QED BY <1>1, <1>4, <1>5 DEF DropToken

LEMMA RevokeGrantKeeps ==
  ASSUME BudgetKept, BudgetStep, SlackInvariant, NEW c \in Callers, RevokeGrant(c)
  PROVE  SlackInvariant'
<1>1. PICK r \in Refs : r = Ref(c) /\ token[r] # "unissued"
  BY CallerFacts DEF RevokeGrant
<1>2. /\ caller[c].pc = "revoking" /\ caller[c].pc \in HoldingSteps
      /\ UNCHANGED << pending, install, pointer, vault, link >>
      /\ Step(c, "destroying") /\ "destroying" \in CallerSteps
  BY DEF RevokeGrant, HoldingSteps, CallerSteps
<1>3. PICK x \in CallerRecord : /\ x.pc = "destroying" /\ x.ref = r
                                /\ caller' = [caller EXCEPT ![c] = x]
  BY <1>1, <1>2, CallGoesTo
<1>4. x.pc \in HoldingSteps /\ x.pc \notin EndingSteps
  BY <1>3 DEF HoldingSteps, EndingSteps
<1>5. CASE UNCHANGED token /\ Spend("trouble")
  <2>1. CallerStands(x)
    BY <1>1, <1>3 DEF CallerStands, OfferingSteps, EndingSteps
  <2>2. pending' \in [States -> PendingRecord] /\ ~Undisturbed'
    BY <1>2, <1>5, TroubleDisturbs DEF SlackInvariant, InstallKept
  <2> QED BY <1>1, <1>2, <1>3, <1>4, <1>5, <2>1, <2>2, CallerGoesOn
<1>6. CASE token' = [token EXCEPT ![r] = "revoked"]
  <2>1. InstallKept' /\ token'[r] = "revoked" /\ \A q \in Refs \ {r} : token'[q] = token[q]
    BY <1>1, <1>2, <1>6, RevokedKeepsInstall
  <2>2. \A d \in Callers \ {c} : CallerStands(caller[d]) => CallerStands(caller[d])'
    BY <1>1, <1>2, <1>3, <1>6, RevokedForOthers
  <2>3. CallerStands(x)'
    BY <1>3, <2>1 DEF CallerStands, OfferingSteps, EndingSteps
  <2>4. CallersKept'
    BY <1>1, <1>2, <1>3, <1>4, <2>2, <2>3, OthersStand
  <2>5. NothingIsLeftBehind'
    BY <1>1, <1>2, <1>3, <1>4, <2>1, NothingElseIsLeft
  <2> QED BY <2>1, <2>4, <2>5 DEF SlackInvariant
<1> QED BY <1>1, <1>5, <1>6 DEF RevokeGrant

(* A version is destroyed by a call that has offered it, or that found it   *)
(* in the installation it is taking apart.                                  *)
LEMMA DestroyedForOthers ==
  ASSUME SlackInvariant, NEW c \in Callers, NEW r \in Refs, r = Ref(c),
         UNCHANGED << pending, install, pointer, token, link >>,
         vault' = [vault EXCEPT ![r] = "destroyed"],
         NEW x, caller' = [caller EXCEPT ![c] = x]
  PROVE  /\ InstallKept' /\ vault'[r] = "destroyed"
         /\ \A q \in Refs \ {r} : vault'[q] = vault[q]
         /\ \A d \in Callers \ {c} : CallerStands(caller[d]) => CallerStands(caller[d])'
<1>1. /\ InstallKept' /\ vault'[r] = "destroyed"
      /\ \A q \in Refs \ {r} : vault'[q] = vault[q]
  BY DEF SlackInvariant, InstallKept
<1>2. ASSUME NEW d \in Callers \ {c}, CallerStands(caller[d]) PROVE CallerStands(caller[d])'
  <2>1. caller'[d] = caller[d] /\ (caller[d].pc = "mark" => caller[d].ref \in Refs)
    BY <1>2 DEF CallerStands
  <2> QED BY <1>1, <1>2, <2>1 DEF CallerStands
<1> QED BY <1>1, <1>2

LEMMA DestroyGrantKeeps ==
  ASSUME BudgetKept, BudgetStep, SlackInvariant, NEW c \in Callers, DestroyGrant(c)
  PROVE  SlackInvariant'
<1>1. PICK r \in Refs : r = Ref(c) /\ token[r] # "unissued"
  BY CallerFacts DEF DestroyGrant
<1>2. /\ caller[c].pc = "destroying" /\ Ends(c)
      /\ caller' = [caller EXCEPT ![c] = IdleCaller]
      /\ UNCHANGED << pending, install, pointer, token, link >>
  BY DEF DestroyGrant, Ends
<1>3. CASE UNCHANGED vault /\ Spend("trouble")
  BY <1>2, <1>3, TroubleDisturbs, CallerEnds
<1>4. CASE vault' = [vault EXCEPT ![r] = "destroyed"]
  <2>1. /\ InstallKept' /\ vault'[r] = "destroyed"
        /\ \A q \in Refs \ {r} : vault'[q] = vault[q]
        /\ \A d \in Callers \ {c} : CallerStands(caller[d]) => CallerStands(caller[d])'
    BY <1>1, <1>2, <1>4, DestroyedForOthers
  <2>2. /\ CallerStands(IdleCaller)'
        /\ IdleCaller.pc \notin HoldingSteps \cup EndingSteps \cup {"unwritten", "destroying"}
    BY DEF CallerStands, CallerRecord, CallerSteps, IdleCaller, OfferingSteps, EndingSteps,
       HoldingSteps
  <2>3. CallersKept'
    BY <1>2, <2>1, <2>2, OthersStand
  <2>4. Undisturbed' => ~Usable(r)'
    BY <1>1, <1>2, <2>1, TroubleDisturbs DEF SlackInvariant, NothingIsLeftBehind, Usable
  <2>5. NothingIsLeftBehind'
    BY <1>1, <1>2, <2>1, <2>2, <2>4, NothingElseIsLeft
  <2> QED BY <2>1, <2>3, <2>5 DEF SlackInvariant
<1> QED BY <1>1, <1>3, <1>4 DEF DestroyGrant

(* The grant is refused, or the save when there is an installation already. *)
LEMMA RefusedKeeps ==
  ASSUME BudgetKept, BudgetStep, SlackInvariant, NEW c \in Callers,
         RefuseGrant(c) \/ (SaveInstall(c) /\ ~Replaceable)
  PROVE  SlackInvariant'
<1>1. /\ caller[c].pc = "granted" /\ caller[c].pc \in HoldingSteps
      /\ UNCHANGED << pending, install, pointer, token, vault, link >>
      /\ Step(c, "revoking") /\ "revoking" \in CallerSteps
  BY DEF RefuseGrant, SaveInstall, HoldingSteps, CallerSteps
<1>2. PICK x \in CallerRecord : /\ x.pc = "revoking" /\ x.ref = Ref(c)
                                /\ caller' = [caller EXCEPT ![c] = x]
  BY <1>1, CallGoesTo
<1>3. CallerStands(x) /\ x.pc \in HoldingSteps /\ x.pc \notin EndingSteps
  BY <1>1, <1>2, CallerFacts DEF CallerStands, OfferingSteps, EndingSteps, HoldingSteps
<1>4. pending' \in [States -> PendingRecord]
  BY <1>1 DEF SlackInvariant, InstallKept
<1> QED BY <1>1, <1>2, <1>3, <1>4, TroubleDisturbs, CallerGoesOn

LEMMA SaveInstallKeeps ==
  ASSUME BudgetKept, BudgetStep, SlackInvariant, NEW c \in Callers, SaveInstall(c), Replaceable
  PROVE  SlackInvariant'
<1>1. PICK r \in Refs : r = Ref(c) /\ r = caller[c].ref /\ token[r] # "unissued"
  BY CallerFacts DEF SaveInstall
<1>2. /\ caller[c].pc = "granted" /\ caller[c].pc \in HoldingSteps
      /\ token[r] = "valid" /\ install.state # "active"
      /\ UNCHANGED << pending, token, vault, link >>
      /\ install' = [state |-> "active", ref |-> r, version |-> install.version + 1]
      /\ pointer' = TRUE
  BY <1>1, CallerFacts
     DEF SaveInstall, Replaceable, Saved, CallerStands, OfferingSteps, HoldingSteps
<1>3. PICK x \in CallerRecord :
        /\ caller' = [caller EXCEPT ![c] = x]
        /\ x = IdleCaller \/ (x.pc = "revoking" /\ x.ref = r)
  <2>1. CASE Ends(c)
    BY <2>1, IdleCallerStands DEF Ends, CallerStands
  <2>2. CASE Step(c, "revoking")
    <3>1. "revoking" \in CallerSteps
      BY DEF CallerSteps
    <3>2. \E x \in CallerRecord : /\ x.pc = "revoking" /\ x.ref = Ref(c)
                                    /\ caller' = [caller EXCEPT ![c] = x]
      BY <2>2, <3>1, CallGoesTo
    <3> QED BY <1>1, <3>2
  <2> QED BY <2>1, <2>2 DEF SaveInstall
<1>4. /\ x.pc \notin EndingSteps \cup {"unwritten", "destroying"}
      /\ x.pc \in HoldingSteps => x.ref = r
  <2>1. x.pc = "idle" \/ (x.pc = "revoking" /\ x.ref = r)
    BY <1>3 DEF IdleCaller
  <2> QED BY <2>1 DEF EndingSteps, HoldingSteps
<1>5. InstallKept'
  <2>1. install \in InstallRecord
    BY DEF SlackInvariant, InstallKept
  <2>2. install'.state = "active" /\ install'.ref = r /\ install' \in InstallRecord
    BY <1>2, <2>1 DEF InstallRecord
  <2> QED BY <1>1, <1>2, <2>2 DEF SlackInvariant, InstallKept
<1>6. CallersKept'
  <2>1. CallerStands(x)'
    BY <1>1, <1>2, <1>3 DEF CallerStands, OfferingSteps, EndingSteps, IdleCaller
  <2>2. \A d \in Callers \ {c} : CallerStands(caller[d]) => CallerStands(caller[d])'
    <3> SUFFICES ASSUME NEW d \in Callers \ {c}, CallerStands(caller[d])
                 PROVE  CallerStands(caller[d])'
      OBVIOUS
    <3>1. caller'[d] = caller[d]
      BY <1>3
    <3>2. caller[d].pc \in OfferingSteps => caller[d].ref # r
      BY <1>1, <1>2 DEF SlackInvariant, CallersKept, HoldingSteps, OfferingSteps, Ref
    <3> QED BY <1>2, <3>1, <3>2 DEF CallerStands
  <2> QED BY <1>1, <1>2, <1>3, <1>4, <2>1, <2>2, OthersStand
<1>7. NothingIsLeftBehind'
  BY <1>1, <1>2, <1>3, <1>4, NothingElseIsLeft
<1> QED BY <1>5, <1>6, <1>7 DEF SlackInvariant

LEMMA UninstallKeeps ==
  ASSUME BudgetKept, BudgetStep, SlackInvariant, NEW c \in Callers, Uninstall(c)
  PROVE  SlackInvariant'
<1>1. PICK r \in Refs : r = Ref(c) /\ r = caller[c].ref /\ token[r] # "unissued"
  BY CallerFacts DEF Uninstall
<1>2. /\ caller[c].pc = "uninstall" /\ caller[c].pc \notin HoldingSteps
      /\ UNCHANGED << pending, install, pointer, vault, link >>
  BY DEF Uninstall, HoldingSteps
<1>3. CASE vault[r] = "enabled" /\ token[r] = "valid"
  <2>1. /\ install.state = "active" /\ install.ref = r
        /\ token' = [token EXCEPT ![r] = "revoked"]
    BY <1>1, <1>2, <1>3, CallerFacts DEF Uninstall, CallerStands
  <2>2. PICK x \in CallerRecord :
          /\ caller' = [caller EXCEPT ![c] = x]
          /\ x = IdleCaller \/ (x.pc = "destroy" /\ x.ref = r)
    <3>1. CASE Ends(c)
      BY <3>1, IdleCallerStands DEF Ends, CallerStands
    <3>2. CASE Step(c, "destroy")
      <4>1. "destroy" \in CallerSteps
        BY DEF CallerSteps
      <4>2. \E x \in CallerRecord : /\ x.pc = "destroy" /\ x.ref = Ref(c)
                                      /\ caller' = [caller EXCEPT ![c] = x]
        BY <3>2, <4>1, CallGoesTo
      <4> QED BY <1>1, <4>2
    <3> QED BY <1>1, <1>3, <3>1, <3>2 DEF Uninstall
  <2>3. x.pc \notin HoldingSteps \cup {"unwritten", "destroying"}
    BY <2>2 DEF HoldingSteps, IdleCaller
  <2>4. InstallKept' /\ token'[r] = "revoked" /\ \A q \in Refs \ {r} : token'[q] = token[q]
    BY <1>1, <1>2, <2>1, RevokedKeepsInstall
  <2>5. CallersKept'
    <3>1. CallerStands(x)'
      BY <1>2, <2>1, <2>2, <2>4 DEF CallerStands, OfferingSteps, IdleCaller, EndingSteps
    <3>2. \A d \in Callers \ {c} : CallerStands(caller[d]) => CallerStands(caller[d])'
      BY <1>1, <1>2, <2>1, <2>2, RevokedForOthers
    <3>3. \A d \in Callers \ {c} : caller[d].pc \notin EndingSteps
      BY <1>3, <2>1, CallerFacts DEF CallerStands
    <3> QED BY <2>2, <2>3, <3>1, <3>2, <3>3, OthersStand
  <2>6. NothingIsLeftBehind'
    BY <1>1, <1>2, <2>1, <2>2, <2>3, <2>4, NothingElseIsLeft
  <2> QED BY <2>4, <2>5, <2>6 DEF SlackInvariant
<1>4. CASE ~(vault[r] = "enabled" /\ token[r] = "valid")
  <2>1. Ends(c) /\ UNCHANGED token
    BY <1>1, <1>4 DEF Uninstall
  <2> QED BY <1>2, <2>1, CallerEnds
<1> QED BY <1>3, <1>4

LEMMA DestroyCredentialKeeps ==
  ASSUME BudgetKept, BudgetStep, SlackInvariant, NEW c \in Callers, DestroyCredential(c)
  PROVE  SlackInvariant'
<1>1. PICK r \in Refs : r = Ref(c) /\ r = caller[c].ref /\ token[r] # "unissued"
  BY CallerFacts DEF DestroyCredential
<1>2. /\ caller[c].pc = "destroy" /\ caller[c].pc \in EndingSteps
      /\ UNCHANGED << pending, install, pointer, token, link >>
      /\ vault' = [vault EXCEPT ![r] = "destroyed"]
  BY <1>1 DEF DestroyCredential, EndingSteps
<1>3. install.state = "active" /\ install.ref = r /\ token[r] = "revoked"
  BY <1>1, <1>2, CallerFacts DEF CallerStands
<1>4. PICK x \in CallerRecord :
        /\ caller' = [caller EXCEPT ![c] = x]
        /\ x = IdleCaller \/ (x.pc = "mark" /\ x.ref = r)
  <2>1. CASE Ends(c)
    BY <2>1, IdleCallerStands DEF Ends, CallerStands
  <2>2. CASE Step(c, "mark")
    <3>1. "mark" \in CallerSteps
      BY DEF CallerSteps
    <3>2. \E x \in CallerRecord : /\ x.pc = "mark" /\ x.ref = Ref(c)
                                    /\ caller' = [caller EXCEPT ![c] = x]
      BY <2>2, <3>1, CallGoesTo
    <3> QED BY <1>1, <3>2
  <2> QED BY <2>1, <2>2 DEF DestroyCredential
<1>5. x.pc \notin HoldingSteps \cup {"unwritten", "destroying"}
  BY <1>4 DEF HoldingSteps, IdleCaller
<1>6. /\ InstallKept' /\ vault'[r] = "destroyed"
      /\ \A q \in Refs \ {r} : vault'[q] = vault[q]
      /\ \A d \in Callers \ {c} : CallerStands(caller[d]) => CallerStands(caller[d])'
  BY <1>1, <1>2, <1>4, DestroyedForOthers
<1>7. CallersKept'
  <2>1. CallerStands(x)'
    BY <1>2, <1>3, <1>4, <1>6 DEF CallerStands, OfferingSteps, IdleCaller, EndingSteps
  <2> QED BY <1>2, <1>4, <1>5, <1>6, <2>1, OthersStand
<1>8. NothingIsLeftBehind'
  BY <1>1, <1>2, <1>3, <1>4, <1>5, <1>6, NothingElseIsLeft
<1> QED BY <1>6, <1>7, <1>8 DEF SlackInvariant

LEMMA MarkRevokedKeeps ==
  ASSUME BudgetKept, BudgetStep, SlackInvariant, NEW c \in Callers, MarkRevoked(c)
  PROVE  SlackInvariant'
<1>1. PICK r \in Refs : r = Ref(c) /\ r = caller[c].ref /\ token[r] # "unissued"
  BY CallerFacts DEF MarkRevoked
<1>2. /\ caller[c].pc = "mark" /\ caller[c].pc \in EndingSteps
      /\ UNCHANGED << pending, token, vault, link >>
      /\ caller' = [caller EXCEPT ![c] = IdleCaller]
      /\ install' = [install EXCEPT !.state = "revoked", !.version = @ + 1]
      /\ pointer' = FALSE
  BY DEF MarkRevoked, Ends, EndingSteps
<1>3. /\ install.state = "active" /\ install.ref = r /\ token[r] = "revoked"
      /\ vault[r] = "destroyed"
  BY <1>1, <1>2, CallerFacts DEF CallerStands
<1>4. /\ install \in InstallRecord /\ install' \in InstallRecord
      /\ install'.state = "revoked" /\ install'.ref = r
  <2>1. install \in InstallRecord
    BY DEF SlackInvariant, InstallKept
  <2>2. /\ install = [state |-> install.state, ref |-> install.ref, version |-> install.version]
        /\ install.version + 1 \in Nat
    BY <2>1 DEF InstallRecord
  <2>3. install' = [state |-> "revoked", ref |-> install.ref, version |-> install.version + 1]
    BY <1>2, <2>2
  <2> QED BY <1>3, <2>1, <2>2, <2>3 DEF InstallRecord
<1>5. InstallKept'
  BY <1>1, <1>2, <1>3, <1>4 DEF SlackInvariant, InstallKept
<1>6. CallersKept'
  <2>1. /\ CallerStands(IdleCaller)'
        /\ IdleCaller.pc \notin HoldingSteps \cup EndingSteps
    BY DEF CallerStands, CallerRecord, CallerSteps, IdleCaller, OfferingSteps, EndingSteps,
       HoldingSteps
  <2>2. \A d \in Callers \ {c} : CallerStands(caller[d]) => CallerStands(caller[d])'
    <3> SUFFICES ASSUME NEW d \in Callers \ {c}, CallerStands(caller[d])
                 PROVE  CallerStands(caller[d])'
      OBVIOUS
    <3>1. caller'[d] = caller[d] /\ caller[d].pc \notin EndingSteps
      BY <1>2 DEF SlackInvariant, CallersKept
    <3> QED BY <1>2, <1>3, <1>4, <3>1 DEF CallerStands
  <2> QED BY <1>2, <2>1, <2>2, OthersStand
<1>7. NothingIsLeftBehind'
  <2>1. IdleCaller.pc \notin {"unwritten", "destroying"} /\ ~Usable(r)'
    BY <1>2, <1>3 DEF IdleCaller, Usable
  <2> QED BY <1>1, <1>2, <1>3, <2>1, NothingElseIsLeft
<1> QED BY <1>5, <1>6, <1>7 DEF SlackInvariant

LEMMA SlackStepKeeps ==
  ASSUME DirectoryInvariant, SlackInvariant, SlackNext PROVE SlackInvariant'
<1>1. BudgetKept
  BY DEF DirectoryInvariant
<1>2. ASSUME NEW c \in Callers, CallerStep(c) PROVE SlackInvariant'
  <2>1. BudgetStep
    BY <1>2, CallerSpends
  <2> QED BY <1>1, <1>2, <2>1, ConsumeStateKeeps, CheckExistingKeeps, ExchangeKeeps, WriteTokenKeeps,
           DropTokenKeeps, RefusedKeeps, SaveInstallKeeps, RevokeGrantKeeps, DestroyGrantKeeps,
           BeginRevocationKeeps, UninstallKeeps, DestroyCredentialKeeps, MarkRevokedKeeps,
           CallerDiesKeeps DEF CallerStep
<1> QED BY <1>2, InstallRests, RevokeLinkKeeps DEF SlackNext

(* Every step is a step of a call, or leaves the installation alone.        *)
LEMMA DirectoryStepSpends == ASSUME DirectoryNext PROVE BudgetStep
<1>1. ASSUME NEW j \in Jobs, SyncStep(j) PROVE BudgetStep
  <2>1. CASE Acquire(j) \/ CollectUsers(j) \/ CollectMembers(j) \/ ReadUsers(j)
    BY <2>1, KindsNamed DEF Acquire, CollectUsers, CollectMembers, ReadUsers, BudgetStep
  <2>2. CASE ApplySnapshot(j) \/ ConfirmPersisted(j) \/ Release(j)
    BY <2>2, KindsNamed DEF ApplySnapshot, ConfirmPersisted, Release, BudgetStep
  <2>3. CASE FetchFails(j) \/ JobDies(j)
    BY <2>3, KindsNamed DEF FetchFails, JobDies, BudgetStep
  <2> QED BY <1>1, <2>1, <2>2, <2>3 DEF SyncStep
<1>2. Tick => BudgetStep
  BY KindsNamed DEF Tick, BudgetStep
<1>3. ASSUME NEW p \in People, Move(p) PROVE BudgetStep
  BY <1>3, KindsNamed DEF Move, BudgetStep
<1> QED BY <1>1, <1>2, <1>3 DEF DirectoryNext

LEMMA StepsOfTheCalls ==
  ASSUME [Next]_vars
  PROVE  SlackNext \/ (BudgetStep /\ UNCHANGED slackVars)
BY DirectoryStepSpends, CostStepSpends, AccessStepSpends, ActivityStepSpends
DEF Next, vars, directoryVars, BudgetStep

LEMMA SlackInitially == ASSUME SlackInit PROVE SlackInvariant
<1>1. \A c \in Callers : caller[c] = IdleCaller
  BY DEF SlackInit
<1>2. InstallKept
  <2>1. NotIssued \in PendingRecord /\ NoInstall \in InstallRecord
    BY DirectoryBounds DEF NotIssued, NoInstall, PendingRecord, InstallRecord
  <2>2. pending \in [States -> PendingRecord]
    BY <2>1 DEF SlackInit
  <2> QED BY <2>1, <2>2 DEF SlackInit, InstallKept, NoInstall
<1>3. CallersKept
  BY <1>1, IdleCallerStands DEF SlackInit, CallersKept, CallerStands, HoldingSteps, EndingSteps
<1>4. NothingIsLeftBehind
  BY <1>1 DEF NothingIsLeftBehind, SlackInit, Usable, IdleCaller
<1> QED BY <1>2, <1>3, <1>4 DEF SlackInvariant

LEMMA SlackInvariantHolds == Spec => [](DirectoryInvariant /\ SlackInvariant)
<1>1. Init => SlackInvariant
  BY SlackInitially DEF Init
<1>2. DirectoryInvariant /\ SlackInvariant /\ [Next]_vars => SlackInvariant'
  <2> SUFFICES ASSUME DirectoryInvariant, SlackInvariant, [Next]_vars PROVE SlackInvariant'
    OBVIOUS
  <2>1. CASE SlackNext
    BY <2>1, SlackStepKeeps
  <2>2. CASE BudgetStep /\ UNCHANGED slackVars
    <3>1. /\ BudgetKept /\ UNCHANGED << install, pointer, token, vault, caller >>
          /\ pending' \in [States -> PendingRecord] /\ link' \subseteq People
      BY <2>2 DEF slackVars, DirectoryInvariant, SlackInvariant, InstallKept
    <3> QED BY <2>2, <3>1, CallsRest
  <2> QED BY <2>1, <2>2, StepsOfTheCalls
<1> QED BY <1>1, <1>2, DirectoryInvariantHolds, PTL DEF Spec

(***************************************************************************)
(* The credential follows the installation for any number of calls,        *)
(* tokens and versions, with no transaction between Slack, Secret Manager  *)
(* and the store (complete_installation, revoke_installation).             *)
(***************************************************************************)
THEOREM CredentialsAreKept == Spec => []CredentialFollowsInstall
<1>1. SlackInvariant => CredentialFollowsInstall
  <2> SUFFICES ASSUME SlackInvariant, Quiet, Undisturbed, NEW r \in Refs,
                      token[r] = "valid" \/ vault[r] = "enabled"
               PROVE  install.state = "active" /\ install.ref = r
    BY DEF CredentialFollowsInstall, SlackInvariant, InstallKept
  <2> QED BY DEF Quiet, SlackInvariant, NothingIsLeftBehind, Usable, HoldingSteps
<1> QED BY <1>1, SlackInvariantHolds, PTL

LEMMA SlackIsTyped == ASSUME SlackInvariant PROVE SlackTypeOK
BY DEF SlackInvariant, InstallKept, SlackTypeOK

--------------------------------------------------------------------------------
(* Counting the events of a cell.                                           *)
LEMMA CountIsNatural ==
  ASSUME NEW xs, IsFiniteSet(xs), NEW c
  PROVE  Count(c, xs) \in Nat
<1>1. IsFiniteSet({x \in xs : InCell(x, c)})
  BY FS_Subset
<1> QED BY <1>1, FS_CardinalityType DEF Count

LEMMA CountGrows ==
  ASSUME NEW xs, NEW ys, IsFiniteSet(ys), NEW c, \A x \in xs : InCell(x, c) => x \in ys
  PROVE  Count(c, xs) \in Nat /\ Count(c, ys) \in Nat /\ Count(c, xs) <= Count(c, ys)
<1> DEFINE X == {x \in xs : InCell(x, c)}
           Y == {x \in ys : InCell(x, c)}
<1>1. X \subseteq Y /\ Y \subseteq ys
  OBVIOUS
<1> HIDE DEF X, Y
<1>2. IsFiniteSet(Y)
  BY <1>1, FS_Subset
<1>3. IsFiniteSet(X) /\ Cardinality(X) <= Cardinality(Y)
  BY <1>1, <1>2, FS_Subset
<1>4. Cardinality(X) \in Nat /\ Cardinality(Y) \in Nat
  BY <1>2, <1>3, FS_CardinalityType
<1> QED BY <1>3, <1>4 DEF Count, X, Y

LEMMA DaysBegin ==
  ASSUME NEW t \in Nat PROVE t \div DayLength \in Nat /\ (t \div DayLength) * DayLength <= t
BY ActivityBounds

LEMMA EventFacts ==
  ASSUME EventsKept, NEW y \in events
  PROVE  y.at \in Nat /\ y.at <= now /\ DayOf(y) \in Nat /\ DayOf(y) * DayLength <= y.at
<1>1. y.at \in Nat /\ y.at <= now
  BY DirectoryBounds DEF EventsKept, ActivityEvent
<1> QED BY <1>1, DaysBegin DEF DayOf

LEMMA CellFacts ==
  ASSUME NEW c \in Cells PROVE c[1] \in Nat /\ c[1] * DayLength \in Nat
<1>1. PICK t \in 0..MaxTime : c[1] = t \div DayLength
  BY DEF Cells
<1>2. t \in Nat /\ c[1] \in Nat
  BY <1>1, DaysBegin, DirectoryBounds
<1> QED BY <1>2, ActivityBounds

(* An expiry takes nothing from a day it leaves whole.                      *)
LEMMA ExpiryLeavesDays ==
  ASSUME EventsKept, NEW t \in Nat, NEW gone, \A y \in gone : y.at < t - Retention,
         NEW c \in Cells, WholeAt(c, t)
  PROVE  Count(c, events \ gone) = Count(c, events)
<1>1. ASSUME NEW y \in events, y \in gone PROVE ~InCell(y, c)
  <2>1. y.at \in Nat /\ DayOf(y) \in Nat /\ DayOf(y) * DayLength <= y.at
    BY EventFacts
  <2>2. c[1] * DayLength >= t - Retention /\ c[1] * DayLength \in Nat
    BY CellFacts DEF WholeAt
  <2>3. y.at < t - Retention
    BY <1>1
  <2>4. DayOf(y) # c[1]
    BY <2>1, <2>2, <2>3, ActivityBounds
  <2> QED BY <2>4 DEF InCell
<1>2. {x \in events \ gone : InCell(x, c)} = {x \in events : InCell(x, c)}
  BY <1>1
<1> QED BY <1>2 DEF Count

(* What is stored for nobody is nothing.                                    *)
LEMMA NothingSpent ==
  ASSUME NEW p, \A e \in Entries : EntryOwner[e] # p
  PROVE  Spent(p) = 0
<1>1. {e \in Entries : EntryOwner[e] = p} = {}
  OBVIOUS
<1>2. \A f : SumFunctionOnSet(f, {}) = 0
  BY DEF SumFunctionOnSet, FoldFunctionOnSet, MapThenFoldSet
<1> QED BY <1>1, <1>2 DEF Spent

LEMMA PausedOwners ==
  ASSUME NEW p \in People, Pause(p) PROVE p \in Owners
<1>1. ASSUME \A e \in Entries : EntryOwner[e] # p PROVE FALSE
  BY <1>1, NothingSpent, CostBounds DEF Pause
<1>2. p # Shared
  BY CostBounds
<1> QED BY <1>1, <1>2 DEF Owners

LEMMA LimitsTyped ==
  /\ Retention \in Nat /\ TickDelay \in Nat /\ TaskTimeout \in Nat /\ TaskTimeout >= 1
  /\ LeaseDuration \in Nat /\ TaskTimeout <= LeaseDuration /\ MaxTime \in Nat /\ MaxBill \in Nat
  /\ DayLength \in Nat
BY ActivityBounds, CostBounds, DirectoryBounds

(* A resource only ever stops, as far as the runs can see.                  *)
ResourcesOnlyStop ==
    \A r \in Resources : /\ resource'[r].on => resource[r].on
                         /\ Stopped(r) => Stopped(r)'

(* A run whose time is over relies on nothing any more.                     *)
LEMMA DeadRunStands ==
  ASSUME NEW i \in Runs, NEW x, IngestStands(i, x), ~(now < x.deadline),
         now \in Nat, now' \in Nat, now <= now', ResourcesOnlyStop
  PROVE  IngestStands(i, x)'
<1>1. x.now \in Nat /\ x.deadline \in Nat /\ x.now <= now' /\ ~(now' < x.deadline)
  BY DEF IngestStands
<1>2. x.pc \in EnforcingSteps =>
         /\ DOMAIN x.seen \subseteq Resources
         /\ x.off # NoResource => x.off \in DOMAIN x.seen /\ ~resource'[x.off].on
  BY DEF IngestStands, ResourcesOnlyStop
<1>3. /\ IsRun(x) /\ x.pc \in RunSteps
      /\ x.pc = "idle" => x.deadline = 0
      /\ x.pc = "storing" =>
            DOMAIN x.rows \subseteq Entries /\ \A e \in DOMAIN x.rows : x.rows[e] \in 0..MaxBill
      /\ x.pc = "enforcing" => DOMAIN x.seen = {} /\ x.off = NoResource
      /\ x.pc \in {"expiring", "counting"} => \A y \in x.known : y.at < x.now - Retention
  BY DEF IngestStands
<1> QED BY <1>1, <1>2, <1>3 DEF IngestStands

(* A run that still may act relies on the lease, the entries, the resources *)
(* and the totals.                                                          *)
LEMMA WaitingRunStands ==
  ASSUME NEW i \in Runs, NEW x, IngestStands(i, x),
         now \in Nat, now' \in Nat, now <= now', ResourcesOnlyStop,
         UNCHANGED << usage, costLease, events, totals >>
  PROVE  IngestStands(i, x)'
<1>1. x.now \in Nat /\ x.deadline \in Nat /\ x.now <= now' /\ (now' < x.deadline => now < x.deadline)
  BY DEF IngestStands
<1>2. x.pc \in EnforcingSteps =>
         /\ DOMAIN x.seen \subseteq Resources
         /\ x.off # NoResource => x.off \in DOMAIN x.seen /\ ~resource'[x.off].on
  BY DEF IngestStands, ResourcesOnlyStop
<1>3. /\ IsRun(x) /\ x.pc \in RunSteps
      /\ x.pc = "idle" => x.deadline = 0
      /\ x.pc = "storing" =>
            DOMAIN x.rows \subseteq Entries /\ \A e \in DOMAIN x.rows : x.rows[e] \in 0..MaxBill
      /\ x.pc = "enforcing" => DOMAIN x.seen = {} /\ x.off = NoResource
      /\ x.pc \in {"expiring", "counting"} => \A y \in x.known : y.at < x.now - Retention
  BY DEF IngestStands
<1>4. EmergencyStop' = EmergencyStop /\ \A p : Pause(p)' = Pause(p)
  BY DEF EmergencyStop, OrgSpent, Pause, Spent, Cost
<1>5. StopsSoFar(x) => StopsSoFar(x)'
  BY <1>4 DEF StopsSoFar, ResourcesOnlyStop
<1>6. TotalsHold(x.now)' = TotalsHold(x.now) /\ TotalsSoFar(x)' = TotalsSoFar(x)
  BY DEF TotalsHold, TotalsSoFar, Certain
<1>7. now' < x.deadline =>
          /\ costLease'.owner = i /\ x.deadline <= costLease'.until
          /\ TotalsHold(x.now)'
          /\ x.pc \in EnforcingSteps => StopsSoFar(x)'
          /\ x.pc = "rolling" => TotalsSoFar(x)'
  BY <1>1, <1>5, <1>6 DEF IngestStands
<1> QED BY <1>1, <1>2, <1>3, <1>7 DEF IngestStands

LEMMA IngestMoves ==
  ASSUME IngestKept, NEW i \in Runs, NEW x, ingest' = [ingest EXCEPT ![i] = x],
         IngestStands(i, x)',
         \A j \in Runs \ {i} : IngestStands(j, ingest[j]) => IngestStands(j, ingest[j])'
  PROVE  IngestKept'
<1>1. \A j \in Runs : ingest'[j] = IF j = i THEN x ELSE ingest[j]
  BY DEF IngestKept
<1>2. ingest' = [j \in Runs |-> ingest'[j]]
  BY DEF IngestKept
<1>3. \A j \in Runs : IngestStands(j, ingest[j])'
  <2> SUFFICES ASSUME NEW j \in Runs PROVE IngestStands(j, ingest[j])'
    OBVIOUS
  <2>1. CASE j = i
    <3>1. ingest'[j] = x /\ j = i
      BY <1>1, <2>1
    <3> QED BY <3>1
  <2>2. CASE j # i
    BY <2>2 DEF IngestKept
  <2> QED BY <2>1, <2>2
<1> QED BY <1>2, <1>3 DEF IngestKept

(* Only one run at a time may act.                                          *)
LEMMA OneRunActs ==
  ASSUME IngestKept, NEW i \in Runs, NEW j \in Runs, j # i, now < ingest[i].deadline
  PROVE  ~(now < ingest[j].deadline)
BY DEF IngestKept, IngestStands

(* While a run acts the others stand whatever it does.                      *)
LEMMA OthersWait ==
  ASSUME IngestKept, NEW i \in Runs, \A j \in Runs \ {i} : ~(now < ingest[j].deadline),
         now \in Nat, UNCHANGED now, ResourcesOnlyStop,
         NEW x, ingest' = [ingest EXCEPT ![i] = x]
  PROVE  \A j \in Runs \ {i} : IngestStands(j, ingest[j]) => IngestStands(j, ingest[j])'
<1> SUFFICES ASSUME NEW j \in Runs \ {i}, IngestStands(j, ingest[j]) PROVE IngestStands(j, ingest[j])'
  OBVIOUS
<1>1. PICK y : y = ingest[j]
  OBVIOUS
<1>2. ingest'[j] = y
  BY <1>1
<1>3. IngestStands(j, y)'
  BY <1>1, DeadRunStands
<1> QED BY <1>2, <1>3

LEMMA IdleRunStands == ASSUME NEW i \in Runs, now \in Nat PROVE IngestStands(i, IdleRun)
BY DEF IngestStands, IsRun, IdleRun, RunSteps, EnforcingSteps

(* Nothing happens to the runs, but time may pass and an app's record move. *)
LEMMA CostsRest ==
  ASSUME CostInvariant, now \in Nat, now' \in Nat, now <= now',
         UNCHANGED << bill, usage, guard, costLease, ingest, events, totals >>,
         \/ UNCHANGED resource
         \/ resource' = [resource EXCEPT ![App].version = @ + 1]
  PROVE  CostInvariant'
<1>1. /\ resource' \in [Resources -> [state : {"active", "paused"}, version : Nat, on : BOOLEAN]]
      /\ \A r \in Resources : /\ resource'[r].state = resource[r].state
                              /\ resource'[r].on = resource[r].on
  <2>1. resource \in [Resources -> [state : {"active", "paused"}, version : Nat, on : BOOLEAN]]
    BY DEF CostInvariant, BillKept
  <2>2. App \in Resources
    BY AccessBounds
  <2> QED BY <2>1, <2>2
<1>2. ResourcesOnlyStop
  BY <1>1 DEF ResourcesOnlyStop, Stopped
<1>3. BillKept'
  <2>1. guard' \in GuardRecord /\ guard'.at <= now'
    <3>1. guard \in GuardRecord /\ guard.at <= now /\ guard.at \in Nat
      BY LimitsTyped DEF CostInvariant, BillKept, GuardRecord
    <3> QED BY <3>1
  <2>2. \A r \in Resources : resource'[r].state = "paused" => Stopped(r)'
    BY <1>1 DEF CostInvariant, BillKept, Stopped
  <2>3. /\ bill' \in [Entries -> 0..MaxBill] /\ usage' \in [Entries -> UsageRecord]
        /\ costLease' \in [owner : Runs \cup {Free}, until : Nat]
    BY DEF CostInvariant, BillKept
  <2> QED BY <1>1, <2>1, <2>2, <2>3 DEF BillKept
<1>4. EventsKept'
  <2>1. \A y \in events : y.at <= now'
    BY EventFacts DEF CostInvariant
  <2> QED BY <2>1 DEF CostInvariant, EventsKept
<1>5. TotalsHold(now)'
  <2> SUFFICES ASSUME NEW c \in Cells, WholeAt(c, now') PROVE totals[c] <= Count(c, events)
    BY DEF TotalsHold
  <2>1. WholeAt(c, now)
    BY CellFacts, LimitsTyped DEF WholeAt
  <2> QED BY <2>1 DEF CostInvariant, TotalsHold
<1>6. IngestKept'
  <2> SUFFICES ASSUME NEW i \in Runs PROVE IngestStands(i, ingest[i])'
    BY DEF CostInvariant, IngestKept
  <2>1. PICK x : x = ingest[i]
    OBVIOUS
  <2>2. IngestStands(i, x)'
    BY <1>2, <2>1, WaitingRunStands DEF CostInvariant, IngestKept
  <2> QED BY <2>1, <2>2
<1> QED BY <1>3, <1>4, <1>5, <1>6 DEF CostInvariant

LEMMA RunFailsKeeps ==
  ASSUME IngestKept, NEW i \in Runs, RunFails(i), now \in Nat, UNCHANGED now, ResourcesOnlyStop,
         now < ingest[i].deadline \/ UNCHANGED << usage, events, totals >>
  PROVE  IngestKept'
<1>1. ingest' = [ingest EXCEPT ![i] = IdleRun]
  BY DEF RunFails
<1>2. IngestStands(i, IdleRun)'
  BY DEF IngestStands, IsRun, IdleRun, RunSteps, EnforcingSteps
<1>3. CASE now < ingest[i].deadline
  <2>1. \A j \in Runs \ {i} : ~(now < ingest[j].deadline)
    BY <1>3, OneRunActs
  <2> QED BY <1>1, <1>2, <2>1, OthersWait, IngestMoves
<1>4. CASE UNCHANGED << usage, events, totals >>
  <2>1. ASSUME NEW j \in Runs \ {i}, IngestStands(j, ingest[j]) PROVE IngestStands(j, ingest[j])'
    <3>1. PICK y : y = ingest[j] /\ y = ingest'[j]
      BY <1>1
    <3>2. CASE costLease.owner = i
      <4>1. ~(now < y.deadline)
        BY <2>1, <3>1, <3>2 DEF IngestStands
      <4>2. IngestStands(j, y)'
        BY <2>1, <3>1, <4>1, DeadRunStands
      <4> QED BY <3>1, <4>2
    <3>3. CASE costLease.owner # i
      <4>1. UNCHANGED costLease
        BY <3>3 DEF RunFails
      <4>2. IngestStands(j, y)'
        BY <1>4, <2>1, <3>1, <4>1, WaitingRunStands
      <4> QED BY <3>1, <4>2
    <3> QED BY <3>2, <3>3
  <2> QED BY <1>1, <1>2, <2>1, IngestMoves
<1> QED BY <1>3, <1>4

LEMMA RunFailsKeepsLease ==
  ASSUME BillKept, NEW i \in Runs, RunFails(i)
  PROVE  costLease' \in [owner : Runs \cup {Free}, until : Nat]
BY DEF BillKept, RunFails

(* A run that may still act goes on.                                        *)
LEMMA ActingRunMoves ==
  ASSUME IngestKept, NEW i \in Runs, now < ingest[i].deadline, now \in Nat, UNCHANGED now,
         ResourcesOnlyStop, NEW x, ingest' = [ingest EXCEPT ![i] = x], IngestStands(i, x)'
  PROVE  IngestKept'
<1>1. \A j \in Runs \ {i} : ~(now < ingest[j].deadline)
  BY OneRunActs
<1> QED BY <1>1, OthersWait, IngestMoves

(* What is known of a run that is about to act.                             *)
LEMMA RunFacts ==
  ASSUME DirectoryInvariant, CostInvariant, NEW i \in Runs
  PROVE  /\ IngestStands(i, ingest[i]) /\ IsRun(ingest[i])
         /\ now \in Nat /\ now <= MaxTime /\ ingest[i].now \in Nat /\ ingest[i].now <= now
         /\ ingest[i].deadline \in Nat
         /\ now < ingest[i].deadline =>
               /\ costLease.owner = i /\ ingest[i].deadline <= costLease.until
               /\ TotalsHold(ingest[i].now)
BY NowIsBounded, LimitsTyped DEF CostInvariant, IngestKept, IngestStands, DirectoryInvariant, BudgetKept

LEMMA ResourcesRest == ASSUME UNCHANGED resource PROVE ResourcesOnlyStop
BY DEF ResourcesOnlyStop, Stopped

(* A step that leaves the events and the totals alone.                      *)
LEMMA EventsRest ==
  ASSUME CostInvariant, UNCHANGED << now, events, totals >> PROVE EventsKept' /\ TotalsHold(now)'
BY DEF CostInvariant, EventsKept, TotalsHold

LEMMA ChangeBillKeeps ==
  ASSUME DirectoryInvariant, CostInvariant, NEW e \in Entries, ChangeBill(e),
         UNCHANGED << now, events, totals >>
  PROVE  CostInvariant'
<1>1. UNCHANGED << usage, guard, costLease, ingest, resource >> /\ bill' \in [Entries -> 0..MaxBill]
  BY DEF ChangeBill, CostInvariant, BillKept
<1>2. BillKept'
  BY <1>1 DEF CostInvariant, BillKept, Stopped
<1>3. IngestKept'
  <2> SUFFICES ASSUME NEW i \in Runs PROVE IngestStands(i, ingest[i])'
    BY <1>1 DEF CostInvariant, IngestKept
  <2>1. PICK x : x = ingest[i]
    OBVIOUS
  <2>2. IngestStands(i, x)'
    BY <1>1, <2>1, RunFacts, ResourcesRest, WaitingRunStands
  <2> QED BY <1>1, <2>1, <2>2
<1> QED BY <1>2, <1>3, EventsRest DEF CostInvariant

LEMMA StartIngestKeeps ==
  ASSUME DirectoryInvariant, CostInvariant, NEW i \in Runs, StartIngest(i),
         UNCHANGED << now, events, totals >>
  PROVE  CostInvariant'
<1>0. PICK y : y = ingest[i] /\ IsRun(y)
  BY RunFacts
<1>1. PICK x : x = [y EXCEPT !.pc = "leased", !.now = now, !.deadline = now + TaskTimeout]
  OBVIOUS
<1>2. /\ ingest' = [ingest EXCEPT ![i] = x]
      /\ costLease' = [owner |-> i, until |-> now + LeaseDuration]
      /\ UNCHANGED << bill, usage, guard, resource >>
      /\ costLease.owner = Free \/ costLease.until <= now
  BY <1>0, <1>1 DEF StartIngest
<1>3. now \in Nat
  BY RunFacts
<1>4. BillKept'
  <2>1. costLease' \in [owner : Runs \cup {Free}, until : Nat]
    BY <1>2, <1>3, LimitsTyped
  <2> QED BY <1>2, <2>1 DEF CostInvariant, BillKept, Stopped
<1>5. IngestStands(i, x)'
  <2>1. /\ IsRun(x) /\ x.pc = "leased" /\ x.now = now /\ x.deadline = now + TaskTimeout
    BY <1>0, <1>1 DEF IsRun
  <2>2. TotalsHold(x.now)'
    BY <2>1, EventsRest
  <2>3. x.deadline <= costLease'.until /\ costLease'.owner = i
    BY <1>2, <1>3, <2>1, LimitsTyped
  <2> QED BY <1>3, <2>1, <2>2, <2>3, LimitsTyped DEF IngestStands, RunSteps, EnforcingSteps
<1>6. \A j \in Runs \ {i} : ~(now < ingest[j].deadline)
  <2> SUFFICES ASSUME NEW j \in Runs \ {i}, now < ingest[j].deadline PROVE FALSE
    OBVIOUS
  <2>1. costLease.owner = j /\ ingest[j].deadline <= costLease.until /\ ingest[j].deadline \in Nat
    BY RunFacts
  <2>2. costLease.until \in Nat
    BY DEF CostInvariant, BillKept
  <2> QED BY <1>2, <1>3, <2>1, <2>2, CostBounds
<1>7. IngestKept'
  <2>1. IngestKept
    BY DEF CostInvariant
  <2> QED BY <1>2, <1>3, <1>5, <1>6, <2>1, ResourcesRest, OthersWait, IngestMoves
<1> QED BY <1>4, <1>7, EventsRest DEF CostInvariant

LEMMA FetchBillKeeps ==
  ASSUME DirectoryInvariant, CostInvariant, NEW i \in Runs, FetchBill(i),
         UNCHANGED << now, events, totals >>
  PROVE  CostInvariant'
<1>1. /\ UNCHANGED << bill, usage, guard, resource >> /\ now < ingest[i].deadline
      /\ now \in Nat /\ IngestKept /\ BillKept
  BY RunFacts DEF FetchBill, Alive, CostInvariant
<1>2. CASE RunFails(i)
  <2>1. IngestKept'
    BY <1>1, <1>2, ResourcesRest, RunFailsKeeps
  <2>2. BillKept'
    BY <1>1, <1>2, RunFailsKeepsLease DEF BillKept, Stopped
  <2> QED BY <2>1, <2>2, EventsRest DEF CostInvariant
<1>3. CASE UNCHANGED costLease /\ ingest' = [ingest EXCEPT ![i].pc = "storing", ![i].known = usage,
                                                  ![i].rows = Fetched]
  <2>1. DOMAIN Fetched = Entries /\ \A e \in Entries : Fetched[e] \in 0..MaxBill
    BY <1>1 DEF BillKept, Fetched
  <2>2. PICK q : q = Fetched
    OBVIOUS
  <2>3. ingest' = [ingest EXCEPT ![i].pc = "storing", ![i].known = usage, ![i].rows = q]
    BY <1>3, <2>2
  <2>4. DOMAIN q = Entries /\ \A e \in Entries : q[e] \in 0..MaxBill
    BY <2>1, <2>2
  <2> PICK y : y = ingest[i] /\ IsRun(y)
    BY RunFacts
  <2>5. PICK x : x = [y EXCEPT !.pc = "storing", !.known = usage, !.rows = q]
    OBVIOUS
  <2>6. /\ IsRun(x) /\ x.pc = "storing" /\ x.now = ingest[i].now /\ x.deadline = ingest[i].deadline
        /\ x.rows = q
    BY <2>5 DEF IsRun
  <2>7. TotalsHold(x.now)'
    BY <1>1, <2>6, RunFacts DEF TotalsHold
  <2>8. IngestStands(i, x)'
    BY <1>1, <1>3, <2>4, <2>6, <2>7, RunFacts DEF IngestStands, RunSteps, EnforcingSteps
  <2>9. ingest' = [ingest EXCEPT ![i] = x]
    BY <2>3, <2>5
  <2>10. IngestKept'
    BY <1>1, <2>8, <2>9, ResourcesRest, ActingRunMoves
  <2>11. BillKept'
    BY <1>1, <1>3 DEF BillKept, Stopped
  <2> QED BY <2>10, <2>11, EventsRest DEF CostInvariant
<1> QED BY <1>2, <1>3 DEF FetchBill

LEMMA StoreEntryKeeps ==
  ASSUME DirectoryInvariant, CostInvariant, NEW i \in Runs, StoreEntry(i),
         UNCHANGED << now, events, totals >>
  PROVE  CostInvariant'
<1>1. /\ UNCHANGED << bill, guard, resource >> /\ now < ingest[i].deadline
      /\ ingest[i].pc = "storing"
      /\ now \in Nat /\ IngestKept /\ BillKept
  BY RunFacts DEF StoreEntry, Alive, CostInvariant
<1>2. PICK y : y = ingest[i] /\ IsRun(y) /\ IngestStands(i, y)
  BY RunFacts
<1>3. PICK e \in DOMAIN y.rows :
        IF usage[e] = y.known[e] /\ Mergeable(y.known[e], y.rows[e])
        THEN /\ usage' = [usage EXCEPT ![e] = Merged(y.known[e], y.rows[e], y.now)]
             /\ ingest' = [ingest EXCEPT ![i].rows = [z \in DOMAIN y.rows \ {e} |-> y.rows[z]]]
             /\ UNCHANGED costLease
        ELSE RunFails(i) /\ UNCHANGED usage
  BY <1>2 DEF StoreEntry
<1>4. CASE RunFails(i) /\ UNCHANGED usage
  <2>1. IngestKept'
    BY <1>1, <1>4, ResourcesRest, RunFailsKeeps
  <2>2. BillKept'
    BY <1>1, <1>4, RunFailsKeepsLease DEF BillKept, Stopped
  <2> QED BY <2>1, <2>2, EventsRest DEF CostInvariant
<1>5. CASE /\ usage[e] = y.known[e]
           /\ usage' = [usage EXCEPT ![e] = Merged(y.known[e], y.rows[e], y.now)]
           /\ ingest' = [ingest EXCEPT ![i].rows = [z \in DOMAIN y.rows \ {e} |-> y.rows[z]]]
           /\ UNCHANGED costLease
  <2>1. PICK q : q = [z \in DOMAIN y.rows \ {e} |-> y.rows[z]]
    OBVIOUS
  <2>2. PICK x : x = [y EXCEPT !.rows = q]
    OBVIOUS
  <2>3. /\ y.pc = "storing" /\ e \in Entries /\ y.rows[e] \in 0..MaxBill
        /\ DOMAIN q \subseteq Entries /\ \A z \in DOMAIN q : q[z] \in 0..MaxBill
    BY <1>1, <1>2, <2>1 DEF IngestStands
  <2>4. /\ IsRun(x) /\ x.pc = "storing" /\ x.now = y.now /\ x.deadline = y.deadline /\ x.rows = q
    BY <1>2, <2>2, <2>3 DEF IsRun
  <2>5. ingest' = [ingest EXCEPT ![i] = x]
    BY <1>2, <1>5, <2>1, <2>2
  <2>6. TotalsHold(x.now)'
    BY <1>1, <1>2, <2>4, RunFacts DEF TotalsHold
  <2>7. IngestStands(i, x)'
    BY <1>1, <1>2, <1>5, <2>3, <2>4, <2>6, RunFacts DEF IngestStands, RunSteps, EnforcingSteps
  <2>8. IngestKept'
    BY <1>1, <1>2, <2>5, <2>7, ResourcesRest, ActingRunMoves
  <2>9. Merged(y.known[e], y.rows[e], y.now) \in UsageRecord
    <3>1. usage[e] \in UsageRecord /\ usage[e] = y.known[e]
      BY <1>1, <1>5, <2>3 DEF BillKept
    <3>2. y.now \in 0..MaxTime
      BY <1>2, RunFacts, LimitsTyped
    <3>3. y.known[e].at \in 0..MaxTime
      BY <3>1 DEF UsageRecord
    <3>4. PICK t \in 0..MaxTime : t = IF y.now > y.known[e].at THEN y.now ELSE y.known[e].at
      BY <3>2, <3>3
    <3> QED BY <2>3, <3>4, LimitsTyped DEF Merged, UsageRecord
  <2>10. usage' \in [Entries -> UsageRecord]
    BY <1>1, <1>5, <2>3, <2>9 DEF BillKept
  <2>11. BillKept'
    BY <1>1, <1>5, <2>10 DEF BillKept, Stopped
  <2> QED BY <2>8, <2>11, EventsRest DEF CostInvariant
<1> QED BY <1>3, <1>4, <1>5

LEMMA PersistGuardKeeps ==
  ASSUME DirectoryInvariant, CostInvariant, NEW i \in Runs, PersistGuard(i),
         UNCHANGED << now, events, totals >>
  PROVE  CostInvariant'
<1>1. /\ UNCHANGED << bill, usage, resource >> /\ now < ingest[i].deadline
      /\ now \in Nat /\ IngestKept /\ BillKept
  BY RunFacts DEF PersistGuard, Alive, CostInvariant
<1>2. Candidate(i) \in GuardRecord /\ Candidate(i).at <= now
  <2>1. ingest[i].now \in 0..MaxTime
    BY RunFacts, LimitsTyped
  <2>2. EmergencyStop \in BOOLEAN
    BY DEF EmergencyStop
  <2> QED BY <2>1, <2>2, RunFacts DEF Candidate, GuardRecord
<1>3. guard' \in {guard, Candidate(i)}
  BY DEF PersistGuard
<1>4. guard' \in GuardRecord /\ guard'.at <= now
  BY <1>1, <1>2, <1>3 DEF BillKept
<1>5. CASE RunFails(i)
  <2>1. IngestKept'
    BY <1>1, <1>5, ResourcesRest, RunFailsKeeps
  <2>2. BillKept'
    BY <1>1, <1>4, <1>5, RunFailsKeepsLease DEF BillKept, Stopped
  <2> QED BY <2>1, <2>2, EventsRest DEF CostInvariant
<1>6. CASE ~RunFails(i)
  <2>1. PICK scopes, n, d :
          /\ scopes = Owners \cup (IF EmergencyStop THEN {Shared} ELSE {})
          /\ n = ingest[i].now /\ d = ingest[i].deadline
    OBVIOUS
  <2>2. PICK x : x = [IdleRun EXCEPT !.pc = "enforcing", !.now = n, !.deadline = d, !.todo = scopes]
    OBVIOUS
  <2>3. ingest' = [ingest EXCEPT ![i] = x] /\ UNCHANGED costLease
    <3>1. /\ ingest' = [ingest EXCEPT
                ![i] = [IdleRun EXCEPT !.pc = "enforcing", !.now = ingest[i].now,
                            !.deadline = ingest[i].deadline,
                            !.todo = Owners \cup (IF EmergencyStop THEN {Shared} ELSE {})]]
          /\ UNCHANGED costLease
      BY <1>6 DEF PersistGuard
    <3> QED BY <2>1, <2>2, <3>1
  <2>4. /\ IsRun(x) /\ x.pc = "enforcing" /\ x.now = ingest[i].now
        /\ x.deadline = ingest[i].deadline /\ x.todo = scopes
        /\ DOMAIN x.seen = {} /\ x.off = NoResource
    <3>1. /\ IsRun(x) /\ x.pc = "enforcing" /\ x.now = n /\ x.deadline = d /\ x.todo = scopes
          /\ x.seen = << >> /\ x.off = NoResource
      BY <2>2 DEF IsRun, IdleRun
    <3>2. DOMAIN << >> = {}
      OBVIOUS
    <3> QED BY <2>1, <3>1, <3>2
  <2>5. StopsSoFar(x)
    <3>1. EmergencyStop => Shared \in x.todo
      BY <2>1, <2>4
    <3>2. \A r \in Resources : Pause(ResourceOwner[r]) => ResourceOwner[r] \in x.todo
      BY <2>1, <2>4, PausedOwners, CostBounds
    <3> QED BY <3>1, <3>2 DEF StopsSoFar
  <2>6. StopsSoFar(x)'
    <3>1. EmergencyStop' = EmergencyStop /\ \A p : Pause(p)' = Pause(p)
      BY <1>1 DEF EmergencyStop, OrgSpent, Pause, Spent, Cost
    <3> QED BY <1>1, <2>5, <3>1 DEF StopsSoFar, Stopped
  <2>7. TotalsHold(x.now)'
    BY <1>1, <2>4, RunFacts DEF TotalsHold
  <2>8. IngestStands(i, x)'
    BY <1>1, <2>3, <2>4, <2>6, <2>7, RunFacts DEF IngestStands, RunSteps, EnforcingSteps
  <2>9. IngestKept'
    BY <1>1, <2>3, <2>8, ResourcesRest, ActingRunMoves
  <2>10. BillKept'
    BY <1>1, <1>4, <2>3 DEF BillKept, Stopped
  <2> QED BY <2>9, <2>10, EventsRest DEF CostInvariant
<1> QED BY <1>5, <1>6

(* A run that enforces goes on, or comes through.                           *)
LEMMA EnforcementMoves ==
  ASSUME DirectoryInvariant, CostInvariant, NEW i \in Runs, now < ingest[i].deadline,
         UNCHANGED << now, bill, usage, guard, costLease, events, totals >>,
         resource' \in [Resources -> [state : {"active", "paused"}, version : Nat, on : BOOLEAN]],
         \A r \in Resources : resource'[r].state = "paused" => Stopped(r)',
         ResourcesOnlyStop,
         NEW x, ingest' = [ingest EXCEPT ![i] = x],
         IsRun(x), x.now = ingest[i].now, x.deadline = ingest[i].deadline,
         x.pc \in EnforcingSteps \cup {"billed"},
         x.pc \in EnforcingSteps =>
            /\ DOMAIN x.seen \subseteq Resources
            /\ x.off # NoResource => x.off \in DOMAIN x.seen /\ ~resource'[x.off].on
            /\ StopsSoFar(x)',
         x.pc = "enforcing" => DOMAIN x.seen = {} /\ x.off = NoResource
  PROVE  CostInvariant'
<1>1. now \in Nat /\ IngestKept /\ BillKept
  BY RunFacts DEF CostInvariant
<1>2. TotalsHold(x.now)'
  BY RunFacts DEF TotalsHold
<1>3. /\ x.pc \in RunSteps /\ x.pc \notin {"idle", "storing", "expiring", "counting", "rolling"}
      /\ IsRun(x) /\ x.now \in Nat /\ x.now <= now /\ x.deadline \in Nat
      /\ costLease.owner = i /\ x.deadline <= costLease.until
  BY RunFacts DEF RunSteps, EnforcingSteps
<1>4. IngestStands(i, x)'
  BY <1>2, <1>3 DEF IngestStands
<1>5. IngestKept'
  BY <1>1, <1>4, ActingRunMoves
<1>6. BillKept'
  BY <1>1 DEF BillKept
<1> QED BY <1>5, <1>6, EventsRest DEF CostInvariant

LEMMA StopsAreKept ==
  ASSUME UNCHANGED usage
  PROVE  EmergencyStop' = EmergencyStop /\ \A p : Pause(p)' = Pause(p)
BY DEF EmergencyStop, OrgSpent, Pause, Spent, Cost

(* A scope is listed: whatever is running in it is on the list.             *)
LEMMA ListResourcesKeeps ==
  ASSUME DirectoryInvariant, CostInvariant, NEW i \in Runs, ListResources(i),
         UNCHANGED << now, events, totals >>
  PROVE  CostInvariant'
<1>1. /\ UNCHANGED << bill, usage, guard, costLease, resource >> /\ now < ingest[i].deadline
      /\ BillKept
  BY DEF ListResources, Alive, CostInvariant
<1>2. PICK y : y = ingest[i] /\ IsRun(y) /\ IngestStands(i, y) /\ y.pc = "enforcing"
  BY RunFacts DEF ListResources
<1>3. DOMAIN y.seen = {} /\ y.off = NoResource /\ StopsSoFar(y)
  BY <1>1, <1>2 DEF IngestStands, EnforcingSteps
<1>4. PICK scope \in y.todo :
        ingest' = [ingest EXCEPT
           ![i].todo = @ \ {scope},
           ![i].pc = IF scope = Shared THEN "stopping"
                     ELSE IF Pause(scope) THEN "pausing" ELSE "enforcing",
           ![i].seen = IF scope = Shared \/ Pause(scope)
                       THEN [r \in {s \in InScope(scope) : resource[s].state = "active"}
                                |-> resource[r].version]
                       ELSE <<>>]
  BY <1>2 DEF ListResources
<1>5. PICK pc, seen, todo :
        /\ pc = IF scope = Shared THEN "stopping"
                ELSE IF Pause(scope) THEN "pausing" ELSE "enforcing"
        /\ seen = IF scope = Shared \/ Pause(scope)
                  THEN [r \in {s \in InScope(scope) : resource[s].state = "active"}
                           |-> resource[r].version]
                  ELSE <<>>
        /\ todo = y.todo \ {scope}
  OBVIOUS
<1>6. PICK x : x = [y EXCEPT !.todo = todo, !.pc = pc, !.seen = seen]
  OBVIOUS
<1>7. ingest' = [ingest EXCEPT ![i] = x]
  BY <1>2, <1>4, <1>5, <1>6
<1>8. /\ IsRun(x) /\ x.now = y.now /\ x.deadline = y.deadline /\ x.pc = pc
      /\ x.todo = todo /\ x.seen = seen /\ x.off = NoResource
  BY <1>2, <1>3, <1>6 DEF IsRun
<1>9. /\ pc \in EnforcingSteps
      /\ pc = "enforcing" => scope # Shared /\ ~Pause(scope)
      /\ scope = Shared \/ Pause(scope) =>
            DOMAIN seen = {r \in InScope(scope) : resource[r].state = "active"}
      /\ ~(scope = Shared \/ Pause(scope)) => DOMAIN seen = {}
  <2>1. DOMAIN << >> = {}
    OBVIOUS
  <2> QED BY <1>5, <2>1 DEF EnforcingSteps
<1>10. \A r \in Resources :
          scope = Shared \/ (ResourceOwner[r] = scope /\ Pause(scope)) =>
             r \in DOMAIN seen \/ Stopped(r)
  BY <1>1, <1>9 DEF BillKept, InScope
<1>11. StopsSoFar(x)'
  <2>1. EmergencyStop /\ Shared \notin x.todo =>
           \A r \in Resources : r \in DOMAIN x.seen \/ Stopped(r)
    BY <1>3, <1>5, <1>8, <1>10 DEF StopsSoFar
  <2>2. \A r \in Resources :
           Pause(ResourceOwner[r]) /\ ResourceOwner[r] \notin x.todo =>
               r \in DOMAIN x.seen \/ Stopped(r)
    BY <1>3, <1>5, <1>8, <1>10 DEF StopsSoFar
  <2> QED BY <1>1, <2>1, <2>2, StopsAreKept DEF StopsSoFar, Stopped
<1>12. DOMAIN x.seen \subseteq Resources
  BY <1>8, <1>9 DEF InScope
<1>13. /\ resource' \in [Resources -> [state : {"active", "paused"}, version : Nat, on : BOOLEAN]]
       /\ \A r \in Resources : resource'[r].state = "paused" => Stopped(r)'
  BY <1>1 DEF BillKept, Stopped
<1> QED BY <1>1, <1>2, <1>7, <1>8, <1>9, <1>11, <1>12, <1>13, ResourcesRest, EnforcementMoves

(* A run that fails while it enforces.                                      *)
LEMMA EnforcementFails ==
  ASSUME DirectoryInvariant, CostInvariant, NEW i \in Runs, now < ingest[i].deadline, RunFails(i),
         UNCHANGED << now, bill, usage, guard, events, totals >>,
         resource' \in [Resources -> [state : {"active", "paused"}, version : Nat, on : BOOLEAN]],
         \A r \in Resources : resource'[r].state = "paused" => Stopped(r)',
         ResourcesOnlyStop
  PROVE  CostInvariant'
<1>1. now \in Nat /\ IngestKept /\ BillKept
  BY RunFacts DEF CostInvariant
<1>2. IngestKept'
  BY <1>1, RunFailsKeeps
<1>3. BillKept'
  BY <1>1, RunFailsKeepsLease DEF BillKept
<1> QED BY <1>2, <1>3, EventsRest DEF CostInvariant

LEMMA SwitchOffKeeps ==
  ASSUME DirectoryInvariant, CostInvariant, NEW i \in Runs, NEW r \in Resources, SwitchOff(i, r),
         UNCHANGED << now, events, totals >>
  PROVE  CostInvariant'
<1>1. /\ UNCHANGED << bill, usage, guard >> /\ now < ingest[i].deadline /\ BillKept
  BY DEF SwitchOff, Pausing, Alive, CostInvariant
<1>2. PICK y : y = ingest[i] /\ IsRun(y) /\ IngestStands(i, y)
  BY RunFacts
<1>3. /\ y.pc \in {"stopping", "pausing"} /\ r \in DOMAIN y.seen
      /\ DOMAIN y.seen \subseteq Resources /\ StopsSoFar(y)
  BY <1>1, <1>2 DEF SwitchOff, Pausing, IngestStands, EnforcingSteps
<1>4. resource' \in {resource, [resource EXCEPT ![r].on = FALSE]}
  BY DEF SwitchOff
<1>5. /\ resource' \in [Resources -> [state : {"active", "paused"}, version : Nat, on : BOOLEAN]]
      /\ \A s \in Resources : /\ resource'[s].state = resource[s].state
                              /\ resource'[s].on => resource[s].on
  <2>1. resource \in [Resources -> [state : {"active", "paused"}, version : Nat, on : BOOLEAN]]
    BY <1>1 DEF BillKept
  <2>2. CASE resource' = resource
    BY <2>1, <2>2
  <2>3. CASE resource' = [resource EXCEPT ![r].on = FALSE]
    <3>1. resource' \in [Resources -> [state : {"active", "paused"}, version : Nat, on : BOOLEAN]]
      BY <2>1, <2>3
    <3>2. \A s \in Resources : resource'[s].state = resource[s].state
      BY <2>1, <2>3
    <3>3. ~resource'[r].on /\ \A s \in Resources \ {r} : resource'[s].on = resource[s].on
      BY <2>1, <2>3
    <3> QED BY <3>1, <3>2, <3>3
  <2> QED BY <1>4, <2>2, <2>3
<1>6. ResourcesOnlyStop /\ \A s \in Resources : resource'[s].state = "paused" => Stopped(s)'
  BY <1>1, <1>5 DEF BillKept, ResourcesOnlyStop, Stopped
<1>7. CASE RunFails(i)
  BY <1>1, <1>5, <1>6, <1>7, EnforcementFails
<1>8. CASE /\ resource' = [resource EXCEPT ![r].on = FALSE]
           /\ ingest' = [ingest EXCEPT ![i].off = r] /\ UNCHANGED costLease
  <2>1. PICK x : x = [y EXCEPT !.off = r]
    OBVIOUS
  <2>2. /\ IsRun(x) /\ x.now = y.now /\ x.deadline = y.deadline /\ x.pc = y.pc
        /\ x.todo = y.todo /\ x.seen = y.seen /\ x.off = r
    BY <1>2, <2>1 DEF IsRun
  <2>3. ingest' = [ingest EXCEPT ![i] = x]
    BY <1>2, <1>8, <2>1
  <2>4. StopsSoFar(x)'
    BY <1>1, <1>3, <1>6, <2>2, StopsAreKept DEF StopsSoFar, ResourcesOnlyStop
  <2>5. x.pc \in EnforcingSteps /\ x.pc # "enforcing"
    BY <1>3, <2>2 DEF EnforcingSteps
  <2>6. resource'[r].on = FALSE
    BY <1>1, <1>8 DEF BillKept
  <2> QED BY <1>1, <1>2, <1>3, <1>5, <1>6, <1>8, <2>2, <2>3, <2>4, <2>5, <2>6, EnforcementMoves
<1> QED BY <1>7, <1>8 DEF SwitchOff

(* What is saved as paused has been switched off, and stayed so.            *)
LEMMA SavePausedKeeps ==
  ASSUME DirectoryInvariant, CostInvariant, NEW i \in Runs, SavePaused(i),
         UNCHANGED << now, events, totals >>
  PROVE  CostInvariant'
<1>1. /\ UNCHANGED << bill, usage, guard >> /\ now < ingest[i].deadline /\ BillKept
  BY DEF SavePaused, Pausing, Alive, CostInvariant
<1>2. PICK y : y = ingest[i] /\ IsRun(y) /\ IngestStands(i, y)
  BY RunFacts
<1>3. PICK r : r = y.off /\ r # NoResource
  BY <1>2 DEF SavePaused
<1>4. /\ y.pc \in {"stopping", "pausing"} /\ r \in DOMAIN y.seen
      /\ DOMAIN y.seen \subseteq Resources /\ r \in Resources /\ ~resource[r].on /\ StopsSoFar(y)
  BY <1>1, <1>2, <1>3 DEF SavePaused, Pausing, IngestStands, EnforcingSteps
<1>5. PICK saved : saved = [resource EXCEPT ![r].state = "paused", ![r].version = @ + 1]
  OBVIOUS
<1>6. resource' \in {resource, saved}
  BY <1>2, <1>3, <1>5 DEF SavePaused
<1>7. /\ saved \in [Resources -> [state : {"active", "paused"}, version : Nat, on : BOOLEAN]]
      /\ saved[r].state = "paused"
      /\ \A s \in Resources : saved[s].on = resource[s].on
      /\ \A s \in Resources \ {r} : saved[s].state = resource[s].state
  BY <1>1, <1>4, <1>5 DEF BillKept
<1>8. /\ resource' \in [Resources -> [state : {"active", "paused"}, version : Nat, on : BOOLEAN]]
      /\ \A s \in Resources : resource'[s].on = resource[s].on
      /\ \A s \in Resources \ {r} : resource'[s].state = resource[s].state
      /\ resource'[r].state \in {"paused", resource[r].state}
  BY <1>1, <1>4, <1>6, <1>7 DEF BillKept
<1>9. ResourcesOnlyStop /\ \A s \in Resources : resource'[s].state = "paused" => Stopped(s)'
  BY <1>1, <1>4, <1>8 DEF BillKept, ResourcesOnlyStop, Stopped
<1>10. CASE RunFails(i)
  BY <1>1, <1>8, <1>9, <1>10, EnforcementFails
<1>11. CASE /\ resource' = saved /\ UNCHANGED costLease
            /\ ingest' = [ingest EXCEPT ![i].off = NoResource,
                            ![i].seen = [s \in DOMAIN y.seen \ {r} |-> y.seen[s]]]
  <2>1. PICK q : q = [s \in DOMAIN y.seen \ {r} |-> y.seen[s]]
    OBVIOUS
  <2>2. PICK x : x = [y EXCEPT !.off = NoResource, !.seen = q]
    OBVIOUS
  <2>3. DOMAIN q = DOMAIN y.seen \ {r}
    BY <2>1
  <2>4. /\ IsRun(x) /\ x.now = y.now /\ x.deadline = y.deadline /\ x.pc = y.pc
        /\ x.todo = y.todo /\ x.seen = q /\ x.off = NoResource
    BY <1>2, <2>2 DEF IsRun
  <2>5. ingest' = [ingest EXCEPT ![i] = x]
    BY <1>2, <1>11, <2>1, <2>2
  <2>6. Stopped(r)'
    BY <1>4, <1>7, <1>11 DEF Stopped
  <2>7. StopsSoFar(x)'
    BY <1>1, <1>4, <1>9, <2>3, <2>4, <2>6, StopsAreKept DEF StopsSoFar, ResourcesOnlyStop
  <2>8. x.pc \in EnforcingSteps /\ x.pc # "enforcing"
    BY <1>4, <2>4 DEF EnforcingSteps
  <2> QED BY <1>1, <1>2, <1>4, <1>8, <1>9, <1>11, <2>3, <2>4, <2>5, <2>7, <2>8, EnforcementMoves
<1>12. RunFails(i) \/ /\ resource' = saved /\ UNCHANGED costLease
                      /\ ingest' = [ingest EXCEPT ![i].off = NoResource,
                                      ![i].seen = [s \in DOMAIN y.seen \ {r} |-> y.seen[s]]]
  BY <1>2, <1>3, <1>5 DEF SavePaused
<1> QED BY <1>10, <1>11, <1>12

LEMMA EnforcementEnds ==
  ASSUME DirectoryInvariant, CostInvariant, NEW i \in Runs, ScopeDone(i) \/ IngestDone(i),
         UNCHANGED << now, events, totals >>
  PROVE  CostInvariant'
<1>1. /\ UNCHANGED << bill, usage, guard, costLease, resource >> /\ now < ingest[i].deadline
      /\ BillKept
  BY DEF ScopeDone, IngestDone, Pausing, Alive, CostInvariant
<1>2. PICK y : y = ingest[i] /\ IsRun(y) /\ IngestStands(i, y)
  BY RunFacts
<1>3. PICK pc \in {"enforcing", "billed"} : /\ ingest' = [ingest EXCEPT ![i].pc = pc]
                                            /\ pc = "enforcing" => ScopeDone(i)
  BY DEF ScopeDone, IngestDone, RunsTo
<1>4. PICK x : x = [y EXCEPT !.pc = pc]
  OBVIOUS
<1>5. /\ IsRun(x) /\ x.now = y.now /\ x.deadline = y.deadline /\ x.pc = pc
      /\ x.todo = y.todo /\ x.seen = y.seen /\ x.off = y.off
  BY <1>2, <1>4 DEF IsRun
<1>6. ingest' = [ingest EXCEPT ![i] = x]
  BY <1>2, <1>3, <1>4
<1>7. ScopeDone(i) => /\ DOMAIN y.seen = {} /\ y.off = NoResource /\ StopsSoFar(y)
  <2>1. DOMAIN << >> = {}
    OBVIOUS
  <2> QED BY <1>1, <1>2, <2>1 DEF ScopeDone, Pausing, IngestStands, EnforcingSteps
<1>8. ScopeDone(i) => StopsSoFar(x)'
  BY <1>1, <1>5, <1>7, StopsAreKept DEF StopsSoFar, Stopped
<1>9. /\ resource' \in [Resources -> [state : {"active", "paused"}, version : Nat, on : BOOLEAN]]
      /\ \A s \in Resources : resource'[s].state = "paused" => Stopped(s)'
  BY <1>1 DEF BillKept, Stopped
<1>10. /\ x.pc \in EnforcingSteps \cup {"billed"}
       /\ x.pc \in EnforcingSteps => ScopeDone(i)
  BY <1>3, <1>5 DEF EnforcingSteps
<1> QED BY <1>1, <1>2, <1>5, <1>6, <1>7, <1>8, <1>9, <1>10, ResourcesRest, EnforcementMoves

LEMMA RunIsOver ==
  ASSUME DirectoryInvariant, CostInvariant, NEW i \in Runs, ReleaseIngest(i) \/ RunEnds(i),
         UNCHANGED << now, events, totals >>
  PROVE  CostInvariant'
<1>1. /\ UNCHANGED << bill, usage, guard, resource >>
      /\ now \in Nat /\ IngestKept /\ BillKept
  BY RunFacts DEF ReleaseIngest, RunEnds, CostInvariant
<1>2. CASE RunFails(i)
  <2>1. IngestKept'
    BY <1>1, <1>2, ResourcesRest, RunFailsKeeps
  <2>2. BillKept'
    BY <1>1, <1>2, RunFailsKeepsLease DEF BillKept, Stopped
  <2> QED BY <2>1, <2>2, EventsRest DEF CostInvariant
<1>3. CASE UNCHANGED costLease /\ ingest' = [ingest EXCEPT ![i] = IdleRun]
  <2>1. ASSUME NEW j \in Runs \ {i}, IngestStands(j, ingest[j]) PROVE IngestStands(j, ingest[j])'
    <3>1. PICK y : y = ingest[j] /\ y = ingest'[j]
      BY <1>3
    <3>2. IngestStands(j, y)'
      BY <1>1, <1>3, <2>1, <3>1, ResourcesRest, WaitingRunStands
    <3> QED BY <3>1, <3>2
  <2>2. IngestStands(i, IdleRun)'
    BY <1>1 DEF IngestStands, IsRun, IdleRun, RunSteps, EnforcingSteps
  <2>3. IngestKept'
    BY <1>1, <1>3, <2>1, <2>2, IngestMoves
  <2>4. BillKept'
    BY <1>1, <1>3 DEF BillKept, Stopped
  <2> QED BY <2>3, <2>4, EventsRest DEF CostInvariant
<1> QED BY <1>2, <1>3 DEF ReleaseIngest, RunEnds

LEMMA CostStepKeeps ==
  ASSUME DirectoryInvariant, CostInvariant, CostNext, UNCHANGED directoryKept, UNCHANGED activityVars
  PROVE  CostInvariant'
<1>1. UNCHANGED << now, events, totals >>
  BY DEF directoryKept, activityVars
<1> QED BY <1>1, ChangeBillKeeps, StartIngestKeeps, FetchBillKeeps, StoreEntryKeeps, PersistGuardKeeps,
       ListResourcesKeeps, SwitchOffKeeps, SavePausedKeeps, EnforcementEnds, RunIsOver
       DEF CostNext, IngestStep

--------------------------------------------------------------------------------
(* A run that still may act goes on, or gives up, in the second half.       *)
LEMMA RollupMoves ==
  ASSUME DirectoryInvariant, CostInvariant, NEW i \in Runs, now < ingest[i].deadline,
         UNCHANGED << now, bill, usage, guard, resource >>,
         NEW t, t = ingest[i].now, EventsKept', TotalsHold(t)',
         \/ RunFails(i)
         \/ /\ UNCHANGED costLease
            /\ \E x : /\ ingest' = [ingest EXCEPT ![i] = x]
                      /\ IsRun(x) /\ x.now = ingest[i].now /\ x.deadline = ingest[i].deadline
                      /\ x.pc \in {"expiring", "counting", "rolling", "completed"}
                      /\ x.pc \in {"expiring", "counting"} =>
                            \A y \in x.known : y.at < x.now - Retention
                      /\ x.pc = "rolling" => TotalsSoFar(x)'
  PROVE  CostInvariant'
<1>1. /\ now \in Nat /\ IngestKept /\ BillKept /\ ingest[i].now \in Nat /\ ingest[i].now <= now
      /\ ingest[i].deadline \in Nat
      /\ costLease.owner = i /\ ingest[i].deadline <= costLease.until
  BY RunFacts DEF CostInvariant
<1>2. TotalsHold(now)'
  <2> SUFFICES ASSUME NEW c \in Cells, WholeAt(c, now) PROVE totals'[c] <= Count(c, events')
    BY DEF TotalsHold
  <2>1. WholeAt(c, t)
    BY <1>1, CellFacts, LimitsTyped DEF WholeAt
  <2> QED BY <2>1 DEF TotalsHold
<1>3. CASE RunFails(i)
  <2>1. IngestKept'
    BY <1>1, <1>3, ResourcesRest, RunFailsKeeps
  <2>2. BillKept'
    BY <1>1, <1>3, RunFailsKeepsLease DEF BillKept, Stopped
  <2> QED BY <1>2, <2>1, <2>2 DEF CostInvariant
<1>4. CASE ~RunFails(i)
  <2>1. PICK x : /\ ingest' = [ingest EXCEPT ![i] = x]
                 /\ IsRun(x) /\ x.now = ingest[i].now /\ x.deadline = ingest[i].deadline
                 /\ x.pc \in {"expiring", "counting", "rolling", "completed"}
                 /\ x.pc \in {"expiring", "counting"} =>
                       \A y \in x.known : y.at < x.now - Retention
                 /\ x.pc = "rolling" => TotalsSoFar(x)'
    BY <1>4
  <2>2. UNCHANGED costLease
    BY <1>4
  <2>3. TotalsHold(x.now)'
    BY <2>1
  <2>4. x.pc \in RunSteps /\ x.pc \notin EnforcingSteps \cup {"idle", "storing"}
    BY <2>1 DEF RunSteps, EnforcingSteps
  <2>5. IngestStands(i, x)'
    BY <1>1, <2>1, <2>2, <2>3, <2>4 DEF IngestStands, EnforcingSteps
  <2>6. IngestKept'
    BY <1>1, <2>1, <2>5, ResourcesRest, ActingRunMoves
  <2>7. BillKept'
    BY <1>1, <2>2 DEF BillKept, Stopped
  <2> QED BY <1>2, <2>6, <2>7 DEF CostInvariant
<1> QED BY <1>3, <1>4

LEMMA PlanRetentionKeeps ==
  ASSUME DirectoryInvariant, CostInvariant, NEW i \in Runs, PlanRetention(i),
         UNCHANGED << now, bill, usage, guard, resource >>
  PROVE  CostInvariant'
<1>1. now < ingest[i].deadline /\ UNCHANGED << events, totals >>
  BY DEF PlanRetention, Rolling, Alive
<1>2. PICK y : y = ingest[i] /\ IsRun(y) /\ IngestStands(i, y)
  BY RunFacts
<1>3. EventsKept' /\ TotalsHold(y.now)'
  BY <1>1, <1>2, RunFacts, EventsRest DEF TotalsHold
<1>4. CASE RunFails(i)
  BY <1>1, <1>2, <1>3, <1>4, RollupMoves
<1>5. CASE ~RunFails(i)
  <2>1. PICK q : q = PastRetention(y.now)
    OBVIOUS
  <2>2. PICK x : x = [y EXCEPT !.pc = "expiring", !.known = q]
    OBVIOUS
  <2>3. ingest' = [ingest EXCEPT ![i] = x] /\ UNCHANGED costLease
    BY <1>2, <1>5, <2>1, <2>2 DEF PlanRetention
  <2>4. IsRun(x) /\ x.now = y.now /\ x.deadline = y.deadline /\ x.pc = "expiring" /\ x.known = q
    BY <1>2, <2>2 DEF IsRun
  <2>5. \A z \in x.known : z.at < x.now - Retention
    BY <2>1, <2>4 DEF PastRetention
  <2> QED BY <1>1, <1>2, <1>3, <2>3, <2>4, <2>5, RollupMoves
<1> QED BY <1>4, <1>5

LEMMA ExpireEventsKeeps ==
  ASSUME DirectoryInvariant, CostInvariant, NEW i \in Runs, ExpireEvents(i),
         UNCHANGED << now, bill, usage, guard, resource >>
  PROVE  CostInvariant'
<1>1. now < ingest[i].deadline /\ UNCHANGED totals /\ ingest[i].pc = "expiring" /\ EventsKept
  BY DEF ExpireEvents, Rolling, Alive, CostInvariant
<1>2. PICK y : y = ingest[i] /\ IsRun(y) /\ IngestStands(i, y)
  BY RunFacts
<1>3. /\ \A z \in y.known : z.at < y.now - Retention
      /\ y.now \in Nat /\ TotalsHold(y.now)
  BY <1>1, <1>2 DEF IngestStands
<1>4. events' \in {events, events \ y.known}
  BY <1>2 DEF ExpireEvents
<1>5. EventsKept'
  <2>1. events' \subseteq events
    BY <1>4
  <2>2. IsFiniteSet(events')
    BY <1>1, <2>1, FS_Subset DEF EventsKept
  <2> QED BY <1>1, <2>1, <2>2 DEF EventsKept
<1>6. TotalsHold(y.now)'
  <2> SUFFICES ASSUME NEW c \in Cells, WholeAt(c, y.now) PROVE totals'[c] <= Count(c, events')
    BY <1>2 DEF TotalsHold
  <2>1. Count(c, events \ y.known) = Count(c, events)
    BY <1>1, <1>3, ExpiryLeavesDays
  <2>2. Count(c, events') = Count(c, events)
    BY <1>4, <2>1
  <2> QED BY <1>1, <1>3, <2>2 DEF TotalsHold
<1>7. CASE RunFails(i)
  BY <1>1, <1>2, <1>5, <1>6, <1>7, RollupMoves
<1>8. CASE ~RunFails(i)
  <2>1. PICK x : x = [y EXCEPT !.pc = "counting"]
    OBVIOUS
  <2>2. ingest' = [ingest EXCEPT ![i] = x] /\ UNCHANGED costLease
    BY <1>2, <1>8, <2>1 DEF ExpireEvents, RunsTo
  <2>3. IsRun(x) /\ x.now = y.now /\ x.deadline = y.deadline /\ x.pc = "counting" /\ x.known = y.known
    BY <1>2, <2>1 DEF IsRun
  <2> QED BY <1>1, <1>2, <1>3, <1>5, <1>6, <2>2, <2>3, RollupMoves
<1> QED BY <1>7, <1>8

LEMMA AggregateKeeps ==
  ASSUME DirectoryInvariant, CostInvariant, NEW i \in Runs, Aggregate(i),
         UNCHANGED << now, bill, usage, guard, resource >>
  PROVE  CostInvariant'
<1>1. now < ingest[i].deadline /\ UNCHANGED << events, totals >> /\ EventsKept
  BY DEF Aggregate, Rolling, Alive, CostInvariant
<1>2. PICK y : y = ingest[i] /\ IsRun(y) /\ IngestStands(i, y)
  BY RunFacts
<1>3. EventsKept' /\ TotalsHold(y.now)' /\ TotalsHold(y.now)
  BY <1>1, <1>2, RunFacts, EventsRest DEF TotalsHold
<1>4. CASE RunFails(i)
  BY <1>1, <1>2, <1>3, <1>4, RollupMoves
<1>5. CASE ~RunFails(i)
  <2>1. PICK q : q = [c \in Touched(events) \cup Touched(y.known) |-> Count(c, events)]
    OBVIOUS
  <2>2. PICK x : x = [y EXCEPT !.pc = "rolling", !.rows = q]
    OBVIOUS
  <2>3. ingest' = [ingest EXCEPT ![i] = x] /\ UNCHANGED costLease
    BY <1>2, <1>5, <2>1, <2>2 DEF Aggregate, Counted
  <2>4. IsRun(x) /\ x.now = y.now /\ x.deadline = y.deadline /\ x.pc = "rolling" /\ x.rows = q
    BY <1>2, <2>2 DEF IsRun
  <2>5. \A c : /\ Count(c, Certain(x)) \in Nat /\ Count(c, events) \in Nat
               /\ Count(c, Certain(x)) <= Count(c, events)
    BY <1>1, CountGrows DEF EventsKept, Certain
  <2>6. /\ DOMAIN q \subseteq Cells /\ Touched(events) \subseteq DOMAIN q
        /\ \A c \in DOMAIN q : q[c] = Count(c, events)
    BY <2>1 DEF Touched
  <2>7. TotalsSoFar(x)
    <3>1. ASSUME NEW c \in Cells \ DOMAIN q, WholeAt(c, y.now)
          PROVE  (IF totals[c] = NoTotal THEN 0 ELSE totals[c])
                    \in Count(c, Certain(x))..Count(c, events)
      <4>1. Count(c, events) = 0 /\ Count(c, Certain(x)) = 0
        BY <2>5, <2>6 DEF Touched
      <4>2. totals[c] \in Nat \cup {NoTotal} /\ totals[c] <= Count(c, events)
        BY <1>1, <1>3, <3>1 DEF EventsKept, TotalsHold
      <4> QED BY <4>1, <4>2 DEF NoTotal
    <3> QED BY <2>4, <2>5, <2>6, <3>1 DEF TotalsSoFar
  <2>8. TotalsSoFar(x)'
    BY <1>1, <2>7 DEF TotalsSoFar, Certain
  <2> QED BY <1>1, <1>2, <1>3, <2>3, <2>4, <2>8, RollupMoves
<1> QED BY <1>4, <1>5

LEMMA UpsertAggregateKeeps ==
  ASSUME DirectoryInvariant, CostInvariant, NEW i \in Runs, UpsertAggregate(i),
         UNCHANGED << now, bill, usage, guard, resource >>
  PROVE  CostInvariant'
<1>1. now < ingest[i].deadline /\ UNCHANGED events /\ ingest[i].pc = "rolling" /\ EventsKept
  BY DEF UpsertAggregate, Rolling, Alive, CostInvariant
<1>2. PICK y : y = ingest[i] /\ IsRun(y) /\ IngestStands(i, y)
  BY RunFacts
<1>3. TotalsSoFar(y) /\ TotalsHold(y.now)
  BY <1>1, <1>2 DEF IngestStands
<1>4. PICK c \in DOMAIN y.rows :
        /\ totals' \in {totals, [totals EXCEPT ![c] = y.rows[c]]}
        /\ \/ RunFails(i)
           \/ /\ totals' = [totals EXCEPT ![c] = y.rows[c]]
              /\ ingest' = [ingest EXCEPT ![i].rows = [z \in DOMAIN y.rows \ {c} |-> y.rows[z]]]
              /\ UNCHANGED costLease
  BY <1>2 DEF UpsertAggregate
<1>5. /\ c \in Cells /\ y.rows[c] \in Nat
      /\ Count(c, Certain(y)) <= y.rows[c] /\ y.rows[c] <= Count(c, events)
  BY <1>3, <1>4 DEF TotalsSoFar
<1>6. /\ totals' \in [Cells -> Nat \cup {NoTotal}]
      /\ \A d \in Cells \ {c} : totals'[d] = totals[d]
      /\ totals'[c] \in {totals[c], y.rows[c]}
  BY <1>1, <1>4, <1>5 DEF EventsKept
<1>7. EventsKept'
  BY <1>1, <1>6 DEF EventsKept
<1>8. TotalsHold(y.now)'
  <2> SUFFICES ASSUME NEW d \in Cells, WholeAt(d, y.now) PROVE totals'[d] <= Count(d, events)
    BY <1>1, <1>2 DEF TotalsHold
  <2>1. totals[d] <= Count(d, events)
    BY <1>3 DEF TotalsHold
  <2> QED BY <1>5, <1>6, <2>1
<1>9. CASE RunFails(i)
  BY <1>1, <1>2, <1>7, <1>8, <1>9, RollupMoves
<1>10. CASE ~RunFails(i)
  <2>1. PICK q : q = [z \in DOMAIN y.rows \ {c} |-> y.rows[z]]
    OBVIOUS
  <2>2. PICK x : x = [y EXCEPT !.rows = q]
    OBVIOUS
  <2>3. ingest' = [ingest EXCEPT ![i] = x] /\ UNCHANGED costLease
    BY <1>2, <1>4, <1>10, <2>1, <2>2
  <2>4. IsRun(x) /\ x.now = y.now /\ x.deadline = y.deadline /\ x.pc = "rolling" /\ x.rows = q
    BY <1>1, <1>2, <2>2 DEF IsRun
  <2>5. totals'[c] = y.rows[c]
    BY <1>1, <1>4, <1>5, <1>10 DEF EventsKept
  <2>6. DOMAIN q = DOMAIN y.rows \ {c} /\ \A d \in DOMAIN q : q[d] = y.rows[d]
    BY <2>1
  <2>7. \A d : /\ Count(d, Certain(x)) = Count(d, Certain(y))
               /\ Count(d, Certain(y)) \in Nat /\ Count(d, events) \in Nat
    BY <1>1, <2>4, CountGrows DEF EventsKept, Certain
  <2>8. (IF totals'[c] = NoTotal THEN 0 ELSE totals'[c]) \in Count(c, Certain(y))..Count(c, events)
    BY <1>5, <2>5, <2>7 DEF NoTotal
  <2>9. /\ \A d \in DOMAIN q :
             d \in Cells /\ q[d] \in Nat
             /\ Count(d, Certain(x)) <= q[d] /\ q[d] <= Count(d, events)
        /\ \A d \in Cells \ DOMAIN q : WholeAt(d, y.now) =>
             (IF totals'[d] = NoTotal THEN 0 ELSE totals'[d])
                \in Count(d, Certain(x))..Count(d, events)
    <3>1. ASSUME NEW d \in DOMAIN q
          PROVE  /\ d \in Cells /\ q[d] \in Nat
                 /\ Count(d, Certain(x)) <= q[d] /\ q[d] <= Count(d, events)
      BY <1>3, <2>6, <2>7 DEF TotalsSoFar
    <3>2. ASSUME NEW d \in Cells \ DOMAIN q, WholeAt(d, y.now), d # c
          PROVE  (IF totals'[d] = NoTotal THEN 0 ELSE totals'[d])
                    \in Count(d, Certain(x))..Count(d, events)
      <4>1. d \in Cells \ DOMAIN y.rows /\ totals'[d] = totals[d]
        BY <1>6, <2>6, <3>2
      <4>2. Count(d, Certain(x)) = Count(d, Certain(y))
        BY <2>7
      <4> QED BY <1>3, <3>2, <4>1, <4>2 DEF TotalsSoFar
    <3>3. ASSUME NEW d \in Cells \ DOMAIN q, WholeAt(d, y.now), d = c
          PROVE  (IF totals'[d] = NoTotal THEN 0 ELSE totals'[d])
                    \in Count(d, Certain(x))..Count(d, events)
      <4>1. Count(c, Certain(x)) = Count(c, Certain(y))
        BY <2>7
      <4> QED BY <2>8, <3>3, <4>1
    <3> QED BY <3>1, <3>2, <3>3
  <2>10. TotalsSoFar(x)'
    BY <1>1, <2>4, <2>9 DEF TotalsSoFar, Certain
  <2> QED BY <1>1, <1>2, <1>7, <1>8, <2>3, <2>4, <2>10, RollupMoves
<1> QED BY <1>9, <1>10

LEMMA RollupDoneKeeps ==
  ASSUME DirectoryInvariant, CostInvariant, NEW i \in Runs, RollupDone(i),
         UNCHANGED << now, bill, usage, guard, resource >>
  PROVE  CostInvariant'
<1>1. now < ingest[i].deadline /\ UNCHANGED << events, totals, costLease >>
  BY DEF RollupDone, Rolling, Alive
<1>2. PICK y : y = ingest[i] /\ IsRun(y)
  BY RunFacts
<1>3. EventsKept' /\ TotalsHold(y.now)'
  BY <1>1, <1>2, RunFacts, EventsRest DEF TotalsHold
<1>4. PICK x : x = [y EXCEPT !.pc = "completed"]
  OBVIOUS
<1>5. ingest' = [ingest EXCEPT ![i] = x]
  BY <1>2, <1>4 DEF RollupDone, RunsTo
<1>6. IsRun(x) /\ x.now = y.now /\ x.deadline = y.deadline /\ x.pc = "completed"
  BY <1>2, <1>4 DEF IsRun
<1> QED BY <1>1, <1>2, <1>3, <1>5, <1>6, RollupMoves

(* An event is recorded under any run: it is not certain for any of them.   *)
LEMMA RecordEventKeeps ==
  ASSUME DirectoryInvariant, CostInvariant, NEW p \in People, RecordVisit(p) \/ RecordRun(p),
         UNCHANGED << now, bill, usage, guard, resource >>
  PROVE  CostInvariant'
<1>1. now \in 0..MaxTime /\ now \in Nat /\ IngestKept /\ BillKept /\ EventsKept /\ TotalsHold(now)
  BY NowIsBounded DEF DirectoryInvariant, BudgetKept, CostInvariant
<1>2. PICK at \in Nat : at <= now /\ now <= at + TickDelay /\ RecordEvent(p, at)
  <2>1. CASE RecordVisit(p)
    BY <1>1, <2>1, LimitsTyped DEF RecordVisit
  <2>2. CASE RecordRun(p)
    BY <1>1, <2>2, LimitsTyped DEF RecordRun
  <2> QED BY <2>1, <2>2
<1>3. PICK z : z = [id |-> budget["visits"], by |-> p, at |-> at]
  OBVIOUS
<1>4. /\ events' = events \cup {z} /\ UNCHANGED << totals, ingest, costLease >> /\ z.at = at
  BY <1>2, <1>3 DEF RecordEvent
<1>5. z \in ActivityEvent
  <2>1. at \in 0..MaxTime
    BY <1>1, <1>2, LimitsTyped
  <2>2. budget["visits"] \in Nat
    BY KindsNamed DEF DirectoryInvariant, BudgetKept
  <2> QED BY <1>3, <2>1, <2>2 DEF ActivityEvent
<1>6. EventsKept'
  <2>1. IsFiniteSet(events')
    BY <1>1, <1>4, FS_AddElement DEF EventsKept
  <2> QED BY <1>1, <1>2, <1>4, <1>5, <2>1 DEF EventsKept
<1>7. \A c : /\ Count(c, events) \in Nat /\ Count(c, events') \in Nat
             /\ Count(c, events) <= Count(c, events')
  BY <1>4, <1>6, CountGrows DEF EventsKept
<1>8. \A t : TotalsHold(t) => TotalsHold(t)'
  <2> SUFFICES ASSUME NEW t, TotalsHold(t), NEW c \in Cells, WholeAt(c, t)
               PROVE  totals[c] <= Count(c, events')
    BY <1>4 DEF TotalsHold
  <2>1. totals[c] \in Int /\ totals[c] <= Count(c, events)
    BY <1>1 DEF EventsKept, TotalsHold, NoTotal
  <2> QED BY <1>7, <2>1
<1>9. TotalsHold(now)'
  <2>1. PICK t : t = now
    OBVIOUS
  <2>2. TotalsHold(t)'
    BY <1>1, <1>8, <2>1
  <2> QED BY <2>1, <2>2
<1>10. BillKept'
  BY <1>1, <1>4 DEF BillKept, Stopped
<1>11. ASSUME NEW i \in Runs, NEW x, IngestStands(i, x) PROVE IngestStands(i, x)'
  <2>1. x.now \in Nat /\ x.now <= now
    BY <1>11 DEF IngestStands
  <2>2. Certain(x)' = Certain(x)
    BY <1>1, <1>2, <1>4, <2>1, LimitsTyped DEF Certain
  <2>3. PICK certain : certain = Certain(x)
    OBVIOUS
  <2>4. TotalsSoFar(x) => TotalsSoFar(x)'
    <3> SUFFICES ASSUME TotalsSoFar(x) PROVE TotalsSoFar(x)'
      OBVIOUS
    <3>1. ASSUME NEW c \in DOMAIN x.rows
          PROVE  /\ c \in Cells /\ x.rows[c] \in Nat
                 /\ Count(c, certain) <= x.rows[c] /\ x.rows[c] <= Count(c, events')
      <4>1. /\ c \in Cells /\ x.rows[c] \in Nat
            /\ Count(c, certain) <= x.rows[c] /\ x.rows[c] <= Count(c, events)
        BY <2>3 DEF TotalsSoFar
      <4> QED BY <1>7, <4>1
    <3>2. ASSUME NEW c \in Cells \ DOMAIN x.rows, WholeAt(c, x.now)
          PROVE  (IF totals'[c] = NoTotal THEN 0 ELSE totals'[c])
                    \in Count(c, certain)..Count(c, events')
      <4>1. PICK total : total = IF totals[c] = NoTotal THEN 0 ELSE totals[c]
        OBVIOUS
      <4>2. total \in Count(c, certain)..Count(c, events)
        BY <2>3, <3>2, <4>1 DEF TotalsSoFar
      <4>3. total = IF totals'[c] = NoTotal THEN 0 ELSE totals'[c]
        BY <1>4, <4>1
      <4>4. Count(c, certain) \in Nat
        BY <1>1, <2>3, CountGrows DEF EventsKept, Certain
      <4>5. total \in Count(c, certain)..Count(c, events')
        BY <1>7, <4>2, <4>4
      <4> QED BY <4>3, <4>5
    <3> QED BY <2>2, <2>3, <3>1, <3>2 DEF TotalsSoFar, WholeAt
  <2>5. /\ IsRun(x) /\ x.pc \in RunSteps /\ x.deadline \in Nat
        /\ x.pc = "idle" => x.deadline = 0
        /\ x.pc = "storing" =>
              DOMAIN x.rows \subseteq Entries /\ \A e \in DOMAIN x.rows : x.rows[e] \in 0..MaxBill
        /\ x.pc = "enforcing" => DOMAIN x.seen = {} /\ x.off = NoResource
        /\ x.pc \in EnforcingSteps =>
              /\ DOMAIN x.seen \subseteq Resources
              /\ x.off # NoResource => x.off \in DOMAIN x.seen /\ ~resource'[x.off].on
        /\ x.pc \in {"expiring", "counting"} => \A y \in x.known : y.at < x.now - Retention
    BY <1>11 DEF IngestStands
  <2>6. StopsSoFar(x) => StopsSoFar(x)'
    BY StopsAreKept DEF StopsSoFar, Stopped
  <2>7. now < x.deadline =>
           /\ costLease'.owner = i /\ x.deadline <= costLease'.until
           /\ TotalsHold(x.now)'
           /\ x.pc \in EnforcingSteps => StopsSoFar(x)'
           /\ x.pc = "rolling" => TotalsSoFar(x)'
    BY <1>4, <1>8, <1>11, <2>4, <2>6 DEF IngestStands
  <2> QED BY <2>1, <2>5, <2>7 DEF IngestStands
<1>12. IngestKept'
  <2> SUFFICES ASSUME NEW i \in Runs PROVE IngestStands(i, ingest[i])'
    BY <1>1, <1>4 DEF IngestKept
  <2>1. PICK x : x = ingest[i] /\ x = ingest'[i]
    BY <1>4
  <2>2. IngestStands(i, x)'
    BY <1>1, <1>11, <2>1 DEF IngestKept
  <2> QED BY <2>1, <2>2
<1> QED BY <1>6, <1>9, <1>10, <1>12 DEF CostInvariant

LEMMA ActivityStepKeeps ==
  ASSUME DirectoryInvariant, CostInvariant, ActivityNext, UNCHANGED directoryKept,
         UNCHANGED << bill, usage, guard, resource >>
  PROVE  CostInvariant'
<1>1. UNCHANGED << now, bill, usage, guard, resource >>
  BY DEF directoryKept
<1> QED BY <1>1, RecordEventKeeps, PlanRetentionKeeps, ExpireEventsKeeps, AggregateKeeps,
           UpsertAggregateKeeps, RollupDoneKeeps DEF ActivityNext

LEMMA CostsInitially == ASSUME Init PROVE CostInvariant
<1>1. now = 0 /\ \A i \in Runs : ingest[i] = IdleRun
  BY DEF Init, DirectoryInit, CostInit
<1>2. BillKept
  <2>1. NotStored \in UsageRecord
    BY LimitsTyped DEF NotStored, UsageRecord
  <2>2. usage \in [Entries -> UsageRecord] /\ bill \in [Entries -> 0..MaxBill]
    BY <2>1, LimitsTyped DEF Init, CostInit
  <2>3. guard \in GuardRecord /\ guard.at <= now
    BY <1>1, LimitsTyped DEF Init, CostInit, GuardRecord
  <2>4. /\ costLease \in [owner : Runs \cup {Free}, until : Nat]
        /\ resource \in [Resources -> [state : {"active", "paused"}, version : Nat, on : BOOLEAN]]
        /\ \A r \in Resources : resource[r].state # "paused"
    BY DEF Init, CostInit
  <2> QED BY <2>2, <2>3, <2>4 DEF BillKept
<1>3. EventsKept /\ TotalsHold(now)
  <2>1. events = {} /\ totals \in [Cells -> Nat \cup {NoTotal}] /\ \A c \in Cells : totals[c] = -1
    BY DEF Init, ActivityInit, NoTotal
  <2>2. IsFiniteSet(events) /\ \A c : Count(c, events) \in Nat
    BY <2>1, FS_EmptySet, CountIsNatural
  <2> QED BY <2>1, <2>2 DEF EventsKept, TotalsHold
<1>4. IngestKept
  BY <1>1, IdleRunStands DEF IngestKept, Init, CostInit
<1> QED BY <1>2, <1>3, <1>4 DEF CostInvariant

(* Every step is one of the ingest job's, or leaves it what it relies on.   *)
LEMMA StepsOfTheJob ==
  ASSUME DirectoryInvariant, [Next]_vars
  PROVE  \/ CostNext /\ UNCHANGED directoryKept /\ UNCHANGED activityVars
         \/ /\ ActivityNext /\ UNCHANGED directoryKept
            /\ UNCHANGED << bill, usage, guard, resource >>
         \/ /\ UNCHANGED << bill, usage, guard, costLease, ingest, events, totals >>
            /\ \/ UNCHANGED resource
               \/ resource' = [resource EXCEPT ![App].version = @ + 1]
<1>1. CASE DirectoryNext /\ UNCHANGED << slackVars, costVars, accessVars, activityVars >>
  BY <1>1 DEF costVars, activityVars
<1>2. CASE SlackNext /\ UNCHANGED << directoryKept, costVars, accessVars, activityVars >>
  BY <1>2 DEF costVars, activityVars
<1>3. CASE CostNext /\ UNCHANGED << directoryKept, slackVars, accessVars, activityVars >>
  BY <1>3
<1>4. CASE AccessNext /\ UNCHANGED << directoryKept, slackVars, bill, usage, guard, costLease,
                                      ingest, activityVars >>
  <2>1. UNCHANGED resource \/ resource' = [resource EXCEPT ![App].version = @ + 1]
    BY ZenonT(60), <1>4 DEF AccessNext, SignRequest, SendCommand, DropClaim, RotateKeys, ArrivalStep,
       ArriveAtGateway, ArriveAtControlPlane, ArriveFromSlack, LookUpKey, FetchKeys, StoreKeys,
       LookAgain, AskControlPlane, Claim, DecideApp, RecordActivity, DecideControl, ReadInstall,
       DecideSlack, Serve, Abandon
  <2> QED BY <1>4, <2>1 DEF activityVars
<1>5. CASE ActivityNext /\ UNCHANGED << directoryKept, slackVars, accessVars,
                                        bill, usage, guard, resource >>
  BY <1>5
<1>6. CASE UNCHANGED vars
  BY <1>6 DEF vars, costVars, activityVars
<1> QED BY <1>1, <1>2, <1>3, <1>4, <1>5, <1>6 DEF Next

LEMMA CostInvariantHolds == Spec => [](DirectoryInvariant /\ CostInvariant)
<1>1. Init => CostInvariant
  BY CostsInitially
<1>2. DirectoryInvariant /\ CostInvariant /\ [Next]_vars => CostInvariant'
  <2> SUFFICES ASSUME DirectoryInvariant, CostInvariant, [Next]_vars PROVE CostInvariant'
    OBVIOUS
  <2>1. now \in Nat /\ now' \in Nat /\ now <= now'
    BY TimeOnlyPasses
  <2> QED BY <2>1, StepsOfTheJob, CostStepKeeps, ActivityStepKeeps, CostsRest
<1> QED BY <1>1, <1>2, DirectoryInvariantHolds, PTL DEF Spec

--------------------------------------------------------------------------------
(* A step of the job is one run's.                                          *)
RollupStep(i) ==
    PlanRetention(i) \/ ExpireEvents(i) \/ Aggregate(i) \/ UpsertAggregate(i) \/ RollupDone(i)

LEMMA RunsMoveAlone ==
  ASSUME IngestKept, NEW i \in Runs, ingest'[i] # ingest[i], CostNext \/ ActivityNext
  PROVE  IngestStep(i) \/ RollupStep(i)
<1>1. \A e \in Entries : ~ChangeBill(e)
  BY DEF ChangeBill
<1>2. \A p \in People : ~RecordVisit(p) /\ ~RecordRun(p)
  BY DEF RecordVisit, RecordRun, RecordEvent
<1>3. PICK j \in Runs : IngestStep(j) \/ RollupStep(j)
  BY <1>1, <1>2 DEF CostNext, ActivityNext, RollupStep
<1>4. SUFFICES ASSUME i # j PROVE FALSE
  BY <1>3
<1>5. ingest = [k \in Runs |-> ingest[k]]
  BY DEF IngestKept
<1>6. CASE IngestStep(j)
  BY <1>4, <1>5, <1>6 DEF IngestStep, StartIngest, FetchBill, StoreEntry, PersistGuard,
     ListResources, SavePaused, ScopeDone, IngestDone, ReleaseIngest, RunEnds, SwitchOff, RunFails,
     RunsTo
<1>7. CASE RollupStep(j)
  BY <1>4, <1>5, <1>7 DEF RollupStep, PlanRetention, ExpireEvents, Aggregate, UpsertAggregate,
     RollupDone, RunFails, RunsTo
<1> QED BY <1>3, <1>6, <1>7

(* Where each step leaves its run.                                          *)
LEMMA WhereRunsGo ==
  ASSUME IngestKept, NEW i \in Runs, IngestStep(i) \/ RollupStep(i)
  PROVE  /\ ingest'[i].pc = "billed" => IngestDone(i) \/ ingest[i].pc = "billed"
         /\ ingest'[i].pc = "completed" => RollupDone(i) \/ ingest[i].pc = "completed"
<1>1. PICK y : y = ingest[i] /\ IsRun(y)
  BY DEF IngestKept, IngestStands
<1>2. ingest = [k \in Runs |-> ingest[k]] /\ IdleRun.pc = "idle"
  BY DEF IngestKept, IdleRun
<1>3. RunFails(i) => ingest'[i].pc = "idle"
  BY <1>2 DEF RunFails
<1>4. ASSUME NEW pc, RunsTo(i, pc) PROVE ingest'[i].pc = pc
  BY <1>1, <1>2, <1>4 DEF RunsTo, IsRun
<1>5. CASE StartIngest(i)
  BY <1>1, <1>2, <1>5 DEF StartIngest, IsRun
<1>6. CASE FetchBill(i)
  BY <1>1, <1>2, <1>3, <1>6 DEF FetchBill, IsRun
<1>7. CASE StoreEntry(i)
  BY <1>1, <1>2, <1>3, <1>7 DEF StoreEntry, IsRun
<1>8. CASE PersistGuard(i)
  <2>1. [IdleRun EXCEPT !.pc = "enforcing", !.now = y.now, !.deadline = y.deadline,
            !.todo = Owners \cup (IF EmergencyStop THEN {Shared} ELSE {})].pc = "enforcing"
    BY DEF IdleRun
  <2> QED BY <1>1, <1>2, <1>3, <1>8, <2>1 DEF PersistGuard
<1>9. CASE ListResources(i)
  BY <1>1, <1>2, <1>9 DEF ListResources, IsRun
<1>10. CASE SavePaused(i)
  BY <1>1, <1>2, <1>3, <1>10 DEF SavePaused, Pausing, IsRun
<1>11. CASE ScopeDone(i)
  BY <1>4, <1>11 DEF ScopeDone
<1>12. CASE IngestDone(i)
  BY <1>4, <1>12 DEF IngestDone
<1>13. CASE ReleaseIngest(i) \/ RunEnds(i)
  BY <1>2, <1>3, <1>13 DEF ReleaseIngest, RunEnds
<1>14. ASSUME NEW r \in Resources, SwitchOff(i, r)
       PROVE  ingest'[i].pc \in {"idle", "stopping", "pausing"}
  BY <1>1, <1>2, <1>3, <1>14 DEF SwitchOff, Pausing, IsRun
<1>15. CASE PlanRetention(i)
  BY <1>1, <1>2, <1>3, <1>15 DEF PlanRetention, IsRun
<1>16. CASE ExpireEvents(i)
  BY <1>3, <1>4, <1>16 DEF ExpireEvents
<1>17. CASE Aggregate(i)
  BY <1>1, <1>2, <1>3, <1>17 DEF Aggregate, IsRun
<1>18. CASE UpsertAggregate(i)
  BY <1>1, <1>2, <1>3, <1>18 DEF UpsertAggregate, Rolling, IsRun
<1>19. CASE RollupDone(i)
  BY <1>4, <1>19 DEF RollupDone
<1> QED BY <1>5, <1>6, <1>7, <1>8, <1>9, <1>10, <1>11, <1>12, <1>13, <1>14, <1>15, <1>16, <1>17,
           <1>18, <1>19 DEF IngestStep, RollupStep

(* A run of the ingest job that comes through its bill has stopped all its  *)
(* stored entries say must stop (_pause_all_resources,                      *)
(* _pause_owner_resources, adapters/cost_enforcement.py): until its task    *)
(* ends it has the lease and nothing stored changes under it, and what it   *)
(* has listed and not yet saved it still holds.                             *)
THEOREM CompletedRunsStop == Spec => CompletedRunStops
<1> DEFINE Comes ==
      \A i \in Runs : ingest[i].pc = "enforcing" /\ ingest'[i].pc = "billed" =>
         \A r \in Resources :
            EmergencyStop \/ Pause(ResourceOwner[r]) => resource[r].state = "paused" /\ ~resource[r].on
<1>1. DirectoryInvariant /\ CostInvariant /\ [Next]_vars => Comes
  <2> SUFFICES ASSUME DirectoryInvariant, CostInvariant, [Next]_vars, NEW i \in Runs,
                      ingest[i].pc = "enforcing", ingest'[i].pc = "billed", NEW r \in Resources,
                      EmergencyStop \/ Pause(ResourceOwner[r])
               PROVE  resource[r].state = "paused" /\ ~resource[r].on
    OBVIOUS
  <2>1. IngestDone(i)
    BY StepsOfTheJob, RunsMoveAlone, WhereRunsGo DEF CostInvariant
  <2>2. PICK y : y = ingest[i] /\ IngestStands(i, y)
    BY DEF CostInvariant, IngestKept
  <2>3. y.pc = "enforcing" /\ y.todo = {} /\ now < y.deadline
    BY <2>1, <2>2 DEF IngestDone, Alive
  <2>4. StopsSoFar(y) /\ DOMAIN y.seen = {}
    BY <2>2, <2>3 DEF IngestStands, EnforcingSteps
  <2> QED BY <2>3, <2>4 DEF StopsSoFar, Stopped
<1>2. DirectoryInvariant /\ CostInvariant /\ [Next]_vars => [Comes]_ingest
  BY <1>1
<1> QED BY <1>2, CostInvariantHolds, PTL DEF Spec, CompletedRunStops

(* A run that reports success has caught up (rollup_persisted_activity,     *)
(* _upsert_aggregate): what it has written is what it has counted, and what *)
(* it counted no other run has changed since.                               *)
THEOREM RollupsCatchUp == Spec => RollupCatchesUp
<1> DEFINE Catches ==
      \A i \in Runs : ingest[i].pc # "completed" /\ ingest'[i].pc = "completed" =>
         \A c \in Cells : c[1] * DayLength >= ingest[i].now - Retention =>
            LET certain == {x \in events : x.at + TickDelay < ingest[i].now}
                total   == IF totals[c] = NoTotal THEN 0 ELSE totals[c]
            IN  total \in Count(c, certain)..Count(c, events)
<1>1. DirectoryInvariant /\ CostInvariant /\ [Next]_vars => Catches
  <2> SUFFICES ASSUME DirectoryInvariant, CostInvariant, [Next]_vars, NEW i \in Runs,
                      ingest[i].pc # "completed", ingest'[i].pc = "completed", NEW c \in Cells,
                      c[1] * DayLength >= ingest[i].now - Retention
               PROVE  (IF totals[c] = NoTotal THEN 0 ELSE totals[c])
                         \in Count(c, {x \in events : x.at + TickDelay < ingest[i].now})
                             ..Count(c, events)
    OBVIOUS
  <2>1. RollupDone(i)
    BY StepsOfTheJob, RunsMoveAlone, WhereRunsGo DEF CostInvariant
  <2>2. PICK y : y = ingest[i] /\ IngestStands(i, y)
    BY DEF CostInvariant, IngestKept
  <2>3. y.pc = "rolling" /\ y.rows = << >> /\ now < y.deadline
    BY <2>1, <2>2 DEF RollupDone, Rolling, Alive
  <2>4. DOMAIN << >> = {}
    OBVIOUS
  <2>5. TotalsSoFar(y) /\ c \notin DOMAIN y.rows /\ WholeAt(c, y.now)
    BY <2>2, <2>3, <2>4 DEF IngestStands, WholeAt
  <2>6. (IF totals[c] = NoTotal THEN 0 ELSE totals[c]) \in Count(c, Certain(y))..Count(c, events)
    BY <2>5 DEF TotalsSoFar
  <2> QED BY <2>2, <2>6 DEF Certain
<1>2. DirectoryInvariant /\ CostInvariant /\ [Next]_vars => [Catches]_ingest
  BY <1>1
<1> QED BY <1>2, CostInvariantHolds, PTL DEF Spec, RollupCatchesUp

--------------------------------------------------------------------------------
(* What a sum over the subset s of a domain is, when g has the sums of the   *)
(* smaller ones.                                                            *)
Unfolded(f, g, s) ==
    IF s = {} THEN 0
    ELSE LET x == CHOOSE x \in s : TRUE IN f[x] + g[s \ {x}]

Sums(f, S, g) == g = [s \in SUBSET S |-> Unfolded(f, g, s)]

LEMMA LeastNumber ==
  ASSUME NEW T, T \subseteq Nat, T # {}
  PROVE  \E n \in T : \A m \in T : ~ m < n
<1>1. \E n \in T : \A m \in T : ~ (<<m, n>> \in OpToRel(<, Nat))
  BY NatLessThanWellFounded, WFMin
<1> QED BY <1>1 DEF OpToRel

LEMMA UnfoldedIsNumber ==
  ASSUME NEW S, NEW f \in [S -> Nat], NEW g \in [SUBSET S -> Nat], NEW s \in SUBSET S
  PROVE  Unfolded(f, g, s) \in Nat
<1>1. CASE s = {}
  BY <1>1 DEF Unfolded
<1>2. CASE s # {}
  <2>1. PICK x : x = CHOOSE z \in s : TRUE
    OBVIOUS
  <2>2. x \in s
    BY <1>2, <2>1
  <2>3. f[x] \in Nat /\ g[s \ {x}] \in Nat
    BY <2>2
  <2>4. Unfolded(f, g, s) = f[x] + g[s \ {x}]
    BY <1>2, <2>1 DEF Unfolded
  <2> QED BY <2>3, <2>4
<1> QED BY <1>1, <1>2

LEMMA SumsExist ==
  ASSUME NEW S, IsFiniteSet(S), NEW f \in [S -> Nat]
  PROVE  \E g \in [SUBSET S -> Nat] : Sums(f, S, g)
<1> DEFINE UpTo(n) == \E g \in [SUBSET S -> Nat] : \A s \in SUBSET S :
                         Cardinality(s) <= n => g[s] = Unfolded(f, g, s)
           Beyond == {n \in Nat : ~UpTo(n)}
<1> HIDE DEF UpTo
<1>1. \A s \in SUBSET S : IsFiniteSet(s) /\ Cardinality(s) \in Nat
                          /\ Cardinality(s) <= Cardinality(S)
                          /\ (Cardinality(s) = 0 <=> s = {})
                          /\ \A x \in s : Cardinality(s \ {x}) = Cardinality(s) - 1
  BY FS_Subset, FS_CardinalityType, FS_EmptySet, FS_RemoveElement
<1>2. UpTo(0)
  <2> DEFINE g == [s \in SUBSET S |-> 0]
  <2>1. g \in [SUBSET S -> Nat]
    OBVIOUS
  <2>2. ASSUME NEW s \in SUBSET S, Cardinality(s) <= 0 PROVE g[s] = Unfolded(f, g, s)
    <3>1. s = {}
      BY <1>1, <2>2
    <3> QED BY <3>1 DEF Unfolded
  <2> QED BY <2>1, <2>2 DEF UpTo
<1>3. ASSUME NEW n \in Nat, UpTo(n) PROVE UpTo(n + 1)
  <2>1. PICK g \in [SUBSET S -> Nat] : \A s \in SUBSET S : Cardinality(s) <= n => g[s] = Unfolded(f, g, s)
    BY <1>3 DEF UpTo
  <2> DEFINE h == [s \in SUBSET S |-> Unfolded(f, g, s)]
  <2>2. h \in [SUBSET S -> Nat]
    BY UnfoldedIsNumber
  <2>3. ASSUME NEW s \in SUBSET S, Cardinality(s) <= n + 1 PROVE h[s] = Unfolded(f, h, s)
    <3>1. CASE s = {}
      BY <3>1 DEF Unfolded
    <3>2. CASE s # {}
      <4>1. PICK x : x = CHOOSE z \in s : TRUE
        OBVIOUS
      <4>2. x \in s
        BY <3>2, <4>1
      <4>3. s \ {x} \in SUBSET S /\ Cardinality(s \ {x}) <= n
        BY <1>1, <2>3, <4>2
      <4>4. g[s \ {x}] = h[s \ {x}]
        BY <2>1, <4>3
      <4>5. Unfolded(f, g, s) = f[x] + g[s \ {x}] /\ Unfolded(f, h, s) = f[x] + h[s \ {x}]
        BY <3>2, <4>1 DEF Unfolded
      <4>6. h[s] = Unfolded(f, g, s)
        OBVIOUS
      <4> HIDE DEF h
      <4> QED BY <4>4, <4>5, <4>6
    <3> QED BY <3>1, <3>2
  <2> HIDE DEF h
  <2> QED BY <2>2, <2>3 DEF UpTo
<1>4. Beyond = {}
  <2> SUFFICES ASSUME Beyond # {} PROVE FALSE
    OBVIOUS
  <2>1. PICK n \in Beyond : \A m \in Beyond : ~ m < n
    BY LeastNumber
  <2>2. n # 0
    BY <1>2
  <2>3. n - 1 \in Nat /\ n - 1 < n /\ (n - 1) + 1 = n
    BY <2>2
  <2>4. UpTo(n - 1)
    BY <2>1, <2>3
  <2> QED BY <1>3, <2>3, <2>4
<1>5. UpTo(Cardinality(S))
  BY <1>4, FS_CardinalityType
<1>6. PICK g \in [SUBSET S -> Nat] : \A s \in SUBSET S :
         Cardinality(s) <= Cardinality(S) => g[s] = Unfolded(f, g, s)
  BY <1>5 DEF UpTo
<1>7. \A s \in SUBSET S : g[s] = Unfolded(f, g, s)
  BY <1>1, <1>6
<1>8. g = [s \in SUBSET S |-> g[s]]
  OBVIOUS
<1>9. Sums(f, S, g)
  BY <1>7, <1>8 DEF Sums
<1> QED BY <1>9

(* The sum of a function over a finite set is the last of its partial sums. *)
LEMMA SumIsLast ==
  ASSUME NEW S, IsFiniteSet(S), NEW f \in [S -> Nat]
  PROVE  \E g : Sums(f, S, g) /\ SumFunctionOnSet(f, S) = g[S]
<1> DEFINE it == CHOOSE g : Sums(f, S, g)
<1>1. Sums(f, S, it)
  BY SumsExist
<1>2. SumFunctionOnSet(f, S) = it[S]
  BY DEF SumFunctionOnSet, FoldFunctionOnSet, MapThenFoldSet, Sums, Unfolded
<1> QED BY <1>1, <1>2

(* Of two functions the one that is smaller everywhere has the smaller sum. *)
LEMMA SumsGrow ==
  ASSUME NEW S, IsFiniteSet(S), NEW f \in [S -> Nat], NEW h \in [S -> Nat],
         \A x \in S : f[x] <= h[x]
  PROVE  /\ SumFunctionOnSet(f, S) \in Nat /\ SumFunctionOnSet(h, S) \in Nat
         /\ SumFunctionOnSet(f, S) <= SumFunctionOnSet(h, S)
<1>1. PICK g : Sums(f, S, g) /\ SumFunctionOnSet(f, S) = g[S]
  BY SumIsLast
<1>2. PICK k : Sums(h, S, k) /\ SumFunctionOnSet(h, S) = k[S]
  BY SumIsLast
<1> DEFINE Less(s) == g[s] \in Nat /\ k[s] \in Nat /\ g[s] <= k[s]
           Bad == {s \in SUBSET S : ~Less(s)}
<1>3. ASSUME Bad # {} PROVE FALSE
  <2>1. Bad \subseteq SUBSET S /\ FiniteSubsetsOf(S) = SUBSET S
    BY FS_FiniteSubsetsOfFinite
  <2>2. PICK s \in Bad : \A t \in Bad : ~ (<<t, s>> \in StrictSubsetOrdering(S))
    <3> HIDE DEF Bad
    <3>1. IsWellFoundedOn(StrictSubsetOrdering(S), SUBSET S)
      BY <2>1, FS_StrictSubsetOrderingWellFounded
    <3> QED BY <1>3, <2>1, <3>1, WFMin
  <2>3. g[s] = Unfolded(f, g, s) /\ k[s] = Unfolded(h, k, s)
    BY <1>1, <1>2, <2>2 DEF Sums
  <2>4. s # {}
    BY <2>2, <2>3 DEF Unfolded
  <2>5. PICK x : x = CHOOSE z \in s : TRUE
    OBVIOUS
  <2>6. x \in s /\ s \ {x} \in SUBSET S /\ s \in SUBSET S /\ s \ {x} # s
    BY <2>2, <2>4, <2>5
  <2>7. <<s \ {x}, s>> \in StrictSubsetOrdering(S)
    BY <2>6 DEF StrictSubsetOrdering
  <2>8. Less(s \ {x})
    BY <2>2, <2>6, <2>7
  <2>9. g[s] = f[x] + g[s \ {x}] /\ k[s] = h[x] + k[s \ {x}]
    BY <2>3, <2>4, <2>5 DEF Unfolded
  <2>10. f[x] \in Nat /\ h[x] \in Nat /\ f[x] <= h[x]
    BY <2>6
  <2>11. Less(s)
    BY <2>8, <2>9, <2>10
  <2> QED BY <2>2, <2>11
<1>4. Less(S)
  BY <1>3
<1> QED BY <1>1, <1>2, <1>4

--------------------------------------------------------------------------------
(* A stored entry has a cost, and a guard that stops the organisation has   *)
(* the stored entries behind it.                                            *)
StopStands ==
    /\ \A e \in Entries : usage[e] = NotStored \/ usage[e].cost \in Nat
    /\ guard.stopped => EmergencyStop

LEMMA CostsAreNumbers == ASSUME StopStands PROVE Cost \in [Entries -> Nat]
<1>1. ASSUME NEW e \in Entries
      PROVE  (IF usage[e] = NotStored THEN 0 ELSE usage[e].cost) \in Nat
  BY DEF StopStands
<1> QED BY <1>1 DEF Cost

(* An entry is stored over a smaller one only, so what everybody has spent  *)
(* never falls.                                                             *)
LEMMA StoringOnlyAdds ==
  ASSUME BillKept, StopStands, NEW i \in Runs, IngestStands(i, ingest[i]), StoreEntry(i)
  PROVE  /\ \A e \in Entries : usage'[e] = NotStored \/ usage'[e].cost \in Nat
         /\ EmergencyStop => EmergencyStop'
<1>1. PICK y : y = ingest[i] /\ IngestStands(i, y)
  OBVIOUS
<1>2. PICK e \in DOMAIN y.rows :
        \/ usage' = usage
        \/ /\ usage[e] = y.known[e] /\ y.rows[e] >= usage[e].cost
           /\ usage' = [usage EXCEPT ![e] = Merged(usage[e], y.rows[e], y.now)]
  BY <1>1 DEF StoreEntry, Mergeable
<1>3. e \in Entries /\ y.rows[e] \in Nat /\ usage \in [Entries -> UsageRecord]
  <2>1. y.pc = "storing"
    BY <1>1 DEF StoreEntry
  <2> QED BY <1>1, <1>2, <2>1, LimitsTyped DEF IngestStands, BillKept
<1>4. CASE usage' = usage
  <2>1. EmergencyStop' = EmergencyStop
    BY <1>4 DEF EmergencyStop, OrgSpent, Cost
  <2> QED BY <1>4, <2>1 DEF StopStands
<1>5. CASE /\ y.rows[e] >= usage[e].cost
           /\ usage' = [usage EXCEPT ![e] = Merged(usage[e], y.rows[e], y.now)]
  <2>1. usage'[e].cost = y.rows[e] /\ \A x \in Entries \ {e} : usage'[x] = usage[x]
    BY <1>3, <1>5 DEF Merged
  <2>2. usage'[e] # NotStored
    BY <1>3, <2>1 DEF NotStored
  <2>3. \A x \in Entries : usage'[x] = NotStored \/ usage'[x].cost \in Nat
    BY <1>3, <2>1 DEF StopStands
  <2>4. Cost \in [Entries -> Nat]
    BY CostsAreNumbers
  <2>5. Cost' = [x \in Entries |-> IF usage'[x] = NotStored THEN 0 ELSE usage'[x].cost]
    BY DEF Cost
  <2>6. Cost' \in [Entries -> Nat]
    BY <2>3, <2>5
  <2>7. ASSUME NEW x \in Entries PROVE Cost[x] <= Cost'[x]
    <3>1. CASE x = e
      <4>1. Cost'[e] = y.rows[e]
        BY <1>3, <2>1, <2>2, <2>5
      <4>2. Cost[e] = 0 \/ Cost[e] = usage[e].cost
        BY <1>3 DEF Cost
      <4> QED BY <1>3, <1>5, <3>1, <4>1, <4>2
    <3>2. CASE x # e
      <4>1. Cost'[x] = Cost[x]
        BY <2>1, <2>5, <3>2 DEF Cost
      <4> QED BY <2>4, <4>1
    <3> QED BY <3>1, <3>2
  <2>8. PICK f \in [Entries -> Nat], h \in [Entries -> Nat] : f = Cost /\ h = Cost'
    BY <2>4, <2>6
  <2>9. /\ SumFunctionOnSet(f, Entries) \in Nat /\ SumFunctionOnSet(h, Entries) \in Nat
        /\ SumFunctionOnSet(f, Entries) <= SumFunctionOnSet(h, Entries)
    BY <2>7, <2>8, SumsGrow, CostBounds
  <2>10. OrgSpent = SumFunctionOnSet(f, Entries) /\ OrgSpent' = SumFunctionOnSet(h, Entries)
    BY <2>8 DEF OrgSpent
  <2>11. OrgCeiling \in Nat
    BY CostBounds
  <2>12. EmergencyStop => EmergencyStop'
    BY <2>9, <2>10, <2>11 DEF EmergencyStop
  <2> QED BY <2>3, <2>12
<1> QED BY <1>2, <1>4, <1>5

(* What has an entry or the guard in its hands is storing or persisting.    *)
LEMMA OnlyRunsStore ==
  ASSUME CostNext, usage' # usage \/ guard' # guard
  PROVE  \E i \in Runs : \/ StoreEntry(i) /\ UNCHANGED guard
                         \/ PersistGuard(i) /\ UNCHANGED usage
BY ZenonT(60) DEF CostNext, IngestStep, ChangeBill, StartIngest, FetchBill, StoreEntry, PersistGuard,
   ListResources, SavePaused, ScopeDone, IngestDone, ReleaseIngest, RunEnds, SwitchOff

LEMMA StopStepKeeps ==
  ASSUME DirectoryInvariant, CostInvariant, StopStands, [Next]_vars
  PROVE  StopStands' /\ (guard.stopped => guard'.stopped)
<1>1. \/ UNCHANGED << usage, guard >>
      \/ \E i \in Runs : \/ StoreEntry(i) /\ UNCHANGED guard
                         \/ PersistGuard(i) /\ UNCHANGED usage
  BY StepsOfTheJob, OnlyRunsStore
<1>2. ASSUME UNCHANGED usage PROVE EmergencyStop' = EmergencyStop
  BY <1>2 DEF EmergencyStop, OrgSpent, Cost
<1>3. CASE UNCHANGED << usage, guard >>
  BY <1>2, <1>3 DEF StopStands
<1>4. ASSUME NEW i \in Runs, StoreEntry(i), UNCHANGED guard
      PROVE  StopStands' /\ guard' = guard
  BY <1>4, StoringOnlyAdds DEF CostInvariant, IngestKept, StopStands
<1>5. ASSUME NEW i \in Runs, PersistGuard(i), UNCHANGED usage
      PROVE  StopStands' /\ (guard.stopped => guard'.stopped)
  <2>1. guard' = guard \/ guard'.stopped = EmergencyStop
    BY <1>5 DEF PersistGuard, Candidate
  <2> QED BY <1>2, <1>5, <2>1 DEF StopStands
<1> QED BY <1>1, <1>3, <1>4, <1>5

(* An organisation that was stopped stays stopped (persist_org_cost_guard):  *)
(* a run writes the guard from the stored entries, an entry is stored over  *)
(* a smaller one only (_merge_usage_entry), and a sum of entries none of    *)
(* which has fallen has not fallen.                                         *)
THEOREM StopsAreFinal == Spec => StopIsFinal
<1>1. Init => StopStands
  BY DEF Init, CostInit, StopStands
<1>2. DirectoryInvariant /\ CostInvariant /\ StopStands /\ [Next]_vars =>
         StopStands' /\ (guard.stopped => guard'.stopped)
  BY StopStepKeeps
<1>3. DirectoryInvariant /\ CostInvariant /\ StopStands /\ [Next]_vars =>
         [guard.stopped => guard'.stopped]_guard
  BY <1>2
<1> QED BY <1>1, <1>2, <1>3, CostInvariantHolds, PTL DEF Spec, StopIsFinal

--------------------------------------------------------------------------------
LEMMA CostsAreTyped == ASSUME CostInvariant PROVE CostTypeOK /\ ActivityTypeOK
<1>1. CostTypeOK
  BY DEF CostInvariant, BillKept, CostTypeOK
<1>2. ActivityTypeOK
  BY DEF CostInvariant, EventsKept, ActivityTypeOK
<1> QED BY <1>1, <1>2

(* No step leaves the states of domain/states.py or stores a record of      *)
(* another shape (models.py).                                               *)
THEOREM AccountsAreTyped == Spec => []TypeOK
<1>1. DirectoryInvariant /\ SlackInvariant /\ CostInvariant /\ AccessInvariant => TypeOK
  BY DirectoryIsTyped, SlackIsTyped, CostsAreTyped, AccessIsTyped DEF TypeOK
<1> QED BY <1>1, SlackInvariantHolds, CostInvariantHolds, AccessInvariantHolds, PTL

================================================================================
