--------------------------------- MODULE Access ---------------------------------
(***************************************************************************)
(* A request of a person, from the edge to the answer: the edge worker     *)
(* signs it (edge/worker/src/index.js), the network may deliver it late    *)
(* and more than once, and one of three doors decides about it:            *)
(*   - the control plane itself (security/origin.py, security/identity.py),*)
(*   - the gateway in front of the deployed apps (app-gateway-go), which   *)
(*     asks the control plane (services/app_gateway_authorization.py),     *)
(*   - the Slack command door (security/slack.py,                          *)
(*     services/slack_ingress.py, services/central_identity.py), whose     *)
(*     requests Slack signs.                                               *)
(* Each door accepts a signature for a while, claims the request's id so   *)
(* that it is carried out once, and reads the identity records.            *)
(***************************************************************************)
EXTENDS SlackInstall, Costs

CONSTANTS Requests,      \* ids of signed requests
          Arrivals,      \* deliveries in progress at once
          Gateways,      \* instances of the app gateway
          Keys,          \* keys Cloudflare Access signs assertions with
          App,           \* the app behind the gateway
          OriginWindow,  \* the signature window of the edge (60 seconds)
          SlackWindow,   \* _WINDOW of Slack signatures (5 minutes)
          SlackAhead,    \* how far Slack's clock runs ahead of the door's
          CallTimeout,   \* how long a request may hang inside a door
          CacheTTL,      \* how long a gateway trusts its keys (5 minutes)
          FetchTimeout,  \* how long a fetch of the keys may take (5 seconds)
          DecisionTTL,   \* _DECISION_TTL (30 seconds)
          BeatWindow     \* _ACTIVITY_HEARTBEAT_WINDOW (1 hour)

ASSUME AccessBounds ==
    /\ App \in Resources /\ Keys # {}
    /\ {OriginWindow, SlackWindow, SlackAhead, CallTimeout, FetchTimeout, BeatWindow} \subseteq Nat
    /\ {CacheTTL, DecisionTTL} \subseteq Nat \ {0}
    /\ FetchTimeout <= CacheTTL

VARIABLES published,  \* the keys Access publishes
          withdrawn,  \* when a key was last published
          jwks,       \* each gateway's copy of the keys and when it stored it
          signed,     \* the signed requests
          claimed,    \* when the claim of a request id expires, if it is stored
          arrival,    \* the deliveries inside a door
          served,     \* how often a request was let through
          late,       \* how often on a claim taken after its window was over
          beat        \* when the app's activity was last recorded

accessVars == <<published, withdrawn, jwks, signed, claimed, arrival, served, late, beat>>

Never    == -1
Owner    == ResourceOwner[App]
Unsigned == [to |-> "nowhere", auth |-> "none", by |-> Owner, key |-> "none",
             at |-> 0, sent |-> 0]
IdleArrival == [pc |-> "idle", id |-> "none", gate |-> "none", started |-> 0,
                checked |-> 0, seen |-> {}, late |-> FALSE]

At(a)      == signed[arrival[a].id]
Goes(a, pc) == arrival' = [arrival EXCEPT ![a].pc = pc]
Denied(a)  == arrival' = [arrival EXCEPT ![a] = IdleArrival]

\* a request that hangs longer than the platform allows is cut off
InTimeFor(a) == now - arrival[a].checked <= CallTimeout

(***************************************************************************)
(* The edge worker.                                                        *)
(***************************************************************************)

\* what a request looks like to the worker
Incoming == [host      : {"control", "app", "foreign"},
             method    : {"common", "other"},
             target    : {"plain", "escaped", "odd"},
             listed    : {"no", "access_jwt", "github_webhook"},
             assertion : BOOLEAN,
             github    : BOOLEAN,
             body      : {"fits", "large", "broken"}]

\* classifyDestination
Destination(q) ==
    [control |-> "control-plane", app |-> "app-gateway", foreign |-> "nowhere"][q.host]

\* isAllowedRequestTarget: the control plane takes no escapes
TargetAllowed(q) == q.target \in (IF q.host = "app" THEN {"plain", "escaped"} ELSE {"plain"})

\* matchAllowedRoute: what the route list of the control plane asks for
Listed(q) == q.listed

\* the route list for the control plane, the method list for the apps
AuthMode(q) ==
    IF q.host = "app" THEN IF q.method = "common" THEN "access_jwt" ELSE "no"
    ELSE Listed(q)

\* requireAccessAssertion, readGitHubForwardHeaders
Credentialed(q) ==
    \/ (AuthMode(q) = "access_jwt" /\ q.assertion)
    \/ (AuthMode(q) = "github_webhook" /\ q.github)

\* prepareBody: whole, and within the limit
BodyFits(q) == q.body = "fits"

Forwardable(q) ==
    /\ Destination(q) # "nowhere" /\ TargetAllowed(q)
    /\ Credentialed(q) /\ BodyFits(q)

\* what is signed of a forwarded request: the door it goes to, and how the
\* door is to tell who asks
Forwarded == {[to |-> Destination(q), auth |-> AuthMode(q)] : q \in {x \in Incoming : Forwardable(x)}}

\* a forwarded webhook carries GitHub's headers and no assertion
SignRequest(r, p, k) ==
    /\ signed[r] = Unsigned
    /\ Spend("requests")
    /\ k \in published \/ withdrawn[k] # Never
    /\ \E q \in Forwarded :
          signed' = [signed EXCEPT ![r] =
                       IF q.auth = "access_jwt"
                       THEN [to |-> q.to, auth |-> q.auth, by |-> p, key |-> k,
                             at |-> now, sent |-> now]
                       ELSE [Unsigned EXCEPT !.to = q.to, !.auth = q.auth,
                                             !.at = now, !.sent = now]]
    /\ UNCHANGED <<published, withdrawn, jwks, claimed, arrival, served, late, beat, resource>>

\* a slash command, signed by Slack, whose clock may be ahead of the door's
SendCommand(r, p) ==
    /\ signed[r] = Unsigned
    /\ Spend("commands")
    /\ \E ahead \in 0..SlackAhead :
          signed' = [signed EXCEPT ![r] = [to |-> "slack", auth |-> "slack", by |-> p,
                                           key |-> "none", at |-> now + ahead, sent |-> now]]
    /\ UNCHANGED <<published, withdrawn, jwks, claimed, arrival, served, late, beat, resource>>

(***************************************************************************)
(* The doors. A request is delivered to the door it was signed for, once,  *)
(* twice or never, and late.                                               *)
(***************************************************************************)

Fresh(r) == now - signed[r].at \in 0..OriginWindow

\* the gateway proves the signature against its own clock first: VerifyEdgeProof
ArriveAtGateway(a, r, g) ==
    /\ Spend("deliveries")
    /\ arrival[a].pc = "idle" /\ signed[r].to = "app-gateway" /\ Fresh(r)
    /\ arrival' = [arrival EXCEPT ![a] = [IdleArrival EXCEPT !.pc = "proved", !.id = r,
                                              !.gate = g, !.started = now, !.checked = now]]
    /\ UNCHANGED <<published, withdrawn, jwks, signed, claimed, served, late, beat, resource>>

\* a bug: a copy that has the key is trusted however old it is
TrustedForever(g, k) == k \in jwks[g].keys

\* lookupKey: a fresh copy that has the key is trusted
Trusted(g, k) == k \in jwks[g].keys /\ now - jwks[g].at < CacheTTL

LookUpKey(a) ==
    /\ arrival[a].pc = "proved"
    /\ InTimeFor(a)
    /\ Goes(a, IF Trusted(arrival[a].gate, At(a).key) THEN "verified" ELSE "fetching")
    /\ UNCHANGED <<published, withdrawn, jwks, signed, claimed, served, late, beat, resource, budget>>

\* refreshKeys: what Access answered, then the store of it, then another look
FetchKeys(a) ==
    /\ arrival[a].pc = "fetching"
    /\ arrival' = [arrival EXCEPT ![a].pc = "fetched", ![a].checked = now,
                                  ![a].seen = published]
    /\ UNCHANGED <<published, withdrawn, jwks, signed, claimed, served, late, beat, resource, budget>>

StoreKeys(a) ==
    /\ arrival[a].pc = "fetched"
    /\ now - arrival[a].checked <= FetchTimeout
    /\ jwks' = [jwks EXCEPT ![arrival[a].gate] = [keys |-> arrival[a].seen, at |-> now]]
    /\ arrival' = [arrival EXCEPT ![a].pc = "stored", ![a].seen = {}]
    /\ UNCHANGED <<published, withdrawn, signed, claimed, served, late, beat, resource, budget>>

LookAgain(a) ==
    /\ arrival[a].pc = "stored"
    /\ now - arrival[a].checked <= FetchTimeout
    /\ IF At(a).key \in jwks[arrival[a].gate].keys THEN Goes(a, "verified") ELSE Denied(a)
    /\ UNCHANGED <<published, withdrawn, jwks, signed, claimed, served, late, beat, resource, budget>>

\* the control plane checks the age of what the gateway asks about, or of
\* what reached its own door
AskControlPlane(a) ==
    /\ arrival[a].pc = "verified"
    /\ IF Fresh(arrival[a].id)
       THEN arrival' = [arrival EXCEPT ![a].pc = "fresh", ![a].checked = now]
       ELSE Denied(a)
    /\ UNCHANGED <<published, withdrawn, jwks, signed, claimed, served, late, beat, resource, budget>>

ArriveAtControlPlane(a, r) ==
    /\ Spend("deliveries")
    /\ arrival[a].pc = "idle" /\ signed[r].to = "control-plane" /\ Fresh(r)
    /\ arrival' = [arrival EXCEPT ![a] = [IdleArrival EXCEPT !.pc = "fresh", !.id = r,
                                              !.started = now, !.checked = now]]
    /\ UNCHANGED <<published, withdrawn, jwks, signed, claimed, served, late, beat, resource>>

\* SlackRequestVerifier.verify
ArriveFromSlack(a, r) ==
    /\ Spend("deliveries")
    /\ arrival[a].pc = "idle" /\ signed[r].to = "slack"
    /\ now - signed[r].at \in (0 - SlackWindow)..SlackWindow
    /\ arrival' = [arrival EXCEPT ![a] = [IdleArrival EXCEPT !.pc = "fresh", !.id = r,
                                              !.started = now, !.checked = now]]
    /\ UNCHANGED <<published, withdrawn, jwks, signed, claimed, served, late, beat, resource>>

\* a bug: the claim expires when it is made
ClaimExpiresAtOnce(a) == IF At(a).to = "slack" THEN arrival[a].checked ELSE At(a).at

\* expires_at: the window, from the signature, or for Slack from the check of it
ClaimExpires(a) ==
    IF At(a).to = "slack" THEN arrival[a].checked + SlackWindow ELSE At(a).at + OriginWindow

\* what claim_once first does with the claims of the other commands, and the
\* same one: those that had expired when the signature was checked are dropped
Remembered(a) ==
    IF At(a).to # "slack" THEN claimed
    ELSE [r \in Requests |->
            IF signed[r].to = "slack" /\ claimed[r] <= arrival[a].checked THEN Never ELSE claimed[r]]

\* the window of a request, from the moment it was sent (a history)
WindowOver(r) ==
    IF signed[r].to = "slack" THEN now >= signed[r].sent + SlackWindow
                              ELSE now > signed[r].sent + OriginWindow

\* claim_origin_request, claim_once: neither asks whether the signature still
\* is fresh, and a claim whose answer is lost is spent
Claim(a) ==
    LET r == arrival[a].id
        kept == Remembered(a)
    IN
    /\ arrival[a].pc = "fresh"
    /\ InTimeFor(a)
    /\ IF kept[r] = Never
       THEN /\ claimed' = [kept EXCEPT ![r] = ClaimExpires(a)]
            /\ \/ /\ arrival' = [arrival EXCEPT ![a].pc = "claimed", ![a].late = WindowOver(r)]
                  /\ UNCHANGED budget
               \/ Denied(a) /\ Spend("trouble")
       ELSE claimed' = kept /\ Denied(a) /\ UNCHANGED budget
    /\ UNCHANGED <<published, withdrawn, jwks, signed, served, late, beat, resource>>

\* Firestore deletes a claim of the edge once its expires_at is past
DropClaim(r) ==
    /\ signed[r].to # "slack"
    /\ claimed[r] # Never /\ now > claimed[r]
    /\ claimed' = [claimed EXCEPT ![r] = Never]
    /\ UNCHANGED <<published, withdrawn, jwks, signed, arrival, served, late, beat, resource, budget>>

\* require_owner_or_admin
MayUseApp(p) == p = Owner \/ p \in Admins

\* what AppGatewayAuthorizationService.authorize reads after the claim
AppOpen(a) ==
    /\ resource[App].state = "active" /\ resource[App].on
    /\ Authorized(At(a).by) /\ MayUseApp(At(a).by)
    /\ GuardCurrent(arrival[a].checked)
    /\ ~Pause(Owner)

DecideApp(a) ==
    /\ arrival[a].pc = "claimed" /\ At(a).to = "app-gateway"
    /\ InTimeFor(a)
    /\ IF AppOpen(a) THEN Goes(a, "opened") ELSE Denied(a)
    /\ UNCHANGED <<published, withdrawn, jwks, signed, claimed, served, late, beat, resource, budget>>

\* _record_workload_activity_best_effort: the record moves once per window,
\* and a write that fails changes nothing of the decision
RecordActivity(a) ==
    /\ arrival[a].pc = "opened"
    /\ InTimeFor(a)
    /\ Goes(a, "granted")
    /\ \/ /\ resource[App].state = "active" /\ beat <= arrival[a].checked - BeatWindow
          /\ resource' = [resource EXCEPT ![App].version = @ + 1]
          /\ beat' = arrival[a].checked
          /\ UNCHANGED budget
       \/ /\ resource[App].state # "active" \/ beat > arrival[a].checked - BeatWindow
          /\ UNCHANGED <<resource, beat, budget>>
       \/ UNCHANGED <<resource, beat>> /\ Spend("trouble")
    /\ UNCHANGED <<published, withdrawn, jwks, signed, claimed, served, late>>

\* IdentityAuthenticator after the origin proof. A key the control plane has
\* used once stays in a cache that does not expire, so a withdrawn one may pass.
DecideControl(a) ==
    /\ arrival[a].pc = "claimed" /\ At(a).to = "control-plane"
    /\ InTimeFor(a)
    /\ \/ At(a).auth = "github_webhook" /\ Goes(a, "granted")
       \/ At(a).auth = "access_jwt" /\ Authorized(At(a).by) /\ Goes(a, "granted")
       \/ At(a).auth = "access_jwt" /\ ~Authorized(At(a).by) /\ Denied(a)
       \/ At(a).auth = "access_jwt" /\ At(a).key \notin published /\ Denied(a)
    /\ UNCHANGED <<published, withdrawn, jwks, signed, claimed, served, late, beat, resource, budget>>

\* authorize_slack: the installation and its administrator, then the sender
ReadInstall(a) ==
    /\ arrival[a].pc = "claimed" /\ At(a).to = "slack"
    /\ InTimeFor(a)
    /\ IF install.state = "active" /\ AdminPresent THEN Goes(a, "installed") ELSE Denied(a)
    /\ UNCHANGED <<published, withdrawn, jwks, signed, claimed, served, late, beat, resource, budget>>

DecideSlack(a) ==
    /\ arrival[a].pc = "installed"
    /\ InTimeFor(a)
    /\ IF At(a).by \in link /\ Authorized(At(a).by) THEN Goes(a, "granted") ELSE Denied(a)
    /\ UNCHANGED <<published, withdrawn, jwks, signed, claimed, served, late, beat, resource, budget>>

\* ValidateDecisionUpstream reads the clock of the request's arrival, not its own
DecisionStands(a) == arrival[a].started < arrival[a].checked + DecisionTTL

\* the request is proxied or carried out; the decision may be lost on its way
Serve(a) ==
    /\ arrival[a].pc = "granted"
    /\ \/ /\ DecisionStands(a)
          /\ served' = [served EXCEPT ![arrival[a].id] = @ + 1]
          /\ late' = IF arrival[a].late THEN [late EXCEPT ![arrival[a].id] = @ + 1] ELSE late
          /\ UNCHANGED budget
       \/ UNCHANGED <<served, late>> /\ Spend("trouble")
    /\ Denied(a)
    /\ UNCHANGED <<published, withdrawn, jwks, signed, claimed, beat, resource>>

\* nothing a door does outlives the time a request may take
Abandon(a) ==
    /\ arrival[a].pc # "idle"
    /\ ~InTimeFor(a)
    /\ Denied(a)
    /\ UNCHANGED <<published, withdrawn, jwks, signed, claimed, served, late, beat, resource, budget>>

ArrivalStep(a) ==
    \/ \E r \in Requests : \/ \E g \in Gateways : ArriveAtGateway(a, r, g)
                           \/ ArriveAtControlPlane(a, r)
                           \/ ArriveFromSlack(a, r)
    \/ LookUpKey(a) \/ FetchKeys(a) \/ StoreKeys(a) \/ LookAgain(a) \/ AskControlPlane(a)
    \/ Claim(a) \/ DecideApp(a) \/ RecordActivity(a) \/ DecideControl(a) \/ ReadInstall(a) \/ DecideSlack(a)
    \/ Serve(a) \/ Abandon(a)

\* Access publishes another key and withdraws one
RotateKeys(old, new) ==
    /\ old \in published /\ new \notin published /\ withdrawn[new] = Never
    /\ Spend("rotations")
    /\ published' = (published \ {old}) \cup {new}
    /\ withdrawn' = [withdrawn EXCEPT ![old] = now]
    /\ UNCHANGED <<jwks, signed, claimed, arrival, served, late, beat, resource>>

AccessInit ==
    /\ published = {CHOOSE k \in Keys : TRUE}
    /\ withdrawn = [k \in Keys |-> Never]
    /\ jwks = [g \in Gateways |-> [keys |-> published, at |-> 0]]
    /\ signed = [r \in Requests |-> Unsigned]
    /\ claimed = [r \in Requests |-> Never]
    /\ arrival = [a \in Arrivals |-> IdleArrival]
    /\ served = [r \in Requests |-> 0]
    /\ late = [r \in Requests |-> 0]
    /\ beat = 0

AccessNext ==
    \/ \E r \in Requests, p \in People : (\E k \in Keys : SignRequest(r, p, k)) \/ SendCommand(r, p)
    \/ \E r \in Requests : DropClaim(r)
    \/ \E a \in Arrivals : ArrivalStep(a)
    \/ \E old, new \in Keys : RotateKeys(old, new)

--------------------------------------------------------------------------------

AccessTypeOK ==
    /\ published \subseteq Keys /\ withdrawn \in [Keys -> {Never} \cup 0..MaxTime]
    /\ \A g \in Gateways : jwks[g].keys \subseteq Keys /\ jwks[g].at \in 0..MaxTime
    /\ claimed \in [Requests -> {Never} \cup Nat]
    /\ served \in [Requests -> Nat] /\ late \in [Requests -> Nat]
    /\ beat \in 0..MaxTime

(***************************************************************************)
(* Of the deliveries of a signed request that claim it within its window,  *)
(* counted from when it was sent, one is carried out, however often and    *)
(* however late the others come, and although the freshness is checked     *)
(* before the id is claimed, claims expire, and the stores forget them. A  *)
(* request is carried out again only by a delivery that claimed it after   *)
(* the window: it hung between the check and the claim, or Slack's clock   *)
(* was ahead, and claim_origin_request and claim_once look at no clock     *)
(* (OriginHmacVerifier.verify, AppGatewayAuthorizationService.authorize,   *)
(* SlackIngressGateway.ingress).                                           *)
(***************************************************************************)
ServedOnce == \A r \in Requests : served[r] <= 1 + late[r]

(***************************************************************************)
(* A gateway stops taking an assertion under a withdrawn key within the    *)
(* cache's lifetime and one fetch, with fetches that overlap and store     *)
(* their answers out of order (lookupKey, refreshKeys).                    *)
(***************************************************************************)
RetiredKeysExpire ==
    [][\A a \in Arrivals :
           arrival[a].pc # "verified" /\ arrival'[a].pc = "verified" =>
               LET k == At(a).key
               IN  k \in published \/ now - withdrawn[k] <= CacheTTL + FetchTimeout]_arrival

(***************************************************************************)
(* Nobody is let through on the word of the identity records for longer    *)
(* than the records may be stale and a collection may take after the       *)
(* company suspended the person or took the person out of the group: at    *)
(* every door, with runs of the sync job that overlap, fail and replay     *)
(* (authorize_resolved_user, _validate_snapshot_timing).                   *)
(***************************************************************************)
AccessIsRecent ==
    [][\A a \in Arrivals :
           arrival[a].pc \in {"claimed", "installed"} /\ arrival'[a].pc \in {"opened", "granted"}
               /\ At(a).auth # "github_webhook" =>
               LET p == At(a).by
               IN  /\ now - ActiveUntil(p) <= MaxStaleness + MaxCollection
                   /\ now - MemberUntil(p) <= MaxStaleness + MaxCollection]_arrival

================================================================================
