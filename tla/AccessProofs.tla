------------------------------- MODULE AccessProofs -------------------------------
(***************************************************************************)
(* Proofs about the requests of people, as steps of the whole people side  *)
(* (Accounts): what a door has established of a request when it claims it, *)
(* decides about it and lets it through.                                   *)
(***************************************************************************)
EXTENDS DirectoryProofs

GatewaySteps == {"proved", "fetching", "fetched", "stored", "verified"}
ClaimedSteps == {"claimed", "opened", "granted", "installed"}

Destinations == {"control-plane", "app-gateway"}
SignedRecord == [to : Destinations \cup {"nowhere", "slack"},
                 auth : {"none", "access_jwt", "github_webhook", "slack"},
                 by : People, key : Keys \cup {"none"}, at : Nat, sent : Nat]
ArrivalSteps == GatewaySteps \cup ClaimedSteps \cup {"idle", "fresh"}
ArrivalRecord == [pc : ArrivalSteps,
                  id : Requests \cup {"none"}, gate : Gateways \cup {"none"},
                  started : Nat, checked : Nat, seen : SUBSET Keys,
                  late : BOOLEAN]

IsSigned(r) == signed[r].to # "nowhere"

Window(r) == IF signed[r].to = "slack" THEN SlackWindow ELSE OriginWindow

(* A request that was claimed in its window is not claimed in it again:    *)
(* its claim is still stored, or the window is over.                       *)
Used(r) == claimed[r] # Never \/ WindowOver(r)

SignedKept ==
    /\ signed \in [Requests -> SignedRecord]
    /\ \A r \in Requests :
          /\ signed[r].sent <= now
          /\ signed[r].to # "slack" => signed[r].at = signed[r].sent
          /\ signed[r].to = "app-gateway" => signed[r].auth = "access_jwt" /\ signed[r].key \in Keys

(* A claim outlives the window of its request.                             *)
ClaimsKept ==
    /\ claimed \in [Requests -> {Never} \cup Nat]
    /\ \A r \in Requests :
          claimed[r] # Never => IsSigned(r) /\ signed[r].sent + Window(r) <= claimed[r]

(* A copy of the keys is no older than the fetch behind it.                *)
KeysKept ==
    /\ published \subseteq Keys
    /\ withdrawn \in [Keys -> {Never} \cup 0..now]
    /\ jwks \in [Gateways -> [keys : SUBSET Keys, at : 0..now]]
    /\ \A g \in Gateways : \A k \in jwks[g].keys :
          k \in published \/ jwks[g].at - FetchTimeout <= withdrawn[k]

(* What a door has established of a delivery at the step it is about to do. *)
ArrivalStands(x) ==
    /\ x \in ArrivalRecord
    /\ x.checked <= now
    /\ x.pc # "idle" => x.id \in Requests /\ IsSigned(x.id)
    /\ x.pc \in GatewaySteps => x.gate \in Gateways /\ signed[x.id].to = "app-gateway"
    /\ x.pc = "fetched" => \A k \in x.seen : k \in published \/ x.checked <= withdrawn[k]
    /\ x.pc = "stored" => x.checked <= jwks[x.gate].at
    /\ x.pc = "fresh" => signed[x.id].sent <= x.checked
    /\ x.pc \in ClaimedSteps => Used(x.id) /\ (~x.late => served[x.id] = late[x.id])

(* Of the deliveries of one request at most one claimed it in its window.  *)
Holds(x) == x.pc \in ClaimedSteps /\ ~x.late

ClaimedOnce ==
    /\ \A a, b \in Arrivals :
          a # b /\ Holds(arrival[a]) /\ Holds(arrival[b]) => arrival[a].id # arrival[b].id
    /\ \A r \in Requests :
          /\ served[r] = late[r] \/ served[r] = late[r] + 1
          /\ served[r] # late[r] => IsSigned(r) /\ Used(r)

AccessInvariant ==
    /\ SignedKept /\ ClaimsKept /\ KeysKept
    /\ arrival \in [Arrivals -> ArrivalRecord]
    /\ \A a \in Arrivals : ArrivalStands(arrival[a])
    /\ ClaimedOnce
    /\ served \in [Requests -> Nat] /\ late \in [Requests -> Nat]
    /\ beat \in 0..now

--------------------------------------------------------------------------------
LEMMA OwnerIsManaged == Owner \in People
BY AccessBounds, CostBounds DEF Owner

LEMMA WindowsTyped ==
  /\ OriginWindow \in Nat /\ SlackWindow \in Nat /\ SlackAhead \in Nat /\ CallTimeout \in Nat
  /\ FetchTimeout \in Nat /\ CacheTTL \in Nat /\ FetchTimeout <= CacheTTL
  /\ MaxStaleness \in Nat /\ MaxCollection \in Nat
BY AccessBounds, DirectoryBounds

(* What the edge worker signs.                                             *)
LEMMA ForwardedTyped ==
  \A q \in Forwarded :
    /\ q.to \in Destinations
    /\ q.auth \in {"access_jwt", "github_webhook"}
    /\ q.to = "app-gateway" => q.auth = "access_jwt"
<1> SUFFICES ASSUME NEW q \in Incoming, Forwardable(q)
             PROVE  /\ Destination(q) \in Destinations
                    /\ AuthMode(q) \in {"access_jwt", "github_webhook"}
                    /\ Destination(q) = "app-gateway" => AuthMode(q) = "access_jwt"
  BY DEF Forwarded
<1>1. q.host \in {"control", "app", "foreign"}
  BY DEF Incoming
<1>2. /\ Destination(q) \in {"control-plane", "app-gateway"}
      /\ Destination(q) = "app-gateway" => q.host = "app"
  BY <1>1 DEF Destination, Forwardable
<1>3. AuthMode(q) \in {"access_jwt", "github_webhook"}
  BY DEF Forwardable, Credentialed
<1>4. q.host = "app" => AuthMode(q) \in {"access_jwt", "no"}
  BY DEF AuthMode
<1> QED BY <1>2, <1>3, <1>4 DEF Destinations

LEMMA IdleArrivalStands ==
  ASSUME now \in Nat
  PROVE  ArrivalStands(IdleArrival) /\ IdleArrival.pc = "idle"
BY DEF ArrivalStands, ArrivalRecord, ArrivalSteps, IdleArrival, GatewaySteps, ClaimedSteps

(* The facts about a delivery that a proof needs over and over.            *)
LEMMA ArrivalFacts ==
  ASSUME AccessInvariant, NEW a \in Arrivals
  PROVE  /\ ArrivalStands(arrival[a]) /\ arrival[a] \in ArrivalRecord
         /\ arrival[a].checked \in Nat /\ arrival[a].checked <= now
         /\ arrival[a].pc # "idle" => /\ arrival[a].id \in Requests /\ IsSigned(arrival[a].id)
                                      /\ At(a) = signed[arrival[a].id] /\ At(a) \in SignedRecord
BY DEF AccessInvariant, ArrivalStands, ArrivalRecord, SignedKept, At

--------------------------------------------------------------------------------
(* A step of another part only lets time pass.                             *)
LEMMA AccessStandsInTime ==
  ASSUME AccessInvariant, now \in Nat, now' \in Nat, now <= now', UNCHANGED accessVars
  PROVE  AccessInvariant'
<1>1. UNCHANGED << published, withdrawn, jwks, signed, claimed, arrival, served, late, beat >>
  BY DEF accessVars
<1>2. \A r \in Requests : signed[r].sent \in Nat /\ signed[r].sent <= now
  BY DEF AccessInvariant, SignedKept, SignedRecord
<1>3. SignedKept'
  <2>1. \A r \in Requests : signed[r].sent <= now'
    BY <1>2
  <2> QED BY <1>1, <2>1 DEF AccessInvariant, SignedKept
<1>4. KeysKept'
  <2>1. withdrawn \in [Keys -> {Never} \cup 0..now']
    BY DEF AccessInvariant, KeysKept
  <2>2. jwks \in [Gateways -> [keys : SUBSET Keys, at : 0..now']]
    BY DEF AccessInvariant, KeysKept
  <2> QED BY <1>1, <2>1, <2>2 DEF AccessInvariant, KeysKept
<1>5. \A r \in Requests : Used(r) => Used(r)'
  <2> SUFFICES ASSUME NEW r \in Requests, WindowOver(r) PROVE WindowOver(r)'
    BY <1>1 DEF Used
  <2> QED BY <1>1, <1>2, WindowsTyped DEF WindowOver
<1>6. \A a \in Arrivals : ArrivalStands(arrival[a])'
  <2> SUFFICES ASSUME NEW a \in Arrivals PROVE ArrivalStands(arrival[a])'
    OBVIOUS
  <2>1. ArrivalStands(arrival[a]) /\ arrival[a].checked \in Nat
    BY ArrivalFacts
  <2>2. arrival[a].checked <= now'
    BY <2>1 DEF ArrivalStands
  <2>3. arrival[a].pc \in ClaimedSteps => Used(arrival[a].id)'
    BY <1>1, <2>1, <1>5 DEF ArrivalStands, ClaimedSteps, Used, WindowOver
  <2> QED BY <1>1, <2>1, <2>2, <2>3 DEF ArrivalStands, IsSigned
<1>7. ClaimedOnce'
  BY <1>1, <1>5 DEF AccessInvariant, ClaimedOnce, Holds, IsSigned
<1>8. beat' \in 0..now'
  BY <1>1 DEF AccessInvariant
<1>9. ClaimsKept'
  BY <1>1 DEF AccessInvariant, ClaimsKept, Window, IsSigned
<1> QED BY <1>1, <1>3, <1>4, <1>6, <1>7, <1>8, <1>9 DEF AccessInvariant

(* A step of a delivery that claims nothing and serves nothing.            *)
LEMMA ArrivalMoves ==
  ASSUME AccessInvariant, NEW a \in Arrivals, NEW x, ArrivalStands(x),
         x.pc \in ClaimedSteps => arrival[a].pc \in ClaimedSteps /\ x.id = arrival[a].id
                                                            /\ x.late = arrival[a].late,
         arrival' = [arrival EXCEPT ![a] = x],
         beat' \in 0..now,
         UNCHANGED << now, published, withdrawn, jwks, signed, claimed, served, late >>
  PROVE  AccessInvariant'
<1>1. SignedKept' /\ ClaimsKept' /\ KeysKept'
  BY DEF AccessInvariant, SignedKept, ClaimsKept, Window, IsSigned, KeysKept
<1>2. /\ arrival' \in [Arrivals -> ArrivalRecord]
      /\ \A b \in Arrivals : arrival'[b] = IF b = a THEN x ELSE arrival[b]
  BY DEF AccessInvariant, ArrivalStands
<1>3. \A r : (Used(r) <=> Used(r)') /\ (IsSigned(r) <=> IsSigned(r)')
  BY DEF Used, WindowOver, IsSigned
<1>4. \A b \in Arrivals : ArrivalStands(arrival[b])'
  <2> SUFFICES ASSUME NEW b \in Arrivals PROVE ArrivalStands(arrival[b])'
    OBVIOUS
  <2>1. CASE b = a
    BY <2>1, <1>2, <1>3 DEF ArrivalStands
  <2>2. CASE b # a
    <3>1. ArrivalStands(arrival[b]) /\ arrival'[b] = arrival[b]
      BY <2>2, <1>2 DEF AccessInvariant
    <3> QED BY <3>1, <1>3 DEF ArrivalStands
  <2> QED BY <2>1, <2>2
<1>5. ClaimedOnce'
  BY <1>2, <1>3 DEF AccessInvariant, ClaimedOnce, Holds
<1> QED BY <1>1, <1>2, <1>4, <1>5 DEF AccessInvariant

(* A delivery goes on with what it has established.                        *)
LEMMA ArrivalGoesOn ==
  ASSUME AccessInvariant, NEW a \in Arrivals, NEW pc \in ArrivalSteps
  PROVE  LET x == [arrival[a] EXCEPT !.pc = pc]
         IN  /\ x \in ArrivalRecord /\ x.pc = pc
             /\ x.id = arrival[a].id /\ x.gate = arrival[a].gate
             /\ x.checked = arrival[a].checked /\ x.seen = arrival[a].seen
             /\ x.late = arrival[a].late
             /\ pc \in {"verified", "fetching"} /\ arrival[a].pc \in GatewaySteps => ArrivalStands(x)
             /\ pc \in ClaimedSteps /\ arrival[a].pc \in ClaimedSteps => ArrivalStands(x)
BY ArrivalFacts DEF ArrivalStands, ArrivalRecord, GatewaySteps, ClaimedSteps, ArrivalSteps

--------------------------------------------------------------------------------
LEMMA SignKeeps ==
  ASSUME AccessInvariant, now \in Nat, UNCHANGED now,
         NEW r \in Requests, NEW p \in People,
         (\E k \in Keys : SignRequest(r, p, k)) \/ SendCommand(r, p)
  PROVE  AccessInvariant'
<1>1. PICK record \in SignedRecord :
        /\ signed' = [signed EXCEPT ![r] = record]
        /\ record.sent = now /\ (record.to # "slack" => record.at = now) /\ record.to # "nowhere"
        /\ record.to = "app-gateway" => record.auth = "access_jwt" /\ record.key \in Keys
  <2>1. ASSUME NEW k \in Keys, SignRequest(r, p, k), NEW q \in Forwarded,
               signed' = [signed EXCEPT ![r] =
                            IF q.auth = "access_jwt"
                            THEN [to |-> q.to, auth |-> q.auth, by |-> p, key |-> k,
                                  at |-> now, sent |-> now]
                            ELSE [Unsigned EXCEPT !.to = q.to, !.auth = q.auth,
                                                  !.at = now, !.sent = now]]
        PROVE  \E record \in SignedRecord :
                 /\ signed' = [signed EXCEPT ![r] = record]
                 /\ record.sent = now /\ (record.to # "slack" => record.at = now) /\ record.to # "nowhere"
                 /\ record.to = "app-gateway" => record.auth = "access_jwt" /\ record.key \in Keys
    <3>1. /\ q.to \in Destinations /\ q.auth \in {"access_jwt", "github_webhook"}
          /\ q.to = "app-gateway" => q.auth = "access_jwt"
      BY ForwardedTyped
    <3>2. CASE q.auth = "access_jwt"
      <4> DEFINE record == [to |-> q.to, auth |-> q.auth, by |-> p, key |-> k,
                            at |-> now, sent |-> now]
      <4>1. record \in SignedRecord /\ record.at = now /\ record.sent = now /\ record.to = q.to /\ record.auth = "access_jwt" /\ record.key \in Keys
        BY <3>1, <3>2 DEF SignedRecord
      <4>2. signed' = [signed EXCEPT ![r] = record]
        BY <2>1, <3>2
      <4> HIDE DEF record
      <4> QED BY <4>1, <4>2, <3>1 DEF Destinations
    <3>3. CASE q.auth # "access_jwt"
      <4> DEFINE record == [Unsigned EXCEPT !.to = q.to, !.auth = q.auth,
                                            !.at = now, !.sent = now]
      <4>1. record \in SignedRecord /\ record.at = now /\ record.sent = now /\ record.to = q.to
        BY <3>1, OwnerIsManaged DEF SignedRecord, Unsigned, Destinations
      <4>2. signed' = [signed EXCEPT ![r] = record]
        BY <2>1, <3>3
      <4> HIDE DEF record
      <4> QED BY <4>1, <4>2, <3>1, <3>3 DEF Destinations
    <3> QED BY <3>2, <3>3
  <2>2. ASSUME SendCommand(r, p)
        PROVE  \E record \in SignedRecord :
                 /\ signed' = [signed EXCEPT ![r] = record]
                 /\ record.sent = now /\ (record.to # "slack" => record.at = now) /\ record.to # "nowhere"
                 /\ record.to = "app-gateway" => record.auth = "access_jwt" /\ record.key \in Keys
    <3>1. PICK ahead \in 0..SlackAhead :
            signed' = [signed EXCEPT ![r] = [to |-> "slack", auth |-> "slack", by |-> p,
                                             key |-> "none", at |-> now + ahead, sent |-> now]]
      BY <2>2 DEF SendCommand
    <3> DEFINE record == [to |-> "slack", auth |-> "slack", by |-> p,
                          key |-> "none", at |-> now + ahead, sent |-> now]
    <3>2. now + ahead \in Nat
      BY WindowsTyped
    <3>3. record \in SignedRecord /\ record.sent = now /\ record.to = "slack"
      BY <3>2 DEF SignedRecord
    <3>4. signed' = [signed EXCEPT ![r] = record]
      BY <3>1
    <3> HIDE DEF record
    <3> QED BY <3>3, <3>4
  <2> QED BY <2>1, <2>2 DEF SignRequest
<1>2. signed[r].to = "nowhere" /\ UNCHANGED << published, withdrawn, jwks, claimed, arrival, served, late, beat >>
  <2>1. signed[r] = Unsigned /\ UNCHANGED << published, withdrawn, jwks, claimed, arrival, served, late, beat >>
    BY DEF SignRequest, SendCommand
  <2>2. Unsigned.to = "nowhere"
    BY DEF Unsigned
  <2> QED BY <2>1, <2>2
<1>3. /\ signed' \in [Requests -> SignedRecord]
      /\ signed'[r] = record
      /\ \A s \in Requests : s # r => signed'[s] = signed[s]
  BY <1>1 DEF AccessInvariant, SignedKept
<1>4. SignedKept'
  BY <1>1, <1>3 DEF AccessInvariant, SignedKept
<1>5. KeysKept'
  BY <1>2 DEF AccessInvariant, KeysKept
<1>6. \A s \in Requests : IsSigned(s) => s # r /\ IsSigned(s)' /\ (Used(s) <=> Used(s)')
  BY <1>2, <1>3 DEF IsSigned, Used, WindowOver
<1>7. \A a \in Arrivals : ArrivalStands(arrival[a])'
  <2> SUFFICES ASSUME NEW a \in Arrivals PROVE ArrivalStands(arrival[a])'
    OBVIOUS
  <2>1. ArrivalStands(arrival[a]) /\ arrival'[a] = arrival[a]
    BY <1>2, ArrivalFacts
  <2>2. CASE arrival[a].pc = "idle"
    BY <1>2, <2>1, <2>2 DEF ArrivalStands, GatewaySteps, ClaimedSteps
  <2>3. CASE arrival[a].pc # "idle"
    <3>1. arrival[a].id \in Requests /\ IsSigned(arrival[a].id)
      BY <2>3, ArrivalFacts
    <3>2. signed'[arrival[a].id] = signed[arrival[a].id]
      BY <3>1, <1>3, <1>6
    <3>3. Used(arrival[a].id) => Used(arrival[a].id)'
      BY <2>1, <3>1, <1>6
    <3> QED BY <1>2, <2>1, <3>1, <3>2, <3>3 DEF ArrivalStands, IsSigned
  <2> QED BY <2>2, <2>3
<1>8. ClaimedOnce'
  <2>1. \A s \in Requests : served[s] # late[s] => IsSigned(s)' /\ Used(s)'
    BY <1>6 DEF AccessInvariant, ClaimedOnce
  <2> QED BY <2>1, <1>2 DEF AccessInvariant, ClaimedOnce, Holds
<1>9. ClaimsKept'
  <2>1. claimed[r] = Never
    BY <1>2 DEF AccessInvariant, ClaimsKept, IsSigned
  <2>2. \A s \in Requests : claimed[s] # Never => signed'[s] = signed[s]
    BY <1>3, <2>1
  <2> QED BY <1>2, <2>2 DEF AccessInvariant, ClaimsKept, Window, IsSigned
<1> QED BY <1>2, <1>4, <1>5, <1>7, <1>8, <1>9 DEF AccessInvariant

(* What is deleted is the claim of a window that is over.                  *)
LEMMA DropClaimKeeps ==
  ASSUME AccessInvariant, now \in Nat, UNCHANGED now, NEW r \in Requests, DropClaim(r)
  PROVE  AccessInvariant'
<1>1. /\ signed[r].to # "slack" /\ claimed[r] # Never /\ now > claimed[r]
      /\ claimed' = [claimed EXCEPT ![r] = Never]
      /\ UNCHANGED << published, withdrawn, jwks, signed, arrival, served, late, beat >>
  BY DEF DropClaim
<1>2. claimed \in [Requests -> {Never} \cup Nat] /\ signed[r].sent \in Nat
  BY DEF AccessInvariant, ClaimsKept, SignedKept, SignedRecord
<1>3. WindowOver(r)
  <2>1. claimed[r] \in Nat /\ signed[r].sent + OriginWindow <= claimed[r]
    BY <1>1, <1>2 DEF AccessInvariant, ClaimsKept, Window
  <2> QED BY <1>1, <1>2, <2>1, WindowsTyped DEF WindowOver
<1>4. \A s \in Requests : Used(s) => Used(s)'
  BY <1>1, <1>2, <1>3 DEF Used, WindowOver
<1>5. SignedKept' /\ KeysKept'
  BY <1>1 DEF AccessInvariant, SignedKept, KeysKept
<1>6. ClaimsKept'
  BY <1>1, <1>2 DEF AccessInvariant, ClaimsKept, Window, IsSigned
<1>7. \A a \in Arrivals : ArrivalStands(arrival[a])'
  <2> SUFFICES ASSUME NEW a \in Arrivals PROVE ArrivalStands(arrival[a])'
    OBVIOUS
  <2>1. ArrivalStands(arrival[a])
    BY ArrivalFacts
  <2>2. arrival[a].pc \in ClaimedSteps => Used(arrival[a].id)'
    BY <1>1, <2>1, <1>4 DEF ArrivalStands, ClaimedSteps
  <2> QED BY <1>1, <2>1, <2>2 DEF ArrivalStands, IsSigned
<1>8. ClaimedOnce'
  BY <1>1, <1>4 DEF AccessInvariant, ClaimedOnce, Holds, IsSigned
<1> QED BY <1>1, <1>5, <1>6, <1>7, <1>8 DEF AccessInvariant

(* A key that is withdrawn was published until now.                        *)
LEMMA RotateKeysKeeps ==
  ASSUME AccessInvariant, now \in Nat, UNCHANGED now,
         NEW old \in Keys, NEW new \in Keys, RotateKeys(old, new)
  PROVE  AccessInvariant'
<1>1. /\ published' = (published \ {old}) \cup {new}
      /\ withdrawn' = [withdrawn EXCEPT ![old] = now]
      /\ UNCHANGED << jwks, signed, claimed, arrival, served, late, beat >>
  BY DEF RotateKeys
<1>2. \A k \in Keys : withdrawn[k] \in Int /\ withdrawn[k] <= now
  <2>1. \A k \in Keys : withdrawn[k] \in {Never} \cup 0..now
    BY DEF AccessInvariant, KeysKept
  <2> QED BY <2>1 DEF Never
<1>3. \A k \in Keys, t \in Int :
        t <= now /\ (k \in published \/ t <= withdrawn[k]) => k \in published' \/ t <= withdrawn'[k]
  BY <1>1, <1>2 DEF AccessInvariant, KeysKept
<1>4. KeysKept'
  <2>1. published' \subseteq Keys /\ withdrawn' \in [Keys -> {Never} \cup 0..now]
    BY <1>1 DEF AccessInvariant, KeysKept
  <2>2. \A g \in Gateways : \A k \in jwks[g].keys :
          k \in published' \/ jwks[g].at - FetchTimeout <= withdrawn'[k]
    <3> SUFFICES ASSUME NEW g \in Gateways, NEW k \in jwks[g].keys
                 PROVE  k \in published' \/ jwks[g].at - FetchTimeout <= withdrawn'[k]
      OBVIOUS
    <3>1. jwks[g].at \in 0..now /\ k \in Keys
      BY DEF AccessInvariant, KeysKept
    <3>2. k \in published \/ jwks[g].at - FetchTimeout <= withdrawn[k]
      BY DEF AccessInvariant, KeysKept
    <3> QED BY <3>1, <3>2, <1>3, WindowsTyped
  <2> QED BY <1>1, <2>1, <2>2 DEF AccessInvariant, KeysKept
<1>5. SignedKept' /\ ClaimsKept' /\ ClaimedOnce'
  BY <1>1 DEF AccessInvariant, SignedKept, ClaimsKept, Window, ClaimedOnce, Holds, IsSigned,
     Used, WindowOver
<1>6. \A a \in Arrivals : ArrivalStands(arrival[a])'
  <2> SUFFICES ASSUME NEW a \in Arrivals PROVE ArrivalStands(arrival[a])'
    OBVIOUS
  <2>1. ArrivalStands(arrival[a]) /\ arrival[a].checked \in Int /\ arrival[a].checked <= now
    BY ArrivalFacts
  <2>2. arrival[a].seen \subseteq Keys
    BY ArrivalFacts DEF ArrivalRecord
  <2>3. arrival[a].pc = "fetched" =>
          \A k \in arrival[a].seen : k \in published' \/ arrival[a].checked <= withdrawn'[k]
    BY <2>1, <2>2, <1>3 DEF ArrivalStands
  <2>4. Used(arrival[a].id) => Used(arrival[a].id)'
    BY <1>1 DEF Used, WindowOver
  <2> QED BY <1>1, <2>1, <2>3, <2>4 DEF ArrivalStands, IsSigned
<1> QED BY <1>1, <1>4, <1>5, <1>6 DEF AccessInvariant

--------------------------------------------------------------------------------
(* A delivery begins.                                                      *)
LEMMA ArriveKeeps ==
  ASSUME AccessInvariant, now \in Nat, UNCHANGED now, NEW a \in Arrivals, NEW r \in Requests,
         (\E g \in Gateways : ArriveAtGateway(a, r, g))
           \/ ArriveAtControlPlane(a, r) \/ ArriveFromSlack(a, r)
  PROVE  AccessInvariant'
<1>1. UNCHANGED << published, withdrawn, jwks, signed, claimed, served, late, beat >>
      /\ IsSigned(r) /\ signed[r].sent <= now
  BY DEF ArriveAtGateway, ArriveAtControlPlane, ArriveFromSlack, IsSigned,
     AccessInvariant, SignedKept, SignedRecord
<1>2. ASSUME NEW g \in Gateways, ArriveAtGateway(a, r, g) PROVE AccessInvariant'
  <2> DEFINE x == [IdleArrival EXCEPT !.pc = "proved", !.id = r, !.gate = g,
                                      !.started = now, !.checked = now]
  <2>1. arrival' = [arrival EXCEPT ![a] = x] /\ signed[r].to = "app-gateway"
    BY <1>2 DEF ArriveAtGateway
  <2>2. /\ x \in ArrivalRecord /\ x.pc = "proved" /\ x.id = r /\ x.gate = g /\ x.checked = now
    BY DEF ArrivalRecord, ArrivalSteps, GatewaySteps, IdleArrival
  <2> HIDE DEF x
  <2>3. ArrivalStands(x) /\ x.pc \notin ClaimedSteps
    BY <1>1, <2>1, <2>2 DEF ArrivalStands, ClaimedSteps
  <2>4. beat' \in 0..now
    BY <1>1 DEF AccessInvariant
  <2> QED BY <1>1, <2>1, <2>3, <2>4, ArrivalMoves
<1>3. CASE ArriveAtControlPlane(a, r) \/ ArriveFromSlack(a, r)
  <2> DEFINE x == [IdleArrival EXCEPT !.pc = "fresh", !.id = r, !.started = now, !.checked = now]
  <2>1. arrival' = [arrival EXCEPT ![a] = x]
    BY <1>3 DEF ArriveAtControlPlane, ArriveFromSlack
  <2>2. /\ x \in ArrivalRecord /\ x.pc = "fresh" /\ x.id = r /\ x.checked = now
    BY DEF ArrivalRecord, ArrivalSteps, IdleArrival
  <2> HIDE DEF x
  <2>3. ArrivalStands(x) /\ x.pc \notin ClaimedSteps
    BY <1>1, <2>1, <2>2 DEF ArrivalStands, ClaimedSteps, GatewaySteps
  <2>4. beat' \in 0..now
    BY <1>1 DEF AccessInvariant
  <2> QED BY <1>1, <2>1, <2>3, <2>4, ArrivalMoves
<1> QED BY <1>2, <1>3

(* A delivery is turned away, cut off or served.                           *)
LEMMA DeniedKeeps ==
  ASSUME AccessInvariant, now \in Nat, NEW a \in Arrivals, Denied(a),
         UNCHANGED << now, published, withdrawn, jwks, signed, claimed, served, late, beat >>
  PROVE  AccessInvariant'
<1>1. beat' \in 0..now /\ arrival' = [arrival EXCEPT ![a] = IdleArrival]
  BY DEF AccessInvariant, Denied
<1> QED BY <1>1, IdleArrivalStands, ArrivalMoves DEF ClaimedSteps

(* It goes on among the steps before the claim, or after it.               *)
LEMMA GoesKeeps ==
  ASSUME AccessInvariant, NEW a \in Arrivals, NEW pc \in ArrivalSteps, Goes(a, pc),
         \/ pc \in {"verified", "fetching"} /\ arrival[a].pc \in GatewaySteps
         \/ pc \in ClaimedSteps /\ arrival[a].pc \in ClaimedSteps,
         beat' \in 0..now,
         UNCHANGED << now, published, withdrawn, jwks, signed, claimed, served, late >>
  PROVE  AccessInvariant'
<1> DEFINE x == [arrival[a] EXCEPT !.pc = pc]
<1>1. /\ x.id = arrival[a].id /\ x.late = arrival[a].late /\ x.pc = pc /\ ArrivalStands(x)
  BY ArrivalGoesOn
<1>2. arrival' = [arrival EXCEPT ![a] = x]
  BY DEF Goes
<1>3. x.pc \in ClaimedSteps => arrival[a].pc \in ClaimedSteps
  BY <1>1 DEF ClaimedSteps
<1> HIDE DEF x
<1> QED BY <1>1, <1>2, <1>3, ArrivalMoves

LEMMA LookUpKeyKeeps ==
  ASSUME AccessInvariant, UNCHANGED now, NEW a \in Arrivals, LookUpKey(a)
  PROVE  AccessInvariant'
<1>1. PICK pc \in {"verified", "fetching"} : Goes(a, pc)
  BY DEF LookUpKey
<1>2. /\ arrival[a].pc \in GatewaySteps /\ pc \in ArrivalSteps /\ beat' \in 0..now
      /\ UNCHANGED << published, withdrawn, jwks, signed, claimed, served, late >>
  BY DEF LookUpKey, GatewaySteps, ArrivalSteps, AccessInvariant
<1> QED BY <1>1, <1>2, GoesKeeps

LEMMA FetchKeysKeeps ==
  ASSUME AccessInvariant, now \in Nat, UNCHANGED now, NEW a \in Arrivals, FetchKeys(a)
  PROVE  AccessInvariant'
<1> DEFINE x == [arrival[a] EXCEPT !.pc = "fetched", !.checked = now, !.seen = published]
<1>1. /\ arrival' = [arrival EXCEPT ![a] = x] /\ beat' \in 0..now /\ arrival[a].pc = "fetching"
      /\ UNCHANGED << published, withdrawn, jwks, signed, claimed, served, late >>
  BY DEF FetchKeys, AccessInvariant
<1>2. published \subseteq Keys /\ arrival[a] \in ArrivalRecord
  BY DEF AccessInvariant, KeysKept
<1>3. /\ x \in ArrivalRecord /\ x.pc = "fetched" /\ x.id = arrival[a].id
      /\ x.gate = arrival[a].gate /\ x.checked = now /\ x.seen = published
  BY <1>2 DEF ArrivalRecord, ArrivalSteps, GatewaySteps
<1>4. ArrivalStands(arrival[a])
  BY ArrivalFacts
<1> HIDE DEF x
<1>5. ArrivalStands(x) /\ x.pc \notin ClaimedSteps
  BY <1>1, <1>3, <1>4 DEF ArrivalStands, ClaimedSteps, GatewaySteps
<1> QED BY <1>1, <1>5, ArrivalMoves

(* The store of a fetch: answers may be stored out of order, each within   *)
(* the fetch timeout of what it says.                                      *)
LEMMA StoreKeysKeeps ==
  ASSUME AccessInvariant, now \in Nat, UNCHANGED now, NEW a \in Arrivals, StoreKeys(a)
  PROVE  AccessInvariant'
<1> DEFINE g == arrival[a].gate
           copy == [keys |-> arrival[a].seen, at |-> now]
           x == [arrival[a] EXCEPT !.pc = "stored", !.seen = {}]
<1>1. /\ arrival[a].pc = "fetched" /\ now - arrival[a].checked <= FetchTimeout
      /\ jwks' = [jwks EXCEPT ![g] = copy]
      /\ arrival' = [arrival EXCEPT ![a] = x]
      /\ UNCHANGED << published, withdrawn, signed, claimed, served, late, beat >>
  BY DEF StoreKeys
<1>2. ArrivalStands(arrival[a]) /\ arrival[a] \in ArrivalRecord
      /\ arrival[a].checked \in Nat /\ arrival[a].checked <= now
  BY ArrivalFacts
<1>3. g \in Gateways /\ arrival[a].seen \subseteq Keys
  BY <1>1, <1>2 DEF ArrivalStands, GatewaySteps, ArrivalRecord
<1>4. /\ x \in ArrivalRecord /\ x.pc = "stored" /\ x.id = arrival[a].id
      /\ x.gate = g /\ x.checked = arrival[a].checked
  BY <1>2 DEF ArrivalRecord, ArrivalSteps, GatewaySteps
<1>5. /\ jwks' \in [Gateways -> [keys : SUBSET Keys, at : 0..now]]
      /\ jwks'[g] = copy /\ \A h \in Gateways : h # g => jwks'[h] = jwks[h]
  BY <1>1, <1>3 DEF AccessInvariant, KeysKept
<1>6. \A h \in Gateways : \A k \in jwks'[h].keys :
        k \in published \/ jwks'[h].at - FetchTimeout <= withdrawn[k]
  <2>1. ASSUME NEW k \in arrival[a].seen
        PROVE  k \in published \/ now - FetchTimeout <= withdrawn[k]
    <3>1. k \in published \/ arrival[a].checked <= withdrawn[k]
      BY <1>1, <1>2 DEF ArrivalStands
    <3>2. withdrawn[k] \in Int
      BY <1>3 DEF AccessInvariant, KeysKept, Never
    <3> QED BY <1>1, <1>2, <3>1, <3>2, WindowsTyped
  <2> QED BY <2>1, <1>5 DEF AccessInvariant, KeysKept
<1>7. KeysKept'
  BY <1>1, <1>5, <1>6 DEF AccessInvariant, KeysKept
<1>8. SignedKept' /\ ClaimsKept' /\ \A r : (Used(r) <=> Used(r)') /\ (IsSigned(r) <=> IsSigned(r)')
  BY <1>1 DEF AccessInvariant, SignedKept, ClaimsKept, Window, Used, WindowOver, IsSigned
<1>9. /\ arrival' \in [Arrivals -> ArrivalRecord]
      /\ \A b \in Arrivals : arrival'[b] = IF b = a THEN x ELSE arrival[b]
  BY <1>1, <1>4 DEF AccessInvariant
<1>10. \A b \in Arrivals : ArrivalStands(arrival[b])'
  <2> SUFFICES ASSUME NEW b \in Arrivals PROVE ArrivalStands(arrival[b])'
    OBVIOUS
  <2> HIDE DEF x, g, copy
  <2>1. CASE b = a
    <3>1. arrival'[b] = x /\ copy.at = now /\ jwks'[x.gate].at = now
      BY <2>1, <1>4, <1>5, <1>9 DEF copy
    <3> QED BY <3>1, <1>1, <1>2, <1>3, <1>4, <1>8 DEF ArrivalStands, GatewaySteps, ClaimedSteps
  <2>2. CASE b # a
    <3>1. arrival'[b] = arrival[b] /\ ArrivalStands(arrival[b])
          /\ arrival[b].checked \in Nat /\ arrival[b].checked <= now
      BY <2>2, <1>9, ArrivalFacts
    <3>2. arrival[b].pc = "stored" => arrival[b].checked <= jwks'[arrival[b].gate].at
      <4>1. arrival[b].pc = "stored" => arrival[b].gate \in Gateways
        BY <3>1 DEF ArrivalStands, GatewaySteps
      <4>2. copy.at = now
        BY DEF copy
      <4> QED BY <3>1, <4>1, <4>2, <1>5 DEF ArrivalStands
    <3> QED BY <1>1, <3>1, <3>2, <1>8 DEF ArrivalStands
  <2> QED BY <2>1, <2>2
<1>11. ClaimedOnce'
  <2>1. x.pc \notin ClaimedSteps
    BY <1>4 DEF ClaimedSteps
  <2> QED BY <2>1, <1>1, <1>8, <1>9 DEF AccessInvariant, ClaimedOnce, Holds
<1> QED BY <1>1, <1>7, <1>8, <1>9, <1>10, <1>11 DEF AccessInvariant

LEMMA LookAgainKeeps ==
  ASSUME AccessInvariant, now \in Nat, UNCHANGED now, NEW a \in Arrivals, LookAgain(a)
  PROVE  AccessInvariant'
<1>1. /\ arrival[a].pc \in GatewaySteps /\ "verified" \in ArrivalSteps /\ beat' \in 0..now
      /\ UNCHANGED << published, withdrawn, jwks, signed, claimed, served, late, beat >>
  BY DEF LookAgain, GatewaySteps, ArrivalSteps, AccessInvariant
<1>2. Goes(a, "verified") \/ Denied(a)
  BY DEF LookAgain
<1> QED BY <1>1, <1>2, GoesKeeps, DeniedKeeps

LEMMA AskControlPlaneKeeps ==
  ASSUME AccessInvariant, now \in Nat, UNCHANGED now, NEW a \in Arrivals, AskControlPlane(a)
  PROVE  AccessInvariant'
<1>1. /\ arrival[a].pc = "verified" /\ beat' \in 0..now
      /\ UNCHANGED << published, withdrawn, jwks, signed, claimed, served, late, beat >>
  BY DEF AskControlPlane, AccessInvariant
<1>2. CASE Denied(a)
  BY <1>1, <1>2, DeniedKeeps
<1>3. CASE Fresh(arrival[a].id)
           /\ arrival' = [arrival EXCEPT ![a].pc = "fresh", ![a].checked = now]
  <2> DEFINE x == [arrival[a] EXCEPT !.pc = "fresh", !.checked = now]
  <2>1. arrival' = [arrival EXCEPT ![a] = x]
    BY <1>3
  <2>2. /\ arrival[a] \in ArrivalRecord /\ arrival[a].id \in Requests /\ IsSigned(arrival[a].id)
        /\ At(a) \in SignedRecord /\ At(a) = signed[arrival[a].id]
    BY <1>1, ArrivalFacts
  <2>3. x \in ArrivalRecord /\ x.pc = "fresh" /\ x.id = arrival[a].id /\ x.checked = now
    BY <2>2 DEF ArrivalRecord, ArrivalSteps
  <2> HIDE DEF x
  <2>4. signed[arrival[a].id].sent <= now
    BY <2>2 DEF AccessInvariant, SignedKept
  <2>5. ArrivalStands(x) /\ x.pc \notin ClaimedSteps
    BY <2>2, <2>3, <2>4 DEF ArrivalStands, ClaimedSteps, GatewaySteps
  <2> QED BY <1>1, <2>1, <2>5, ArrivalMoves
<1> QED BY <1>2, <1>3 DEF AskControlPlane

(* A claim is forgotten only when the window of its request is over.       *)
LEMMA ClaimsAreRemembered ==
  ASSUME AccessInvariant, now \in Nat, NEW a \in Arrivals, arrival[a].pc = "fresh"
  PROVE  /\ Remembered(a) \in [Requests -> {Never} \cup Nat]
         /\ \A r \in Requests : \/ Remembered(a)[r] = claimed[r]
                                \/ Remembered(a)[r] = Never /\ WindowOver(r)
<1>1. /\ claimed \in [Requests -> {Never} \cup Nat]
      /\ arrival[a].checked \in Nat /\ arrival[a].checked <= now
  BY ArrivalFacts DEF AccessInvariant, ClaimsKept
<1>2. CASE At(a).to # "slack"
  BY <1>1, <1>2 DEF Remembered
<1>3. CASE At(a).to = "slack"
  <2>1. Remembered(a) = [r \in Requests |->
          IF signed[r].to = "slack" /\ claimed[r] <= arrival[a].checked THEN Never ELSE claimed[r]]
    BY <1>3 DEF Remembered
  <2>2. ASSUME NEW r \in Requests, signed[r].to = "slack", claimed[r] <= arrival[a].checked,
               claimed[r] # Never
        PROVE  WindowOver(r)
    <3>1. /\ claimed[r] \in Nat /\ signed[r].sent \in Nat
          /\ signed[r].sent + SlackWindow <= claimed[r]
      BY <1>1, <2>2 DEF AccessInvariant, ClaimsKept, SignedKept, SignedRecord, Window
    <3> QED BY <1>1, <2>2, <3>1, WindowsTyped DEF WindowOver
  <2>3. \A r \in Requests : Remembered(a)[r] \in {claimed[r], Never}
    BY <2>1
  <2>4. Remembered(a) \in [Requests -> {Never} \cup Nat]
    BY <1>1, <2>1
  <2> QED BY <2>1, <2>2, <2>4
<1> QED BY <1>2, <1>3

(* The claim a delivery makes outlives the window of its request.          *)
LEMMA ClaimsOutliveTheWindow ==
  ASSUME AccessInvariant, now \in Nat, NEW a \in Arrivals, arrival[a].pc = "fresh"
  PROVE  /\ ClaimExpires(a) \in Nat
         /\ signed[arrival[a].id].sent + Window(arrival[a].id) <= ClaimExpires(a)
<1>1. /\ arrival[a].id \in Requests /\ At(a) = signed[arrival[a].id] /\ At(a) \in SignedRecord
      /\ arrival[a].checked \in Nat /\ signed[arrival[a].id].sent <= arrival[a].checked
  BY ArrivalFacts DEF ArrivalStands
<1>2. At(a).to # "slack" => At(a).at = At(a).sent
  BY <1>1 DEF AccessInvariant, SignedKept
<1>3. At(a).sent \in Nat
  BY <1>1 DEF SignedRecord
<1> QED BY <1>1, <1>2, <1>3, WindowsTyped DEF ClaimExpires, Window

LEMMA ClaimKeeps ==
  ASSUME AccessInvariant, now \in Nat, UNCHANGED now, NEW a \in Arrivals, Claim(a)
  PROVE  AccessInvariant'
<1>1. PICK r \in Requests : r = arrival[a].id
  BY ArrivalFacts DEF Claim
<1>2. /\ arrival[a].pc = "fresh" /\ IsSigned(r)
      /\ ArrivalStands(arrival[a]) /\ arrival[a] \in ArrivalRecord
      /\ UNCHANGED << published, withdrawn, jwks, signed, served, late, beat >>
  BY <1>1, ArrivalFacts DEF Claim
<1>3. /\ Remembered(a) \in [Requests -> {Never} \cup Nat]
      /\ \A s \in Requests : \/ Remembered(a)[s] = claimed[s]
                             \/ Remembered(a)[s] = Never /\ WindowOver(s)
  BY <1>2, ClaimsAreRemembered
<1>4. /\ ClaimExpires(a) \in Nat /\ ClaimExpires(a) # Never
      /\ signed[r].sent + Window(r) <= ClaimExpires(a)
  BY <1>1, <1>2, ClaimsOutliveTheWindow DEF Never
<1>5. \/ claimed' = Remembered(a) /\ Denied(a)
      \/ /\ Remembered(a)[r] = Never
         /\ claimed' = [Remembered(a) EXCEPT ![r] = ClaimExpires(a)]
         /\ \/ arrival' = [arrival EXCEPT ![a].pc = "claimed", ![a].late = WindowOver(r)]
            \/ Denied(a)
  BY <1>1 DEF Claim
<1>6. /\ claimed' \in [Requests -> {Never} \cup Nat]
      /\ \A s \in Requests : \/ claimed'[s] = claimed[s]
                             \/ claimed'[s] = Never /\ WindowOver(s)
                             \/ s = r /\ claimed'[s] = ClaimExpires(a)
  BY <1>3, <1>4, <1>5
<1>7. ClaimsKept'
  <2> SUFFICES ASSUME NEW s \in Requests, claimed'[s] # Never
               PROVE  IsSigned(s)' /\ signed'[s].sent + Window(s)' <= claimed'[s]
    BY <1>6 DEF ClaimsKept
  <2>1. CASE claimed'[s] = claimed[s]
    BY <1>2, <2>1 DEF AccessInvariant, ClaimsKept, Window, IsSigned
  <2>2. CASE s = r /\ claimed'[s] = ClaimExpires(a)
    BY <1>2, <1>4, <2>2 DEF Window, IsSigned
  <2> QED BY <1>6, <2>1, <2>2
<1>8. \A s \in Requests : Used(s) => Used(s)'
  BY <1>2, <1>4, <1>6 DEF Used, WindowOver
<1>9. WindowOver(r) \in BOOLEAN
  <2>1. (now >= signed[r].sent + SlackWindow) \in BOOLEAN
    OBVIOUS
  <2>2. (now > signed[r].sent + OriginWindow) \in BOOLEAN
    OBVIOUS
  <2>3. CASE signed[r].to = "slack"
    BY <2>1, <2>3, Zenon DEF WindowOver
  <2>4. CASE signed[r].to # "slack"
    BY <2>2, <2>4, Zenon DEF WindowOver
  <2> QED BY <2>3, <2>4
<1>10. PICK x \in ArrivalRecord :
          /\ arrival' = [arrival EXCEPT ![a] = x]
          /\ \/ x = IdleArrival
             \/ /\ x.pc = "claimed" /\ x.id = r /\ x.checked = arrival[a].checked
                /\ x.late = WindowOver(r)
                /\ Remembered(a)[r] = Never /\ claimed'[r] = ClaimExpires(a)
  <2>1. CASE Denied(a)
    BY <2>1, IdleArrivalStands DEF Denied, ArrivalStands
  <2>2. CASE /\ Remembered(a)[r] = Never
             /\ claimed' = [Remembered(a) EXCEPT ![r] = ClaimExpires(a)]
             /\ arrival' = [arrival EXCEPT ![a].pc = "claimed", ![a].late = WindowOver(r)]
    <3> DEFINE y == [arrival[a] EXCEPT !.pc = "claimed", !.late = WindowOver(r)]
    <3>1. arrival' = [arrival EXCEPT ![a] = y]
      BY <2>2
    <3>2. /\ y \in ArrivalRecord /\ y.pc = "claimed" /\ y.id = r
          /\ y.checked = arrival[a].checked /\ y.late = WindowOver(r)
      BY <1>1, <1>2, <1>9 DEF ArrivalRecord, ArrivalSteps, ClaimedSteps
    <3>3. claimed'[r] = ClaimExpires(a)
      BY <1>3, <2>2
    <3> HIDE DEF y
    <3> QED BY <2>2, <3>1, <3>2, <3>3
  <2> QED BY <1>5, <2>1, <2>2
<1>11. /\ arrival' \in [Arrivals -> ArrivalRecord]
       /\ \A b \in Arrivals : arrival'[b] = IF b = a THEN x ELSE arrival[b]
  BY <1>10 DEF AccessInvariant
(* Who claims a request in its window is the first to do so.               *)
<1>12. Holds(x) => /\ x.id = r /\ served[r] = late[r]
                   /\ \A b \in Arrivals : Holds(arrival[b]) => arrival[b].id # r
  <2> SUFFICES ASSUME Holds(x)
               PROVE  /\ x.id = r /\ served[r] = late[r]
                      /\ \A b \in Arrivals : Holds(arrival[b]) => arrival[b].id # r
    OBVIOUS
  <2>1. x # IdleArrival
    BY IdleArrivalStands DEF Holds, ClaimedSteps
  <2>2. x.id = r /\ ~WindowOver(r) /\ Remembered(a)[r] = Never
    BY <1>10, <2>1 DEF Holds
  <2>3. ~Used(r)
    BY <1>3, <2>2 DEF Used
  <2> QED BY <2>2, <2>3, ArrivalFacts DEF AccessInvariant, ClaimedOnce, ArrivalStands, Holds
<1>13. SignedKept' /\ KeysKept'
  BY <1>2 DEF AccessInvariant, SignedKept, KeysKept
<1>14. \A b \in Arrivals : ArrivalStands(arrival[b])'
  <2> SUFFICES ASSUME NEW b \in Arrivals PROVE ArrivalStands(arrival[b])'
    OBVIOUS
  <2>1. CASE b = a /\ x = IdleArrival
    BY <2>1, <1>2, <1>11, IdleArrivalStands DEF ArrivalStands, GatewaySteps, ClaimedSteps
  <2>2. CASE b = a /\ x # IdleArrival
    <3>1. /\ arrival'[b] = x /\ x.pc = "claimed" /\ x.id = r /\ x.checked <= now
          /\ x \in ArrivalRecord
      BY <2>2, <1>2, <1>10, <1>11 DEF ArrivalStands
    <3>2. Used(r)'
      BY <2>2, <1>4, <1>10 DEF Used
    <3>3. ~x.late => served'[r] = late'[r]
      BY <3>1, <1>2, <1>12 DEF Holds, ClaimedSteps
    <3> QED BY <1>2, <3>1, <3>2, <3>3 DEF ArrivalStands, GatewaySteps, IsSigned
  <2>3. CASE b # a
    <3>1. arrival'[b] = arrival[b] /\ ArrivalStands(arrival[b])
      BY <2>3, <1>11, ArrivalFacts
    <3>2. arrival[b].pc \in ClaimedSteps => Used(arrival[b].id)'
      BY <3>1, <1>8 DEF ArrivalStands, ClaimedSteps
    <3> QED BY <1>2, <3>1, <3>2 DEF ArrivalStands, IsSigned
  <2> QED BY <2>1, <2>2, <2>3
<1>15. ClaimedOnce'
  <2>1. ASSUME NEW b \in Arrivals, NEW c \in Arrivals, b # c,
               Holds(arrival'[b]), Holds(arrival'[c])
        PROVE  arrival'[b].id # arrival'[c].id
    BY <1>11, <1>12, <2>1 DEF AccessInvariant, ClaimedOnce
  <2>2. \A s \in Requests : served'[s] # late'[s] => IsSigned(s)' /\ Used(s)'
    BY <1>2, <1>8 DEF AccessInvariant, ClaimedOnce, IsSigned
  <2> QED BY <1>2, <2>1, <2>2 DEF AccessInvariant, ClaimedOnce, Holds
<1> QED BY <1>2, <1>7, <1>11, <1>13, <1>14, <1>15 DEF AccessInvariant

LEMMA DecideKeeps ==
  ASSUME AccessInvariant, now \in Nat, UNCHANGED now, NEW a \in Arrivals,
         DecideApp(a) \/ DecideControl(a) \/ ReadInstall(a) \/ DecideSlack(a)
  PROVE  AccessInvariant'
<1>1. /\ arrival[a].pc \in ClaimedSteps /\ beat' \in 0..now
      /\ UNCHANGED << published, withdrawn, jwks, signed, claimed, served, late, beat >>
  BY DEF DecideApp, DecideControl, ReadInstall, DecideSlack, ClaimedSteps, AccessInvariant
<1>2. Denied(a) \/ \E pc \in {"opened", "granted", "installed"} : Goes(a, pc)
  BY DEF DecideApp, DecideControl, ReadInstall, DecideSlack
<1>3. {"opened", "granted", "installed"} \subseteq ClaimedSteps
      /\ {"opened", "granted", "installed"} \subseteq ArrivalSteps
  BY DEF ClaimedSteps, ArrivalSteps
<1> QED BY <1>1, <1>2, <1>3, GoesKeeps, DeniedKeeps

LEMMA RecordActivityKeeps ==
  ASSUME AccessInvariant, now \in Nat, UNCHANGED now, NEW a \in Arrivals, RecordActivity(a)
  PROVE  AccessInvariant'
<1>1. /\ arrival[a].pc = "opened" /\ Goes(a, "granted")
      /\ beat' \in {beat, arrival[a].checked}
      /\ UNCHANGED << published, withdrawn, jwks, signed, claimed, served, late >>
  BY DEF RecordActivity
<1>2. beat' \in 0..now
  BY <1>1, ArrivalFacts DEF AccessInvariant
<1>3. "opened" \in ClaimedSteps /\ "granted" \in ClaimedSteps /\ "granted" \in ArrivalSteps
  BY DEF ClaimedSteps, ArrivalSteps
<1> QED BY <1>1, <1>2, <1>3, GoesKeeps

(* A delivery that has a claim is served, and ends.                        *)
LEMMA ServeKeeps ==
  ASSUME AccessInvariant, now \in Nat, UNCHANGED now, NEW a \in Arrivals, Serve(a)
  PROVE  AccessInvariant'
<1>1. PICK r \in Requests : r = arrival[a].id
  BY ArrivalFacts DEF Serve
<1>2. /\ arrival[a].pc = "granted" /\ Denied(a)
      /\ UNCHANGED << published, withdrawn, jwks, signed, claimed, beat >>
  BY DEF Serve
<1>3. CASE UNCHANGED << served, late >>
  BY <1>2, <1>3, DeniedKeeps
<1>4. ASSUME served' = [served EXCEPT ![r] = @ + 1],
             late' = IF arrival[a].late THEN [late EXCEPT ![r] = @ + 1] ELSE late
      PROVE  AccessInvariant'
  <2>1. /\ ArrivalStands(arrival[a]) /\ IsSigned(r) /\ Used(r)
        /\ arrival[a].pc \in ClaimedSteps
        /\ ~arrival[a].late => served[r] = late[r] /\ Holds(arrival[a])
    BY <1>1, <1>2, ArrivalFacts DEF ArrivalStands, ClaimedSteps, Holds
  <2>2. /\ arrival' \in [Arrivals -> ArrivalRecord]
        /\ \A b \in Arrivals : arrival'[b] = IF b = a THEN IdleArrival ELSE arrival[b]
    BY <1>2, IdleArrivalStands DEF AccessInvariant, Denied, ArrivalStands
  <2>3. /\ served' \in [Requests -> Nat] /\ served'[r] = served[r] + 1
        /\ \A s \in Requests : s # r => served'[s] = served[s]
    BY <1>4 DEF AccessInvariant
  <2>4. /\ late' \in [Requests -> Nat]
        /\ late'[r] = IF arrival[a].late THEN late[r] + 1 ELSE late[r]
        /\ \A s \in Requests : s # r => late'[s] = late[s]
    BY <1>4 DEF AccessInvariant
  <2>5. SignedKept' /\ ClaimsKept' /\ KeysKept'
    BY <1>2 DEF AccessInvariant, SignedKept, ClaimsKept, Window, IsSigned, KeysKept
  <2>6. \A s : (Used(s) <=> Used(s)') /\ (IsSigned(s) <=> IsSigned(s)')
    BY <1>2 DEF Used, WindowOver, IsSigned
  <2>7. served[r] \in Nat /\ late[r] \in Nat
    BY DEF AccessInvariant
  <2>8. arrival[a].late \in BOOLEAN
    BY ArrivalFacts DEF ArrivalRecord
  <2>9. \A s \in Requests \ {r} : served'[s] = served[s] /\ late'[s] = late[s]
    BY <2>3, <2>4
  <2>10. \/ arrival[a].late /\ (served'[r] = late'[r] <=> served[r] = late[r])
                            /\ (served'[r] = late'[r] + 1 <=> served[r] = late[r] + 1)
         \/ ~arrival[a].late /\ served'[r] = late'[r] + 1
    <3>1. CASE arrival[a].late
      <4>1. served'[r] = served[r] + 1 /\ late'[r] = late[r] + 1
        BY <2>3, <2>4, <3>1
      <4> QED BY <3>1, <4>1, <2>7
    <3>2. CASE ~arrival[a].late
      <4>1. served'[r] = served[r] + 1 /\ late'[r] = late[r] /\ served[r] = late[r]
        BY <2>1, <2>3, <2>4, <3>2
      <4> QED BY <3>2, <4>1
    <3> QED BY <2>8, <3>1, <3>2
  <2>11. \A b \in Arrivals : ArrivalStands(arrival[b])'
    <3> SUFFICES ASSUME NEW b \in Arrivals PROVE ArrivalStands(arrival[b])'
      OBVIOUS
    <3>1. CASE b = a
      BY <3>1, <1>2, <2>2, IdleArrivalStands DEF ArrivalStands, GatewaySteps, ClaimedSteps
    <3>2. CASE b # a
      <4>1. /\ arrival'[b] = arrival[b] /\ ArrivalStands(arrival[b])
            /\ arrival[b].pc \in ClaimedSteps => arrival[b].id \in Requests
        BY <3>2, <2>2, ArrivalFacts DEF ClaimedSteps
      <4>2. Holds(arrival[b]) => served'[arrival[b].id] = late'[arrival[b].id]
        <5> SUFFICES ASSUME Holds(arrival[b])
                     PROVE  served'[arrival[b].id] = late'[arrival[b].id]
          OBVIOUS
        <5>1. arrival[b].id \in Requests /\ served[arrival[b].id] = late[arrival[b].id]
          BY <4>1 DEF Holds, ArrivalStands
        <5>2. arrival[b].id = r => arrival[a].late
          BY <1>1, <2>1, <3>2 DEF AccessInvariant, ClaimedOnce
        <5> QED BY <5>1, <5>2, <2>9, <2>10
      <4>3. arrival[b].pc \in ClaimedSteps => Used(arrival[b].id)'
        BY <4>1, <2>6 DEF ArrivalStands
      <4> QED BY <1>2, <4>1, <4>2, <4>3, <2>6 DEF ArrivalStands, IsSigned, Holds
    <3> QED BY <3>1, <3>2
  <2>12. ClaimedOnce'
    <3>1. ~Holds(IdleArrival)
      BY IdleArrivalStands DEF Holds, ClaimedSteps
    <3>2. ASSUME NEW b \in Arrivals, NEW c \in Arrivals, b # c,
                 Holds(arrival'[b]), Holds(arrival'[c])
          PROVE  arrival'[b].id # arrival'[c].id
      BY <2>2, <3>1, <3>2 DEF AccessInvariant, ClaimedOnce
    <3>3. ASSUME NEW s \in Requests
          PROVE  /\ served'[s] = late'[s] \/ served'[s] = late'[s] + 1
                 /\ served'[s] # late'[s] => IsSigned(s)' /\ Used(s)'
      <4>1. CASE s = r
        BY <4>1, <2>1, <2>6, <2>10 DEF AccessInvariant, ClaimedOnce
      <4>2. CASE s # r
        BY <4>2, <2>6, <2>9 DEF AccessInvariant, ClaimedOnce
      <4> QED BY <4>1, <4>2
    <3> QED BY <3>2, <3>3 DEF ClaimedOnce, Holds
  <2> QED BY <1>2, <2>2, <2>3, <2>4, <2>5, <2>11, <2>12 DEF AccessInvariant
<1> QED BY <1>1, <1>3, <1>4 DEF Serve

LEMMA AbandonKeeps ==
  ASSUME AccessInvariant, now \in Nat, UNCHANGED now, NEW a \in Arrivals, Abandon(a)
  PROVE  AccessInvariant'
BY DeniedKeeps DEF Abandon

LEMMA AccessStepKeeps ==
  ASSUME AccessInvariant, now \in Nat, UNCHANGED now, AccessNext PROVE AccessInvariant'
<1>1. ASSUME NEW a \in Arrivals, ArrivalStep(a) PROVE AccessInvariant'
  BY <1>1, ArriveKeeps, LookUpKeyKeeps, FetchKeysKeeps, StoreKeysKeeps, LookAgainKeeps,
     AskControlPlaneKeeps, ClaimKeeps, DecideKeeps, RecordActivityKeeps, ServeKeeps, AbandonKeeps
     DEF ArrivalStep
<1> QED BY <1>1, SignKeeps, DropClaimKeeps, RotateKeysKeeps DEF AccessNext

LEMMA AccessInitially == ASSUME Init PROVE AccessInvariant
<1>1. now = 0 /\ AccessInit
  BY DEF Init, DirectoryInit
<1>2. SignedKept
  <2>1. Unsigned \in SignedRecord /\ Unsigned.to = "nowhere" /\ Unsigned.at = 0 /\ Unsigned.sent = 0
    BY OwnerIsManaged DEF Unsigned, SignedRecord
  <2> QED BY <1>1, <2>1 DEF AccessInit, SignedKept
<1>3. KeysKept
  <2>1. published \subseteq Keys
    BY <1>1, AccessBounds DEF AccessInit
  <2>2. withdrawn \in [Keys -> {Never} \cup 0..now]
    BY <1>1 DEF AccessInit
  <2>3. jwks \in [Gateways -> [keys : SUBSET Keys, at : 0..now]]
    BY <1>1, <2>1 DEF AccessInit
  <2> QED BY <1>1, <2>1, <2>2, <2>3 DEF AccessInit, KeysKept
<1>4. /\ arrival \in [Arrivals -> ArrivalRecord]
      /\ \A a \in Arrivals : ArrivalStands(arrival[a]) /\ arrival[a].pc = "idle"
  BY <1>1, IdleArrivalStands DEF AccessInit, ArrivalStands
<1>5. ClaimedOnce
  BY <1>1, <1>4 DEF AccessInit, ClaimedOnce, Holds, ClaimedSteps
<1>6. /\ ClaimsKept
      /\ served \in [Requests -> Nat] /\ late \in [Requests -> Nat] /\ beat \in 0..now
  BY <1>1 DEF AccessInit, ClaimsKept
<1> QED BY <1>2, <1>3, <1>4, <1>5, <1>6 DEF AccessInvariant

LEMMA TimeOnlyPasses ==
  ASSUME DirectoryInvariant, [Next]_vars PROVE now \in Nat /\ now' \in Nat /\ now <= now'
<1>1. now \in Nat
  BY DEF DirectoryInvariant, BudgetKept
<1>2. CASE DirectoryNext
  <2>1. now' = now \/ now' = now + 1
    BY <1>2 DEF DirectoryNext, SyncStep, Tick, Move, Acquire, CollectUsers, CollectMembers,
       ReadUsers, ApplySnapshot, ConfirmPersisted, Release, FetchFails, JobDies
  <2> QED BY <1>1, <2>1
<1>3. CASE UNCHANGED directoryKept
  BY <1>1, <1>3 DEF directoryKept
<1> QED BY <1>2, <1>3, StepsOfTheParts

(* Every step is one of the doors', or leaves what they hold.              *)
LEMMA StepsOfTheDoors ==
  ASSUME [Next]_vars
  PROVE  \/ AccessNext /\ UNCHANGED directoryKept /\ UNCHANGED slackVars
         \/ UNCHANGED accessVars
BY DEF Next, vars

LEMMA AccessInvariantHolds == Spec => [](DirectoryInvariant /\ AccessInvariant)
<1>1. Init => AccessInvariant
  BY AccessInitially
<1>2. DirectoryInvariant /\ AccessInvariant /\ [Next]_vars => AccessInvariant'
  <2> SUFFICES ASSUME DirectoryInvariant, AccessInvariant, [Next]_vars PROVE AccessInvariant'
    OBVIOUS
  <2>1. now \in Nat /\ now' \in Nat /\ now <= now'
    BY TimeOnlyPasses
  <2>2. CASE AccessNext /\ UNCHANGED directoryKept
    <3>1. UNCHANGED now
      BY <2>2 DEF directoryKept
    <3> QED BY <2>1, <2>2, <3>1, AccessStepKeeps
  <2>3. CASE UNCHANGED accessVars
    BY <2>1, <2>3, AccessStandsInTime
  <2> QED BY <2>2, <2>3, StepsOfTheDoors
<1> QED BY <1>1, <1>2, DirectoryInvariantHolds, PTL DEF Spec

LEMMA AccessIsTyped == ASSUME DirectoryInvariant, AccessInvariant PROVE AccessTypeOK
<1>1. now \in 0..MaxTime /\ MaxTime \in Nat
  BY NowIsBounded, DirectoryBounds DEF DirectoryInvariant
<1>2. withdrawn \in [Keys -> {Never} \cup 0..MaxTime]
  BY <1>1 DEF AccessInvariant, KeysKept
<1>3. \A g \in Gateways : jwks[g].keys \subseteq Keys /\ jwks[g].at \in 0..MaxTime
  BY <1>1 DEF AccessInvariant, KeysKept
<1>4. beat \in 0..MaxTime
  BY <1>1 DEF AccessInvariant
<1> QED BY <1>2, <1>3, <1>4 DEF AccessTypeOK, AccessInvariant, KeysKept, ClaimsKept

--------------------------------------------------------------------------------
(***************************************************************************)
(* Of the deliveries of a signed request that claim it within its window,  *)
(* counted from when it was sent, one is carried out, for any number of    *)
(* requests, deliveries and doors, any windows and any lead of Slack's     *)
(* clock, although the freshness is checked before the id is claimed, the  *)
(* claim expires with the window and the stores forget it                  *)
(* (OriginHmacVerifier.verify, AppGatewayAuthorizationService.authorize,   *)
(* SlackRequestVerifier.verify, the TTL policy on origin_request_claims).  *)
(* What the claims do not stop is a delivery that claims after the window. *)
(***************************************************************************)
THEOREM RequestsAreServedOnce == Spec => []ServedOnce
<1>1. AccessInvariant => ServedOnce
  <2>1. \A n, m \in Nat : (n = m \/ n = m + 1) => n <= 1 + m
    OBVIOUS
  <2> QED BY <2>1 DEF AccessInvariant, ClaimedOnce, ServedOnce
<1> QED BY <1>1, AccessInvariantHolds, PTL

(* A delivery only moves by its own steps.                                 *)
LEMMA ArrivalsMoveAlone ==
  ASSUME AccessNext, NEW a \in Arrivals, arrival'[a] # arrival[a]
  PROVE  ArrivalStep(a)
<1>1. ASSUME NEW b \in Arrivals, b # a, ArrivalStep(b) PROVE arrival'[a] = arrival[a]
  <2>1. \E x : arrival' = [arrival EXCEPT ![b] = x]
    BY <1>1 DEF ArrivalStep, ArriveAtGateway, ArriveAtControlPlane, ArriveFromSlack, LookUpKey,
       FetchKeys, StoreKeys, LookAgain, AskControlPlane, Claim, DecideApp, RecordActivity,
       DecideControl, ReadInstall, DecideSlack, Serve, Abandon, Goes, Denied
  <2> QED BY <1>1, <2>1
<1>2. UNCHANGED arrival \/ \E b \in Arrivals : ArrivalStep(b)
  BY DEF AccessNext, SignRequest, SendCommand, DropClaim, RotateKeys
<1> QED BY <1>1, <1>2

(* Only a look at the keys verifies, and only a decision lets through.     *)
LEMMA WhereDeliveriesGo ==
  ASSUME AccessInvariant, NEW a \in Arrivals, ArrivalStep(a)
  PROVE  \/ arrival'[a].pc \notin {"verified", "opened", "granted"}
         \/ LookUpKey(a) \/ LookAgain(a)
         \/ DecideApp(a) \/ DecideControl(a) \/ DecideSlack(a) \/ RecordActivity(a)
<1>1. arrival \in [Arrivals -> ArrivalRecord] /\ arrival[a] \in ArrivalRecord
  BY DEF AccessInvariant
<1>2. IdleArrival.pc = "idle"
  BY DEF IdleArrival
<1>3. Denied(a) => arrival'[a].pc = "idle"
  BY <1>1, <1>2 DEF Denied
<1>4. \A pc : Goes(a, pc) => arrival'[a].pc = pc
  BY <1>1 DEF Goes, ArrivalRecord
<1>5. ASSUME NEW r \in Requests, (\E g \in Gateways : ArriveAtGateway(a, r, g))
                                 \/ ArriveAtControlPlane(a, r) \/ ArriveFromSlack(a, r)
      PROVE  arrival'[a].pc \in {"proved", "fresh"}
  BY <1>1, <1>5 DEF ArriveAtGateway, ArriveAtControlPlane, ArriveFromSlack, IdleArrival
<1>6. FetchKeys(a) \/ StoreKeys(a) => arrival'[a].pc \in {"fetched", "stored"}
  BY <1>1 DEF FetchKeys, StoreKeys, ArrivalRecord
<1>7. AskControlPlane(a) => arrival'[a].pc \in {"fresh", "idle"}
  BY <1>1, <1>3 DEF AskControlPlane, ArrivalRecord
<1>8. Claim(a) \/ ReadInstall(a) => arrival'[a].pc \in {"claimed", "installed", "idle"}
  BY <1>1, <1>3, <1>4 DEF Claim, ReadInstall, ArrivalRecord
<1>9. Serve(a) \/ Abandon(a) => arrival'[a].pc = "idle"
  BY <1>3 DEF Serve, Abandon
<1> QED BY <1>5, <1>6, <1>7, <1>8, <1>9 DEF ArrivalStep

(***************************************************************************)
(* No gateway, whatever its number, takes an assertion under a withdrawn   *)
(* key for longer than the cache's lifetime and one fetch (lookupKey,      *)
(* refreshKeys).                                                           *)
(***************************************************************************)
THEOREM WithdrawnKeysExpire == Spec => RetiredKeysExpire
<1> DEFINE Expires ==
      \A a \in Arrivals :
         arrival[a].pc # "verified" /\ arrival'[a].pc = "verified" =>
            LET k == At(a).key
            IN  k \in published \/ now - withdrawn[k] <= CacheTTL + FetchTimeout
<1>1. DirectoryInvariant /\ AccessInvariant /\ [Next]_vars => Expires \/ UNCHANGED arrival
  <2> SUFFICES ASSUME DirectoryInvariant, AccessInvariant, AccessNext, NEW a \in Arrivals,
                      arrival[a].pc # "verified", arrival'[a].pc = "verified"
               PROVE  \/ At(a).key \in published
                      \/ now - withdrawn[At(a).key] <= CacheTTL + FetchTimeout
    BY StepsOfTheDoors DEF accessVars
  <2>1. ArrivalStep(a) /\ arrival \in [Arrivals -> ArrivalRecord]
    BY ArrivalsMoveAlone DEF AccessInvariant
  <2>2. LookUpKey(a) \/ LookAgain(a)
    <3>1. arrival[a] \in ArrivalRecord
      BY ArrivalFacts
    <3>2. ~DecideApp(a) /\ ~DecideControl(a) /\ ~DecideSlack(a) /\ ~RecordActivity(a)
      BY <2>1, <3>1 DEF DecideApp, DecideControl, DecideSlack, RecordActivity, Goes, Denied,
         IdleArrival, ArrivalRecord
    <3> QED BY <2>1, <3>2, WhereDeliveriesGo
  <2>3. /\ ArrivalStands(arrival[a]) /\ arrival[a].checked \in Nat
        /\ arrival[a].pc \in GatewaySteps
    BY <2>2, ArrivalFacts DEF LookUpKey, LookAgain, GatewaySteps
  <2>4. PICK g \in Gateways : g = arrival[a].gate
    BY <2>3 DEF ArrivalStands
  <2>5. PICK k \in Keys : k = At(a).key
    BY <2>3 DEF ArrivalStands, AccessInvariant, SignedKept, At, GatewaySteps
  <2>6. /\ withdrawn[k] \in Int /\ jwks[g].at \in Nat /\ now \in Nat
        /\ k \in jwks[g].keys => k \in published \/ jwks[g].at - FetchTimeout <= withdrawn[k]
    BY DEF AccessInvariant, KeysKept, Never, DirectoryInvariant, BudgetKept
  <2>7. CASE LookUpKey(a)
    <3>1. Trusted(g, k)
      BY <2>1, <2>3, <2>4, <2>5, <2>7 DEF LookUpKey, Goes
    <3> QED BY <3>1, <2>5, <2>6, WindowsTyped DEF Trusted
  <2>8. CASE LookAgain(a)
    <3>1. /\ k \in jwks[g].keys /\ now - arrival[a].checked <= FetchTimeout
          /\ arrival[a].checked <= jwks[g].at
      BY <2>1, <2>3, <2>4, <2>5, <2>8 DEF LookAgain, Goes, Denied, IdleArrival, ArrivalStands
    <3> QED BY <3>1, <2>3, <2>5, <2>6, WindowsTyped
  <2> QED BY <2>2, <2>7, <2>8
<1>2. DirectoryInvariant /\ AccessInvariant /\ [Next]_vars => [Expires]_arrival
  BY <1>1
<1> QED BY <1>2, AccessInvariantHolds, PTL DEF Spec, RetiredKeysExpire

(* What a record may be trusted for.                                       *)
LEMMA AuthorizedIsRecent ==
  ASSUME DirectoryInvariant, NEW p \in People, Authorized(p)
  PROVE  /\ now - ActiveUntil(p) <= MaxStaleness + MaxCollection
         /\ now - MemberUntil(p) <= MaxStaleness + MaxCollection
<1>1. /\ users[p].synced \in Nat /\ now \in Nat
      /\ ActiveUntil(p) \in Nat /\ MemberUntil(p) \in Nat
  BY UntilTyped DEF DirectoryInvariant, BudgetKept, RecordsKept, UserRecord
<1>2. /\ users[p].synced <= ActiveUntil(p) + MaxCollection
      /\ users[p].synced <= MemberUntil(p) + MaxCollection
  BY DEF DirectoryInvariant, RecordsAreRecent, Authorized
<1>3. now - users[p].synced <= MaxStaleness
  BY <1>1, WindowsTyped DEF Authorized
<1> QED BY <1>1, <1>2, <1>3, WindowsTyped

(***************************************************************************)
(* Nobody is let through on the word of the identity records for longer    *)
(* than the records may be stale and a collection may take, for any number *)
(* of people, requests and runs of the sync job (authorize_resolved_user,  *)
(* _validate_snapshot_timing).                                             *)
(***************************************************************************)
THEOREM AdmissionIsRecent == Spec => AccessIsRecent
<1> DEFINE Recent ==
      \A a \in Arrivals :
         arrival[a].pc \in {"claimed", "installed"} /\ arrival'[a].pc \in {"opened", "granted"}
            /\ At(a).auth # "github_webhook" =>
            LET p == At(a).by
            IN  /\ now - ActiveUntil(p) <= MaxStaleness + MaxCollection
                /\ now - MemberUntil(p) <= MaxStaleness + MaxCollection
<1>1. DirectoryInvariant /\ AccessInvariant /\ [Next]_vars => Recent \/ UNCHANGED arrival
  <2> SUFFICES ASSUME DirectoryInvariant, AccessInvariant, AccessNext, NEW a \in Arrivals,
                      arrival[a].pc \in {"claimed", "installed"},
                      arrival'[a].pc \in {"opened", "granted"},
                      At(a).auth # "github_webhook"
               PROVE  At(a).by \in People /\ Authorized(At(a).by)
    BY StepsOfTheDoors, AuthorizedIsRecent DEF accessVars
  <2>1. ArrivalStep(a) /\ arrival \in [Arrivals -> ArrivalRecord]
    BY ArrivalsMoveAlone DEF AccessInvariant
  <2>2. DecideApp(a) \/ DecideControl(a) \/ DecideSlack(a)
    BY <2>1, WhereDeliveriesGo DEF LookUpKey, LookAgain, RecordActivity
  <2>3. At(a).by \in People
    BY ArrivalFacts DEF SignedRecord
  <2>4. ~Denied(a)
    BY <2>1 DEF Denied, IdleArrival
  <2> QED BY <2>2, <2>3, <2>4 DEF DecideApp, AppOpen, DecideControl, DecideSlack
<1>2. DirectoryInvariant /\ AccessInvariant /\ [Next]_vars => [Recent]_arrival
  BY <1>1
<1> QED BY <1>2, AccessInvariantHolds, PTL DEF Spec, AccessIsRecent

================================================================================
