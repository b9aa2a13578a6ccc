------------------------------ MODULE MCAccounts ------------------------------
EXTENDS Accounts, TLC

CONSTANTS p1, p2, e1, e2, app, schedule, d1, d2, i1, a1, a2, g1, k1, k2, r1, r2, c1, c2, s1, s2, v1, v2

\* one kind of thing in focus, with what it meets
Nothing == [kind \in {"ticks", "moves", "syncs", "installs", "commands", "requests",
                      "deliveries", "rotations", "bills", "guards", "visits", "trouble"} |-> 0]

MCReturns  == [ticks |-> 2, moves |-> 2, syncs |-> 2] @@ Nothing
MCOverlap  == [ticks |-> 3, moves |-> 1, syncs |-> 2, trouble |-> 1] @@ Nothing
MCReplays  == [ticks |-> 3, requests |-> 1, deliveries |-> 3, trouble |-> 1] @@ Nothing
MCKeys     == [ticks |-> 4, requests |-> 1, deliveries |-> 2, rotations |-> 1] @@ Nothing
MCPeople   == [ticks |-> 3, requests |-> 1, deliveries |-> 1, moves |-> 1, syncs |-> 1] @@ Nothing
MCInstalls == [ticks |-> 1, installs |-> 3, trouble |-> 1] @@ Nothing
MCCommands == [ticks |-> 1, installs |-> 2, commands |-> 1, deliveries |-> 1] @@ Nothing
MCRepeats  == [ticks |-> 2, installs |-> 1, commands |-> 1, deliveries |-> 2] @@ Nothing
MCPauses   == [ticks |-> 1, bills |-> 1, guards |-> 1, moves |-> 1, syncs |-> 1] @@ Nothing
MCStops    == [ticks |-> 3, bills |-> 2, guards |-> 2, trouble |-> 1] @@ Nothing
MCBeats    == [ticks |-> 2, bills |-> 1, guards |-> 1, requests |-> 1, deliveries |-> 1] @@ Nothing
MCVisits   == [ticks |-> 3, visits |-> 2, guards |-> 2, trouble |-> 1] @@ Nothing

MCBudgets == {MCReturns, MCOverlap, MCReplays, MCKeys, MCPeople,
              MCInstalls, MCCommands, MCRepeats, MCPauses, MCStops, MCBeats, MCVisits}
MCEntryOwner == e1 :> p1 @@ e2 :> Shared
MCResourceOwner == app :> p1 @@ schedule :> p1

Interchangeable == {d @@ a @@ r : d \in Permutations({d1, d2}), a \in Permutations({a1, a2}),
                                 r \in Permutations({r1, r2})}

\* where somebody moves, it is the person who asks: a door that checks a
\* request looks at nobody else's record
OthersStay ==
    \A r \in Requests, p \in People :
        signed[r].to \in {"app-gateway", "control-plane"} =>
            \/ signed[r].by = p /\ signed[r].auth = "access_jwt"
            \/ left[p] = 0 /\ dropped[p] = 0 /\ Active(p) /\ Member(p)
===============================================================================
