----------------------------- MODULE MCLifecycle -----------------------------
(* Instances of the lifecycle job for TLC: one web app and one script.      *)
EXTENDS Lifecycle, TLC

CONSTANTS app, script, s1, s2

OwnSecrets   == s1 :> {app} @@ s2 :> {script}
SharedSecret == s1 :> {app, script}
NoHolds      == {{}}
ScriptHeld   == {{script}}
NoneGone     == {{}}
OneGone      == {{app}, {script}}
==============================================================================
