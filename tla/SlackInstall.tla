------------------------------ MODULE SlackInstall ------------------------------
(***************************************************************************)
(* The shared Slack installation: an administrator starts it, comes back   *)
(* with a code, and may revoke it later (services/slack_oauth.py); the     *)
(* credential is a version in Secret Manager and a token at Slack          *)
(* (adapters/slack_oauth.py), the installation is a document beside a      *)
(* pointer from the tenant (adapters/firestore_slack_oauth.py). Nothing    *)
(* spans the three, so every step of a call may be its last.               *)
(*                                                                         *)
(* Slack commands use the installation: the installation's administrator   *)
(* and the sender are authorised again for each (services/slack_ingress.py,*)
(* services/central_identity.py).                                          *)
(***************************************************************************)
EXTENDS Directory

CONSTANTS Admins,    \* people whose user record has the administrator role
          Callers,   \* installation and revocation calls in progress at once
          States,    \* OAuth states an administrator may be given
          Refs,      \* versions the vault may give to a token
          NoRef,     \* no version
          StateTtl   \* _MAX_STATE_TTL (10 minutes)

ASSUME SlackBounds ==
    /\ Admins \subseteq People
    /\ NoRef \notin Refs
    /\ StateTtl \in Nat \ {0}

VARIABLES pending,  \* the OAuth states handed out: issued when, used or not
          install,  \* the shared installation's document
          pointer,  \* whether the tenant points to it
          token,    \* the tokens Slack issued: unissued, valid or revoked
          vault,    \* the versions of the vault: absent, enabled or destroyed
          link,     \* whose Slack identity is linked
          caller    \* the installation and revocation calls

slackVars == <<pending, install, pointer, token, vault, link, caller>>

\* the documents as the repository reads them back
PendingRecord == [state : {"none", "issued", "consumed"}, at : 0..MaxTime]
InstallRecord == [state : {"none", "active", "revoked"}, ref : Refs \cup {NoRef}, version : Nat]

IdleCaller == [pc |-> "idle", ref |-> NoRef]
NotIssued  == [state |-> "none", at |-> 0]
NoInstall  == [state |-> "none", ref |-> NoRef, version |-> 0]

Step(c, pc) == caller' = [caller EXCEPT ![c].pc = pc]
Ends(c)     == caller' = [caller EXCEPT ![c] = IdleCaller]
Ref(c)      == caller[c].ref

\* _reauthorize_admin
AdminPresent == \E p \in Admins : Authorized(p)

(***************************************************************************)
(* Installing.                                                             *)
(***************************************************************************)

StartInstallation(s) ==
    /\ pending[s] = NotIssued
    /\ Spend("installs")
    /\ AdminPresent
    /\ pending' = [pending EXCEPT ![s] = [state |-> "issued", at |-> now]]
    /\ UNCHANGED <<install, pointer, token, vault, link, caller>>

\* consume_pending_state: once, and before it expires
Consumable(s) == pending[s].state = "issued" /\ now < pending[s].at + StateTtl

\* the answer of the transaction may be lost: the state is spent all the same
ConsumeState(c, s) ==
    /\ caller[c].pc = "idle"
    /\ AdminPresent
    /\ Consumable(s)
    /\ pending' = [pending EXCEPT ![s].state = "consumed"]
    /\ \/ Step(c, "consumed") /\ UNCHANGED budget
       \/ UNCHANGED caller /\ Spend("trouble")
    /\ UNCHANGED <<install, pointer, token, vault, link>>

\* get_active_install_for_tenant: a pointer of any kind ends the call
CheckExisting(c) ==
    /\ caller[c].pc = "consumed"
    /\ IF pointer THEN Ends(c) ELSE Step(c, "exchange")
    /\ UNCHANGED <<pending, install, pointer, token, vault, link, budget>>

\* Slack issues the token; its answer may be lost
Exchange(c) ==
    /\ caller[c].pc = "exchange"
    /\ \E r \in Refs :
          /\ token[r] = "unissued"
          /\ token' = [token EXCEPT ![r] = "valid"]
          /\ \/ caller' = [caller EXCEPT ![c] = [pc |-> "token", ref |-> r]] /\ UNCHANGED budget
             \/ Ends(c) /\ Spend("trouble")
    /\ UNCHANGED <<pending, install, pointer, vault, link>>

\* write_access_token
WriteToken(c) ==
    /\ caller[c].pc = "token"
    /\ \/ /\ vault' = [vault EXCEPT ![Ref(c)] = "enabled"]
          /\ Step(c, "granted") /\ UNCHANGED budget
       \/ /\ \/ UNCHANGED vault
             \/ vault' = [vault EXCEPT ![Ref(c)] = "enabled"]
          /\ Step(c, "unwritten") /\ Spend("trouble")
    /\ UNCHANGED <<pending, install, pointer, token, link>>

\* _best_effort_revoke_token, after the vault refused
DropToken(c) ==
    /\ caller[c].pc = "unwritten"
    /\ Ends(c)
    /\ \/ token' = [token EXCEPT ![Ref(c)] = "revoked"] /\ UNCHANGED budget
       \/ UNCHANGED token /\ Spend("trouble")
    /\ UNCHANGED <<pending, install, pointer, vault, link>>

\* an installation of the tenant may be replaced once it is revoked
Replaceable == install.state # "active"

\* what save_shared_install writes, and whether the caller takes its answer:
\* the version of a replaced installation is not the one the caller expects
Saved(c) == [state |-> "active", ref |-> Ref(c), version |-> install.version + 1]
AsExpected == install.state = "none"

\* _validate_grant: another tenant, or not all the scopes that were asked for
RefuseGrant(c) ==
    /\ caller[c].pc = "granted"
    /\ Step(c, "revoking")
    /\ UNCHANGED <<pending, install, pointer, token, vault, link, budget>>

SaveInstall(c) ==
    /\ caller[c].pc = "granted"
    /\ IF Replaceable
       THEN /\ install' = Saved(c) /\ pointer' = TRUE
            /\ \/ /\ IF AsExpected THEN Ends(c) ELSE Step(c, "revoking")
                  /\ UNCHANGED budget
               \/ Step(c, "revoking") /\ Spend("trouble")
       ELSE Step(c, "revoking") /\ UNCHANGED <<install, pointer, budget>>
    /\ UNCHANGED <<pending, token, vault, link>>

\* _best_effort_revoke_and_destroy: each half is tried and its failure ignored
RevokeGrant(c) ==
    /\ caller[c].pc = "revoking"
    /\ Step(c, "destroying")
    /\ \/ token' = [token EXCEPT ![Ref(c)] = "revoked"] /\ UNCHANGED budget
       \/ UNCHANGED token /\ Spend("trouble")
    /\ UNCHANGED <<pending, install, pointer, vault, link>>

DestroyGrant(c) ==
    /\ caller[c].pc = "destroying"
    /\ Ends(c)
    /\ \/ vault' = [vault EXCEPT ![Ref(c)] = "destroyed"] /\ UNCHANGED budget
       \/ UNCHANGED vault /\ Spend("trouble")
    /\ UNCHANGED <<pending, install, pointer, token, link>>

(***************************************************************************)
(* Revoking.                                                               *)
(***************************************************************************)

BeginRevocation(c) ==
    /\ caller[c].pc = "idle"
    /\ Spend("installs")
    /\ AdminPresent
    /\ install.state # "none"
    /\ caller' = [caller EXCEPT ![c] = [pc |-> "uninstall", ref |-> install.ref]]
    /\ UNCHANGED <<pending, install, pointer, token, vault, link>>

\* a bug: the installation is marked before its credential is destroyed
UninstallMarkingFirst(c) ==
    /\ caller[c].pc = "uninstall"
    /\ IF vault[Ref(c)] = "enabled" /\ token[Ref(c)] = "valid"
       THEN /\ token' = [token EXCEPT ![Ref(c)] = "revoked"]
            /\ install' = [install EXCEPT !.state = "revoked"]
            /\ pointer' = FALSE
            /\ Step(c, "destroy")
       ELSE Ends(c) /\ UNCHANGED <<token, install, pointer>>
    /\ UNCHANGED <<pending, vault, link, budget>>

\* uninstall_installation: the token has to be readable and still good
Uninstall(c) ==
    /\ caller[c].pc = "uninstall"
    /\ IF vault[Ref(c)] = "enabled" /\ token[Ref(c)] = "valid"
       THEN /\ token' = [token EXCEPT ![Ref(c)] = "revoked"]
            /\ \/ Step(c, "destroy") /\ UNCHANGED budget
               \/ Ends(c) /\ Spend("trouble")
       ELSE Ends(c) /\ UNCHANGED <<token, budget>>
    /\ UNCHANGED <<pending, install, pointer, vault, link>>

DestroyCredential(c) ==
    /\ caller[c].pc = "destroy"
    /\ vault' = [vault EXCEPT ![Ref(c)] = "destroyed"]
    /\ \/ Step(c, "mark") /\ UNCHANGED budget
       \/ Ends(c) /\ Spend("trouble")
    /\ UNCHANGED <<pending, install, pointer, token, link>>

\* revoke_shared_install marks whatever the document holds by now
MarkRevoked(c) ==
    /\ caller[c].pc = "mark"
    /\ Ends(c)
    /\ install' = [install EXCEPT !.state = "revoked", !.version = @ + 1]
    /\ pointer' = FALSE
    /\ UNCHANGED <<pending, token, vault, link, budget>>

\* revoke_employee_grant
RevokeLink(p) ==
    /\ p \in link
    /\ Spend("installs")
    /\ AdminPresent
    /\ link' = link \ {p}
    /\ UNCHANGED <<pending, install, pointer, token, vault, caller>>

CallerDies(c) ==
    /\ caller[c].pc # "idle"
    /\ Spend("trouble")
    /\ Ends(c)
    /\ UNCHANGED <<pending, install, pointer, token, vault, link>>

CallerStep(c) ==
    \/ \E s \in States : ConsumeState(c, s)
    \/ CheckExisting(c) \/ Exchange(c) \/ WriteToken(c) \/ DropToken(c)
    \/ RefuseGrant(c) \/ SaveInstall(c) \/ RevokeGrant(c) \/ DestroyGrant(c)
    \/ BeginRevocation(c) \/ Uninstall(c) \/ DestroyCredential(c) \/ MarkRevoked(c)
    \/ CallerDies(c)

SlackInit ==
    /\ pending = [s \in States |-> NotIssued]
    /\ install = NoInstall
    /\ pointer = FALSE
    /\ token = [r \in Refs |-> "unissued"]
    /\ vault = [r \in Refs |-> "absent"]
    /\ link = People
    /\ caller = [c \in Callers |-> IdleCaller]

SlackNext ==
    \/ \E s \in States : StartInstallation(s)
    \/ \E p \in People : RevokeLink(p)
    \/ \E c \in Callers : CallerStep(c)

--------------------------------------------------------------------------------

SlackTypeOK ==
    /\ pending \in [States -> PendingRecord]
    /\ install \in InstallRecord
    /\ pointer \in BOOLEAN
    /\ token \in [Refs -> {"unissued", "valid", "revoked"}]
    /\ vault \in [Refs -> {"absent", "enabled", "destroyed"}]
    /\ link \subseteq People

Quiet == \A c \in Callers : caller[c].pc = "idle"
Undisturbed == budget["trouble"] = MaxTrouble

(***************************************************************************)
(* The credential follows the installation, with no transaction between    *)
(* Slack, Secret Manager and the store: an installation is called revoked  *)
(* only when its token is revoked at Slack and its version destroyed, and  *)
(* once the calls are over nothing is usable but the credential of the     *)
(* active installation, unless a call lost an answer or died               *)
(* (complete_installation, revoke_installation).                           *)
(***************************************************************************)
CredentialFollowsInstall ==
    /\ install.state = "revoked" =>
         token[install.ref] = "revoked" /\ vault[install.ref] = "destroyed"
    /\ pointer = (install.state = "active")
    /\ Quiet /\ Undisturbed =>
         \A r \in Refs :
             token[r] = "valid" \/ vault[r] = "enabled" =>
                 install.state = "active" /\ install.ref = r

================================================================================
