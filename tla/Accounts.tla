------------------------------ MODULE Accounts ------------------------------
(***************************************************************************)
(* The one-time setup, the users with their roles, and the settings.       *)
(*                                                                         *)
(* All three live in the database (app_meta, users) and have a copy in the *)
(* process: AuthManager.verifier, which authenticates everybody, and the   *)
(* Config behind AppState.config.  A handler commits first and installs    *)
(* its copy afterwards, a Config by cloning the current one, changing some *)
(* fields and storing the clone.  Setups race each other; a client that    *)
(* goes away drops its handler at any await; the process may be restarted. *)
(*                                                                         *)
(* An issuer stands for the pair of issuer and audience of an Auth Mini    *)
(* instance, a value for the editable settings as a whole.  Display names  *)
(* and the admin audit are left out.                                       *)
(*                                                                         *)
(* A definition named D_Fault is D with a plausible programming error; it  *)
(* is used only to show that the properties notice that error.             *)
(***************************************************************************)
EXTENDS Naturals

CONSTANTS
    Tasks,      \* API handlers
    Users,      \* subjects of access tokens
    Issuers,    \* issuers a setup may name
    Settings,   \* values of the editable settings
    Initial,    \* the settings of a new database
    None        \* no issuer, no verifier, no row, nobody

ASSUME InitialAssumption == Initial \in Settings

ASSUME NoneAssumption ==
    None \notin Users \cup Issuers \cup Settings \cup {"root", "admin", "user"}

Roles == {"root", "admin", "user"}

Config == [setup_complete : BOOLEAN, issuer : Issuers \cup {None}, settings : Settings]

\* What an administrator asks of update_user: a role and provider_access, or
\* one of them.
UserInput ==
    {i \in [id : Users, role : {"admin", "user", None}, access : BOOLEAN \cup {None}] :
        i.role # None \/ i.access # None}

VARIABLES
    app_meta,   \* the table, with the fields of a Config
    role,       \* users.role, None without a row
    access,     \* users.provider_access
    owner,      \* the owner of the providers a former version has left
    verifier,   \* AuthManager.verifier: the issuer it trusts
    config,     \* AppState.config
    pc,         \* where the handler is
    who,        \* the user it acts for
    input,      \* what it was asked to do
    seen        \* the Config it has loaded

dbVars   == <<app_meta, role, access, owner>>
taskVars == <<pc, who, input, seen>>
vars     == <<dbVars, verifier, config, taskVars>>

PCs == {"idle", "verify", "setup", "install", "load_setup", "store_setup",
        "settings", "load", "store", "role", "access"}

\* A new database, or one of version 0.1 with its users and providers.
Init ==
    /\ app_meta = [setup_complete |-> FALSE, issuer |-> None, settings |-> Initial]
    /\ role \in [Users -> {"admin", "user", None}]
    /\ access = [u \in Users |-> FALSE]
    /\ owner = None
    /\ verifier = None
    /\ config = app_meta
    /\ pc = [t \in Tasks |-> "idle"]
    /\ who = [t \in Tasks |-> None]
    /\ input = [t \in Tasks |-> None]
    /\ seen = [t \in Tasks |-> None]

-----------------------------------------------------------------------------
Goto(t, next) == pc' = [pc EXCEPT ![t] = next]

\* The handler ends, or is dropped: its variables are no longer looked at.
Finish(t) ==
    /\ Goto(t, "idle")
    /\ who' = [who EXCEPT ![t] = None]
    /\ input' = [input EXCEPT ![t] = None]
    /\ seen' = [seen EXCEPT ![t] = None]

-----------------------------------------------------------------------------
(* Setup.                                                                  *)

\* setup_required lets the handler in.
BeginSetup(t, i) ==
    /\ pc[t] = "idle"
    /\ ~ app_meta.setup_complete
    /\ input' = [input EXCEPT ![t] = i]
    /\ Goto(t, "verify")
    /\ UNCHANGED <<dbVars, verifier, config, who, seen>>

\* verify_candidate asks the issuer for its keys; the token is u's.
VerifyCandidate_Installs(t, u) ==
    /\ pc[t] = "verify"
    /\ verifier' = input[t]
    /\ who' = [who EXCEPT ![t] = u]
    /\ Goto(t, "setup")
    /\ UNCHANGED <<dbVars, config, input, seen>>

VerifyCandidate(t, u) ==
    /\ pc[t] = "verify"
    /\ who' = [who EXCEPT ![t] = u]
    /\ Goto(t, "setup")
    /\ UNCHANGED <<dbVars, verifier, config, input, seen>>

\* Setup is still to be done when its transaction begins.
SetupOpen_Unchecked == TRUE
SetupOpen == ~ app_meta.setup_complete

\* The index users_single_root admits u as root.
RootFree(u) == \A v \in Users : role[v] = "root" => v = u

\* The transaction: BEGIN IMMEDIATE ... COMMIT.
CommitSetup(t) ==
    /\ pc[t] = "setup"
    /\ \/ /\ SetupOpen
          /\ RootFree(who[t])
          /\ app_meta' = [app_meta EXCEPT !.setup_complete = TRUE, !.issuer = input[t]]
          /\ role' = [role EXCEPT ![who[t]] = "root"]
          /\ owner' = IF owner = None THEN who[t] ELSE owner
          /\ Goto(t, "install")
          /\ UNCHANGED <<access, who, input, seen>>
       \/ /\ ~ (SetupOpen /\ RootFree(who[t]))
          /\ Finish(t)
          /\ UNCHANGED dbVars
    /\ UNCHANGED <<verifier, config>>

InstallVerifier(t) ==
    /\ pc[t] = "install"
    /\ verifier' = input[t]
    /\ Goto(t, "load_setup")
    /\ UNCHANGED <<dbVars, config, who, input, seen>>

\* state.config.load() and a clone of it
LoadConfig(t) ==
    /\ pc[t] \in {"load_setup", "load"}
    /\ seen' = [seen EXCEPT ![t] = config]
    /\ Goto(t, IF pc[t] = "load" THEN "store" ELSE "store_setup")
    /\ UNCHANGED <<dbVars, verifier, config, who, input>>

StoreSetup(t) ==
    /\ pc[t] = "store_setup"
    /\ config' = [seen[t] EXCEPT !.setup_complete = TRUE, !.issuer = input[t]]
    /\ Finish(t)
    /\ UNCHANGED <<dbVars, verifier>>

-----------------------------------------------------------------------------
(* Handlers for authenticated users.                                       *)

\* upsert_user keeps the role of a known user.
Upserted(u) == IF role[u] = None THEN "user" ELSE role[u]

\* Any request with a token of u, a refused one too.
SignIn(u) ==
    /\ verifier # None
    /\ role' = [role EXCEPT ![u] = Upserted(u)]
    /\ UNCHANGED <<app_meta, access, owner, verifier, config, taskVars>>

\* browser_identity
Authenticate(t, u) ==
    /\ pc[t] = "idle"
    /\ verifier # None
    /\ role' = [role EXCEPT ![u] = Upserted(u)]
    /\ who' = [who EXCEPT ![t] = u]
    /\ UNCHANGED <<app_meta, access, owner, verifier, config, seen>>

\* update_settings, after require_root
BeginSettings(t, u, s) ==
    /\ Authenticate(t, u)
    /\ Upserted(u) = "root"
    /\ input' = [input EXCEPT ![t] = s]
    /\ Goto(t, "settings")

CommitSettings(t) ==
    /\ pc[t] = "settings"
    /\ app_meta' = [app_meta EXCEPT !.settings = input[t]]
    /\ Goto(t, "load")
    /\ UNCHANGED <<role, access, owner, verifier, config, who, input, seen>>

StoreSettings(t) ==
    /\ pc[t] = "store"
    /\ config' = [seen[t] EXCEPT !.settings = input[t]]
    /\ Finish(t)
    /\ UNCHANGED <<dbVars, verifier>>

\* update_user, after require_admin and, for a role, require_root
BeginUser_ByAdmin(t, u, i) ==
    /\ Authenticate(t, u)
    /\ Upserted(u) \in {"root", "admin"}
    /\ input' = [input EXCEPT ![t] = i]
    /\ Goto(t, IF i.role # None THEN "role" ELSE "access")

BeginUser(t, u, i) ==
    /\ Authenticate(t, u)
    /\ Upserted(u) \in {"root", "admin"}
    /\ i.role # None => Upserted(u) = "root"
    /\ input' = [input EXCEPT ![t] = i]
    /\ Goto(t, IF i.role # None THEN "role" ELSE "access")

\* WHERE id=? AND role<>'root'
RoleMutable_Any(u) == role[u] # None
RoleMutable(u) == role[u] \notin {None, "root"}

UpdateRole(t) ==
    /\ pc[t] = "role"
    /\ \/ /\ RoleMutable(input[t].id)
          /\ role' = [role EXCEPT ![input[t].id] = input[t].role]
          /\ \/ /\ input[t].access # None
                /\ Goto(t, "access")
                /\ UNCHANGED <<who, input, seen>>
             \/ input[t].access = None /\ Finish(t)
       \/ ~ RoleMutable(input[t].id) /\ Finish(t) /\ UNCHANGED role
    /\ UNCHANGED <<app_meta, access, owner, verifier, config>>

\* WHERE id=? AND role='user'
UpdateAccess(t) ==
    /\ pc[t] = "access"
    /\ access' = IF role[input[t].id] = "user"
                 THEN [access EXCEPT ![input[t].id] = input[t].access] ELSE access
    /\ Finish(t)
    /\ UNCHANGED <<app_meta, role, owner, verifier, config>>

\* The client goes away, or a statement or the issuer's answer fails.  A handler
\* dropped while it waits for its COMMIT may have committed; after that nothing
\* is awaited but the lock of the verifier.
End(t) ==
    /\ pc[t] \in PCs \ {"idle", "load_setup", "store_setup", "store"}
    /\ Finish(t)
    /\ UNCHANGED <<dbVars, verifier, config>>

\* Config::load and AuthManager::new
Restart ==
    /\ config' = app_meta
    /\ verifier' = app_meta.issuer
    /\ pc' = [t \in Tasks |-> "idle"]
    /\ who' = [t \in Tasks |-> None]
    /\ input' = [t \in Tasks |-> None]
    /\ seen' = [t \in Tasks |-> None]
    /\ UNCHANGED dbVars

TaskNext(t) ==
    \/ \E i \in Issuers : BeginSetup(t, i)
    \/ \E u \in Users : VerifyCandidate(t, u)
    \/ CommitSetup(t) \/ InstallVerifier(t) \/ LoadConfig(t) \/ StoreSetup(t)
    \/ \E u \in Users, s \in Settings : BeginSettings(t, u, s)
    \/ CommitSettings(t) \/ StoreSettings(t)
    \/ \E u \in Users, i \in UserInput : BeginUser(t, u, i)
    \/ UpdateRole(t) \/ UpdateAccess(t)
    \/ End(t)

Next ==
    \/ \E t \in Tasks : TaskNext(t)
    \/ \E u \in Users : SignIn(u)
    \/ Restart

Spec == Init /\ [][Next]_vars
-----------------------------------------------------------------------------
\* The types of all variables.
TypeOK ==
    /\ app_meta \in Config
    /\ role \in [Users -> Roles \cup {None}]
    /\ access \in [Users -> BOOLEAN]
    /\ owner \in Users \cup {None}
    /\ verifier \in Issuers \cup {None}
    /\ config \in Config
    /\ pc \in [Tasks -> PCs]
    /\ who \in [Tasks -> Users \cup {None}]
    /\ input \in [Tasks -> Issuers \cup Settings \cup UserInput \cup {None}]
    /\ seen \in [Tasks -> Config \cup {None}]

(***************************************************************************)
(* README: the user who completes setup becomes the only root.  There is a *)
(* root exactly when setup is complete, there is one, and it has the       *)
(* providers of a former version; neither signing in, nor a racing setup,  *)
(* nor a change of roles takes that away.                                  *)
(***************************************************************************)
OneRoot ==
    /\ \A u, v \in Users : role[u] = "root" /\ role[v] = "root" => u = v
    /\ \A u \in Users : role[u] = "root" => app_meta.setup_complete
    /\ app_meta.setup_complete => owner # None /\ role[owner] = "root"

(***************************************************************************)
(* README: setup is closed as soon as it is complete.  No setup that was   *)
(* let in before changes the trusted issuer or the root afterwards.        *)
(***************************************************************************)
SetupFinal ==
    [][app_meta.setup_complete =>
         /\ app_meta'.setup_complete
         /\ app_meta'.issuer = app_meta.issuer
         /\ \A u \in Users : role[u] = "root" <=> role'[u] = "root"]_vars

(***************************************************************************)
(* The process authenticates users against the issuer of the setup that    *)
(* was committed and no other, and its Config names no other, whatever     *)
(* order the handlers of racing setups and settings end in.                *)
(***************************************************************************)
CommittedIssuerTrusted ==
    /\ verifier # None => verifier = app_meta.issuer
    /\ config.issuer # None => config.issuer = app_meta.issuer
    /\ config.setup_complete => app_meta.setup_complete

(***************************************************************************)
(* A handler that is about to change a role or the settings acts for root, *)
(* not only when it was authenticated but when it executes its statement.  *)
(***************************************************************************)
PermissionHolds ==
    \A t \in Tasks : pc[t] \in {"role", "settings"} => role[who[t]] = "root"
=============================================================================
