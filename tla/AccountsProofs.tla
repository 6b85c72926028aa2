--------------------------- MODULE AccountsProofs ---------------------------
(***************************************************************************)
(* Proofs about Accounts, for any number of handlers, users, issuers and   *)
(* settings.                                                               *)
(*                                                                         *)
(* What a handler carries from one step to the next decides whether its    *)
(* late steps do harm: a setup that has committed carries the committed    *)
(* issuer, and a Config on its way to be stored names no other (InHand).   *)
(* With that the four invariants are inductive together.                   *)
(***************************************************************************)
EXTENDS Accounts, TLAPS

\* The issuer c names, if any, is the committed one.
Trusted(c) ==
    /\ c.issuer # None => c.issuer = app_meta.issuer
    /\ c.setup_complete => app_meta.setup_complete

\* What handlers have in hand fits the place they are at, and what was committed.
InHand ==
    /\ app_meta.setup_complete <=> app_meta.issuer # None
    /\ owner # None => app_meta.setup_complete
    /\ \A t \in Tasks :
         /\ pc[t] \in {"verify", "setup"} => input[t] \in Issuers
         /\ pc[t] = "setup" => who[t] \in Users
         /\ pc[t] \in {"install", "load_setup", "store_setup"} =>
                input[t] \in Issuers /\ input[t] = app_meta.issuer
         /\ pc[t] \in {"settings", "role"} => who[t] \in Users
         /\ pc[t] \in {"settings", "load", "store"} => input[t] \in Settings
         /\ pc[t] \in {"role", "access"} => input[t] \in UserInput
         /\ pc[t] = "role" => input[t].role # None
         /\ pc[t] = "access" => input[t].access # None
         /\ pc[t] \in {"store_setup", "store"} => seen[t] \in Config /\ Trusted(seen[t])

AccountsInv ==
    /\ TypeOK
    /\ OneRoot
    /\ CommittedIssuerTrusted
    /\ PermissionHolds
    /\ InHand

\* The assumptions on the constants, in the form the provers use.
LEMMA Constants == Initial \in Settings /\ None \notin Users /\ None \notin Issuers
                     /\ None \notin Settings /\ None \notin Roles
BY InitialAssumption, NoneAssumption DEF Roles

\* The initial states satisfy the invariant.
LEMMA InitInv == Init => AccountsInv
<1> SUFFICES ASSUME Init PROVE AccountsInv
    OBVIOUS
<1> USE Constants DEF Init
<1>1. TypeOK
    BY DEF TypeOK, Config, Roles, PCs
<1>2. OneRoot /\ CommittedIssuerTrusted
    BY DEF OneRoot, CommittedIssuerTrusted, Roles
<1>3. PermissionHolds /\ InHand
    BY DEF PermissionHolds, InHand
<1> QED
    BY <1>1, <1>2, <1>3 DEF AccountsInv

\* BeginSetup preserves the invariant.
LEMMA BeginSetupInv ==
    ASSUME AccountsInv, NEW t \in Tasks, NEW i \in Issuers, BeginSetup(t, i)
    PROVE  AccountsInv'
<1> USE Constants DEF AccountsInv, BeginSetup, Goto, dbVars, taskVars
<1>1. TypeOK'
    BY DEF TypeOK, InHand, Config, UserInput, Roles, PCs
<1>2. OneRoot'
    BY DEF TypeOK, OneRoot, InHand, UserInput, Config
<1>3. CommittedIssuerTrusted'
    BY DEF TypeOK, CommittedIssuerTrusted, InHand, Trusted, Config
<1>4. PermissionHolds'
    BY DEF TypeOK, PermissionHolds, OneRoot, InHand, PCs
<1>5. InHand'
    BY DEF TypeOK, CommittedIssuerTrusted, InHand, Trusted, UserInput, Config, PCs
<1> QED
    BY <1>1, <1>2, <1>3, <1>4, <1>5

\* VerifyCandidate preserves the invariant.
LEMMA VerifyCandidateInv ==
    ASSUME AccountsInv, NEW t \in Tasks, NEW u \in Users, VerifyCandidate(t, u)
    PROVE  AccountsInv'
<1> USE Constants DEF AccountsInv, VerifyCandidate, Goto, dbVars, taskVars
<1>1. TypeOK'
    BY DEF TypeOK, InHand, Config, UserInput, Roles, PCs
<1>2. OneRoot'
    BY DEF TypeOK, OneRoot, InHand, UserInput, Config
<1>3. CommittedIssuerTrusted'
    BY DEF TypeOK, CommittedIssuerTrusted, InHand, Trusted, Config
<1>4. PermissionHolds'
    BY DEF TypeOK, PermissionHolds, OneRoot, InHand, PCs
<1>5. InHand'
    BY DEF TypeOK, CommittedIssuerTrusted, InHand, Trusted, UserInput, Config, PCs
<1> QED
    BY <1>1, <1>2, <1>3, <1>4, <1>5

\* CommitSetup preserves the invariant.
LEMMA CommitSetupInv ==
    ASSUME AccountsInv, NEW t \in Tasks, CommitSetup(t)
    PROVE  AccountsInv'
<1> USE Constants DEF AccountsInv
<1>1. who[t] \in Users /\ input[t] \in Issuers
    BY DEF CommitSetup, InHand
<1>2. CASE SetupOpen /\ RootFree(who[t])
    <2>1. /\ app_meta' = [app_meta EXCEPT !.setup_complete = TRUE, !.issuer = input[t]]
          /\ role' = [role EXCEPT ![who[t]] = "root"]
          /\ owner' = IF owner = None THEN who[t] ELSE owner
          /\ pc' = [pc EXCEPT ![t] = "install"]
          /\ UNCHANGED <<access, verifier, config, who, input, seen>>
        BY <1>2 DEF CommitSetup, Goto
    <2>2. app_meta.setup_complete = FALSE /\ app_meta.issuer = None
        BY <1>2 DEF SetupOpen, InHand, TypeOK, Config
    <2>3. /\ app_meta'.setup_complete = TRUE
          /\ app_meta'.issuer = input[t]
          /\ app_meta'.settings = app_meta.settings
          /\ app_meta' \in Config
        BY <1>1, <2>1 DEF TypeOK, Config
    <2>4. TypeOK'
        BY <1>1, <2>1, <2>3 DEF TypeOK, Roles, PCs
    <2>5. owner = None /\ \A u \in Users : role[u] # "root"
        <3>1. \A u \in Users : role[u] # "root"
            BY <2>2 DEF OneRoot
        <3> QED
            BY <3>1, <2>2 DEF OneRoot, TypeOK, InHand
    <2>6. OneRoot'
        BY <1>1, <2>1, <2>3, <2>5 DEF OneRoot, TypeOK
    <2>7. CommittedIssuerTrusted'
        BY <2>1, <2>2, <2>3 DEF CommittedIssuerTrusted
    <2>8. PermissionHolds'
        BY <2>1, <2>5 DEF PermissionHolds, TypeOK, InHand
    <2>9. InHand'
        BY <1>1, <2>1, <2>2, <2>3 DEF InHand, Trusted, TypeOK, PCs
    <2> QED
        BY <2>4, <2>6, <2>7, <2>8, <2>9
<1>3. CASE ~ (SetupOpen /\ RootFree(who[t]))
    <2>1. Finish(t) /\ UNCHANGED <<app_meta, role, access, owner, verifier, config>>
        BY <1>3 DEF CommitSetup, dbVars
    <2>2. TypeOK'
        BY <2>1 DEF Finish, Goto, TypeOK, PCs
    <2>3. OneRoot' /\ CommittedIssuerTrusted'
        BY <2>1 DEF OneRoot, CommittedIssuerTrusted
    <2>4. PermissionHolds' /\ InHand'
        BY <2>1 DEF Finish, Goto, PermissionHolds, InHand, Trusted, TypeOK
    <2> QED
        BY <2>2, <2>3, <2>4
<1> QED
    BY <1>2, <1>3

\* InstallVerifier preserves the invariant.
LEMMA InstallVerifierInv ==
    ASSUME AccountsInv, NEW t \in Tasks, InstallVerifier(t)
    PROVE  AccountsInv'
<1> USE Constants DEF AccountsInv, InstallVerifier, Goto, dbVars, taskVars
<1>1. TypeOK'
    BY DEF TypeOK, InHand, Config, UserInput, Roles, PCs
<1>2. OneRoot'
    BY DEF TypeOK, OneRoot, InHand, UserInput, Config
<1>3. CommittedIssuerTrusted'
    BY DEF TypeOK, CommittedIssuerTrusted, InHand, Trusted, Config
<1>4. PermissionHolds'
    BY DEF TypeOK, PermissionHolds, OneRoot, InHand, PCs
<1>5. InHand'
    BY DEF TypeOK, CommittedIssuerTrusted, InHand, Trusted, UserInput, Config, PCs
<1> QED
    BY <1>1, <1>2, <1>3, <1>4, <1>5

\* LoadConfig preserves the invariant.
LEMMA LoadConfigInv ==
    ASSUME AccountsInv, NEW t \in Tasks, LoadConfig(t)
    PROVE  AccountsInv'
<1> USE Constants DEF AccountsInv, LoadConfig, Goto, dbVars, taskVars
<1>1. TypeOK'
    BY DEF TypeOK, InHand, Config, UserInput, Roles, PCs
<1>2. OneRoot'
    BY DEF TypeOK, OneRoot, InHand, UserInput, Config
<1>3. CommittedIssuerTrusted'
    BY DEF TypeOK, CommittedIssuerTrusted, InHand, Trusted, Config
<1>4. PermissionHolds'
    BY DEF TypeOK, PermissionHolds, OneRoot, InHand, PCs
<1>5. InHand'
    BY DEF TypeOK, CommittedIssuerTrusted, InHand, Trusted, UserInput, Config, PCs
<1> QED
    BY <1>1, <1>2, <1>3, <1>4, <1>5

\* StoreSetup preserves the invariant.
LEMMA StoreSetupInv ==
    ASSUME AccountsInv, NEW t \in Tasks, StoreSetup(t)
    PROVE  AccountsInv'
<1> USE Constants DEF AccountsInv, StoreSetup, Goto, Finish, dbVars, taskVars
<1>1. TypeOK'
    BY DEF TypeOK, InHand, Config, UserInput, Roles, PCs
<1>2. OneRoot'
    BY DEF TypeOK, OneRoot, InHand, UserInput, Config
<1>3. CommittedIssuerTrusted'
    BY DEF TypeOK, CommittedIssuerTrusted, InHand, Trusted, Config
<1>4. PermissionHolds'
    BY DEF TypeOK, PermissionHolds, OneRoot, InHand, PCs
<1>5. InHand'
    BY DEF TypeOK, CommittedIssuerTrusted, InHand, Trusted, UserInput, Config, PCs
<1> QED
    BY <1>1, <1>2, <1>3, <1>4, <1>5

\* BeginSettings preserves the invariant.
LEMMA BeginSettingsInv ==
    ASSUME AccountsInv, NEW t \in Tasks, NEW u \in Users, NEW s \in Settings, BeginSettings(t, u, s)
    PROVE  AccountsInv'
<1> USE Constants DEF AccountsInv, BeginSettings, Goto, Authenticate, Upserted, dbVars, taskVars
<1>1. TypeOK'
    BY DEF TypeOK, InHand, Config, UserInput, Roles, PCs
<1>2. OneRoot'
    BY DEF TypeOK, OneRoot, InHand, UserInput, Config
<1>3. CommittedIssuerTrusted'
    BY DEF TypeOK, CommittedIssuerTrusted, InHand, Trusted, Config
<1>4. PermissionHolds'
    BY DEF TypeOK, PermissionHolds, OneRoot, InHand, PCs
<1>5. InHand'
    BY DEF TypeOK, CommittedIssuerTrusted, InHand, Trusted, UserInput, Config, PCs
<1> QED
    BY <1>1, <1>2, <1>3, <1>4, <1>5

\* CommitSettings preserves the invariant.
LEMMA CommitSettingsInv ==
    ASSUME AccountsInv, NEW t \in Tasks, CommitSettings(t)
    PROVE  AccountsInv'
<1> USE Constants DEF AccountsInv, CommitSettings, Goto, dbVars, taskVars
<1>1. TypeOK'
    BY DEF TypeOK, InHand, Config, UserInput, Roles, PCs
<1>2. OneRoot'
    BY DEF TypeOK, OneRoot, InHand, UserInput, Config
<1>3. CommittedIssuerTrusted'
    BY DEF TypeOK, CommittedIssuerTrusted, InHand, Trusted, Config
<1>4. PermissionHolds'
    BY DEF TypeOK, PermissionHolds, OneRoot, InHand, PCs
<1>5. InHand'
    BY DEF TypeOK, CommittedIssuerTrusted, InHand, Trusted, UserInput, Config, PCs
<1> QED
    BY <1>1, <1>2, <1>3, <1>4, <1>5

\* StoreSettings preserves the invariant.
LEMMA StoreSettingsInv ==
    ASSUME AccountsInv, NEW t \in Tasks, StoreSettings(t)
    PROVE  AccountsInv'
<1> USE Constants DEF AccountsInv, StoreSettings, Goto, Finish, dbVars, taskVars
<1>1. TypeOK'
    BY DEF TypeOK, InHand, Config, UserInput, Roles, PCs
<1>2. OneRoot'
    BY DEF TypeOK, OneRoot, InHand, UserInput, Config
<1>3. CommittedIssuerTrusted'
    BY DEF TypeOK, CommittedIssuerTrusted, InHand, Trusted, Config
<1>4. PermissionHolds'
    BY DEF TypeOK, PermissionHolds, OneRoot, InHand, PCs
<1>5. InHand'
    BY DEF TypeOK, CommittedIssuerTrusted, InHand, Trusted, UserInput, Config, PCs
<1> QED
    BY <1>1, <1>2, <1>3, <1>4, <1>5

\* BeginUser preserves the invariant.
LEMMA BeginUserInv ==
    ASSUME AccountsInv, NEW t \in Tasks, NEW u \in Users, NEW i \in UserInput, BeginUser(t, u, i)
    PROVE  AccountsInv'
<1> USE Constants DEF AccountsInv, BeginUser, Goto, Authenticate, Upserted, dbVars, taskVars
<1>1. TypeOK'
    BY DEF TypeOK, InHand, Config, UserInput, Roles, PCs
<1>2. OneRoot'
    BY DEF TypeOK, OneRoot, InHand, UserInput, Config
<1>3. CommittedIssuerTrusted'
    BY DEF TypeOK, CommittedIssuerTrusted, InHand, Trusted, Config
<1>4. PermissionHolds'
    BY DEF TypeOK, PermissionHolds, OneRoot, InHand, PCs
<1>5. InHand'
    BY DEF TypeOK, CommittedIssuerTrusted, InHand, Trusted, UserInput, Config, PCs
<1> QED
    BY <1>1, <1>2, <1>3, <1>4, <1>5

\* A handler that ends leaves nothing that has to be kept.
LEMMA FinishKeeps ==
    ASSUME AccountsInv, NEW t \in Tasks, Finish(t), UNCHANGED app_meta
    PROVE  /\ pc' \in [Tasks -> PCs]
           /\ who' \in [Tasks -> Users \cup {None}]
           /\ input' \in [Tasks -> Issuers \cup Settings \cup UserInput \cup {None}]
           /\ seen' \in [Tasks -> Config \cup {None}]
           /\ UNCHANGED owner => InHand'
           /\ \A x \in Tasks : pc'[x] # "idle" => pc'[x] = pc[x] /\ who'[x] = who[x]
<1> USE DEF AccountsInv, Finish, Goto
<1>1. /\ pc' \in [Tasks -> PCs]
      /\ who' \in [Tasks -> Users \cup {None}]
      /\ input' \in [Tasks -> Issuers \cup Settings \cup UserInput \cup {None}]
      /\ seen' \in [Tasks -> Config \cup {None}]
    BY DEF TypeOK, PCs
<1>2. pc'[t] = "idle" /\ \A x \in Tasks \ {t} :
        pc'[x] = pc[x] /\ who'[x] = who[x] /\ input'[x] = input[x] /\ seen'[x] = seen[x]
    BY DEF TypeOK
<1>3. UNCHANGED owner => InHand'
    BY <1>2 DEF InHand, Trusted
<1> QED
    BY <1>1, <1>2, <1>3

\* UpdateRole preserves the invariant.
LEMMA UpdateRoleInv ==
    ASSUME AccountsInv, NEW t \in Tasks, UpdateRole(t)
    PROVE  AccountsInv'
<1> USE Constants DEF AccountsInv
<1>1. /\ pc[t] = "role"
      /\ input[t] \in UserInput
      /\ input[t].id \in Users
      /\ input[t].role \in {"admin", "user"}
    BY DEF UpdateRole, InHand, UserInput
<1>2. UNCHANGED <<app_meta, access, owner, verifier, config>>
    BY DEF UpdateRole
<1>3. /\ role' \in [Users -> Roles \cup {None}]
      /\ \A u \in Users : role'[u] = "root" <=> role[u] = "root"
    <2>1. CASE RoleMutable(input[t].id)
        <3>1. role' = [role EXCEPT ![input[t].id] = input[t].role]
            BY <2>1 DEF UpdateRole
        <3> QED
            BY <1>1, <2>1, <3>1 DEF RoleMutable, TypeOK, Roles
    <2>2. CASE ~ RoleMutable(input[t].id)
        BY <2>2 DEF UpdateRole, TypeOK
    <2> QED
        BY <2>1, <2>2
<1>4. OneRoot' /\ CommittedIssuerTrusted'
    BY <1>2, <1>3 DEF OneRoot, CommittedIssuerTrusted, TypeOK
<1>5. CASE Finish(t)
    <2>1. TypeOK'
        BY <1>2, <1>3, <1>5, FinishKeeps DEF TypeOK
    <2>2. PermissionHolds'
        BY <1>3, <1>5, <1>2, FinishKeeps DEF PermissionHolds, InHand
    <2> QED
        BY <1>2, <1>4, <1>5, <2>1, <2>2, FinishKeeps
<1>6. CASE input[t].access # None /\ Goto(t, "access") /\ UNCHANGED <<who, input, seen>>
    <2>1. TypeOK'
        BY <1>2, <1>3, <1>6 DEF TypeOK, Goto, PCs
    <2>2. PermissionHolds'
        BY <1>3, <1>6 DEF PermissionHolds, InHand, TypeOK, Goto
    <2>3. InHand'
        BY <1>1, <1>2, <1>6 DEF InHand, Trusted, TypeOK, Goto
    <2> QED
        BY <1>4, <2>1, <2>2, <2>3
<1> QED
    BY <1>5, <1>6 DEF UpdateRole

\* UpdateAccess preserves the invariant.
LEMMA UpdateAccessInv ==
    ASSUME AccountsInv, NEW t \in Tasks, UpdateAccess(t)
    PROVE  AccountsInv'
<1> USE Constants DEF AccountsInv, UpdateAccess, Goto, Finish, dbVars, taskVars
<1>1. TypeOK'
    BY DEF TypeOK, InHand, Config, UserInput, Roles, PCs
<1>2. OneRoot'
    BY DEF TypeOK, OneRoot, InHand, UserInput, Config
<1>3. CommittedIssuerTrusted'
    BY DEF TypeOK, CommittedIssuerTrusted, InHand, Trusted, Config
<1>4. PermissionHolds'
    BY DEF TypeOK, PermissionHolds, OneRoot, InHand, PCs
<1>5. InHand'
    BY DEF TypeOK, CommittedIssuerTrusted, InHand, Trusted, UserInput, Config, PCs
<1> QED
    BY <1>1, <1>2, <1>3, <1>4, <1>5

\* End preserves the invariant.
LEMMA EndInv ==
    ASSUME AccountsInv, NEW t \in Tasks, End(t)
    PROVE  AccountsInv'
<1> USE Constants DEF AccountsInv, End, Goto, Finish, dbVars, taskVars
<1>1. TypeOK'
    BY DEF TypeOK, InHand, Config, UserInput, Roles, PCs
<1>2. OneRoot'
    BY DEF TypeOK, OneRoot, InHand, UserInput, Config
<1>3. CommittedIssuerTrusted'
    BY DEF TypeOK, CommittedIssuerTrusted, InHand, Trusted, Config
<1>4. PermissionHolds'
    BY DEF TypeOK, PermissionHolds, OneRoot, InHand, PCs
<1>5. InHand'
    BY DEF TypeOK, CommittedIssuerTrusted, InHand, Trusted, UserInput, Config, PCs
<1> QED
    BY <1>1, <1>2, <1>3, <1>4, <1>5

\* SignIn preserves the invariant.
LEMMA SignInInv ==
    ASSUME AccountsInv, NEW u \in Users, SignIn(u)
    PROVE  AccountsInv'
<1> USE Constants DEF AccountsInv, SignIn, Upserted, dbVars, taskVars
<1>1. TypeOK'
    BY DEF TypeOK, InHand, Config, UserInput, Roles, PCs
<1>2. OneRoot'
    BY DEF TypeOK, OneRoot, Roles
<1>3. CommittedIssuerTrusted'
    BY DEF TypeOK, CommittedIssuerTrusted, InHand, Trusted, Config
<1>4. PermissionHolds'
    BY DEF TypeOK, PermissionHolds, InHand, Roles
<1>5. InHand'
    BY DEF TypeOK, CommittedIssuerTrusted, InHand, Trusted, UserInput, Config, PCs
<1> QED
    BY <1>1, <1>2, <1>3, <1>4, <1>5

\* Restart preserves the invariant.
LEMMA RestartInv ==
    ASSUME AccountsInv, Restart
    PROVE  AccountsInv'
<1> USE Constants DEF AccountsInv, Restart, dbVars, taskVars
<1>1. TypeOK'
    BY DEF TypeOK, InHand, Config, UserInput, Roles, PCs
<1>2. OneRoot'
    BY DEF TypeOK, OneRoot, InHand, UserInput, Config
<1>3. CommittedIssuerTrusted'
    BY DEF TypeOK, CommittedIssuerTrusted, InHand, Trusted, Config
<1>4. PermissionHolds'
    BY DEF TypeOK, PermissionHolds, OneRoot, InHand, PCs
<1>5. InHand'
    BY DEF TypeOK, CommittedIssuerTrusted, InHand, Trusted, UserInput, Config, PCs
<1> QED
    BY <1>1, <1>2, <1>3, <1>4, <1>5

\* The invariant holds in every execution.
THEOREM AccountsInvariant == Spec => []AccountsInv
<1>1. Init => AccountsInv
    BY InitInv
<1>2. AccountsInv /\ [Next]_vars => AccountsInv'
    <2> SUFFICES ASSUME AccountsInv, [Next]_vars PROVE AccountsInv'
        OBVIOUS
    <2>1. ASSUME NEW t \in Tasks, TaskNext(t) PROVE AccountsInv'
        BY <2>1, BeginSetupInv, VerifyCandidateInv, CommitSetupInv, InstallVerifierInv,
           LoadConfigInv, StoreSetupInv, BeginSettingsInv, CommitSettingsInv,
           StoreSettingsInv, BeginUserInv, UpdateRoleInv, UpdateAccessInv, EndInv
        DEF TaskNext
    <2>2. CASE UNCHANGED vars
        BY <2>2 DEF vars, dbVars, taskVars, AccountsInv, TypeOK, OneRoot,
            CommittedIssuerTrusted, PermissionHolds, InHand, Trusted
    <2> QED
        BY <2>1, <2>2, SignInInv, RestartInv DEF Next
<1> QED
    BY <1>1, <1>2, PTL DEF Spec

\* All variables keep their types in every execution.
THEOREM AccountsTypes == Spec => []TypeOK
BY AccountsInvariant, PTL DEF AccountsInv

(***************************************************************************)
(* However setups race, roles change and the process restarts, there is at *)
(* most one root, and exactly one once setup is complete.                  *)
(***************************************************************************)
THEOREM SingleRoot == Spec => []OneRoot
BY AccountsInvariant, PTL DEF AccountsInv

\* The process never trusts an issuer other than the committed one.
THEOREM TrustedIssuer == Spec => []CommittedIssuerTrusted
BY AccountsInvariant, PTL DEF AccountsInv

\* require_root's answer is still right when the statement is executed.
THEOREM RootStaysRoot == Spec => []PermissionHolds
BY AccountsInvariant, PTL DEF AccountsInv

(***************************************************************************)
(* Once setup is complete no step reopens it, changes the issuer or moves  *)
(* the root role.                                                          *)
(***************************************************************************)
THEOREM SetupClosed == Spec => SetupFinal
<1> DEFINE Final == app_meta.setup_complete =>
                        /\ app_meta'.setup_complete
                        /\ app_meta'.issuer = app_meta.issuer
                        /\ \A u \in Users : role[u] = "root" <=> role'[u] = "root"
<1>1. AccountsInv /\ [Next]_vars => [Final]_vars
    <2> SUFFICES ASSUME AccountsInv, Next PROVE Final
        OBVIOUS
    <2> USE Constants DEF AccountsInv, dbVars
    <2>1. ASSUME NEW t \in Tasks, CommitSetup(t) PROVE Final
        BY <2>1 DEF CommitSetup, SetupOpen
    <2>2. ASSUME NEW t \in Tasks, CommitSettings(t) PROVE Final
        BY <2>2 DEF CommitSettings, TypeOK, Config
    <2>3. ASSUME NEW t \in Tasks, UpdateRole(t) PROVE Final
        BY <2>3 DEF UpdateRole, RoleMutable, TypeOK, InHand, UserInput
    <2>4. ASSUME NEW u \in Users, role' = [role EXCEPT ![u] = Upserted(u)],
                 UNCHANGED app_meta
          PROVE  Final
        BY <2>4 DEF Upserted, TypeOK, Roles
    <2>5. ASSUME UNCHANGED <<app_meta, role>> PROVE Final
        BY <2>5
    <2>6. ASSUME NEW t \in Tasks, TaskNext(t) PROVE Final
        BY <2>1, <2>2, <2>3, <2>4, <2>5, <2>6 DEF TaskNext, BeginSetup, VerifyCandidate,
            InstallVerifier, LoadConfig, StoreSetup, BeginSettings, StoreSettings,
            BeginUser, Authenticate, UpdateAccess, End
    <2>7. CASE \E u \in Users : SignIn(u)
        BY <2>4, <2>7 DEF SignIn
    <2> QED
        BY <2>5, <2>6, <2>7 DEF Next, Restart
<1> QED
    BY <1>1, AccountsInvariant, PTL DEF Spec, SetupFinal
=============================================================================
