-------------------------- MODULE MCProviderStore --------------------------
(***************************************************************************)
(* Small instances of ProviderStore.  Tasks, providers, users and details  *)
(* have no order in the code, so all of them are symmetric.                *)
(***************************************************************************)
EXTENDS ProviderStore, TLC

Symmetry == Permutations(Tasks) \cup Permutations(Providers) \cup Permutations(Users)
              \cup Permutations(Details)

-----------------------------------------------------------------------------
(***************************************************************************)
(* For the liveness of circuits: two providers, one whose circuit is open  *)
(* and one that is observed in every way, so that what is pending for the  *)
(* second meets what is written for both.  The handlers are those with     *)
(* different effects on the tables: the operator's switch, which also ends *)
(* a cooldown early, a deletion and the grants.  They end after their      *)
(* statement, and the snapshot is empty (a reload has stored an old list): *)
(* it has no influence on the tables or on what is pending.                *)
(***************************************************************************)
Observed == CHOOSE p \in Providers : TRUE

RecoveryInit ==
    /\ providers = [p \in Providers |->
                      [status |-> IF p = Observed THEN "active" ELSE "cooldown",
                       manual_disabled |-> FALSE,
                       cooldown_until |-> IF p = Observed THEN None ELSE 1]]
    /\ circuits = [p \in Providers |-> providers[p].cooldown_until]
    /\ events = [p \in Providers |-> IF p = Observed THEN {} ELSE {0}]
    /\ circuit_ids = 1
    /\ created = Providers
    /\ listed = Providers
    /\ snapshot = NoRows
    /\ grants = {} /\ snapshot_grants = {}
    /\ provider_updates = NoRows
    /\ pc = [t \in Tasks |-> "idle"]
    /\ on = [t \in Tasks |-> None]
    /\ seen = [t \in Tasks |-> NoRows]
    /\ seen_grants = [t \in Tasks |-> {}]
    /\ update = [t \in Tasks |-> None]
    /\ reloads = [t \in Tasks |-> 0]
    /\ mpc = "idle"
    /\ flushed = NoRows
    /\ removing = None
    /\ mnow = 0
    /\ mseen = NoRows
    /\ now = 0

RecoveryNext ==
    \/ \E t \in Tasks, detail \in Details : TrackResponse(t, Observed, detail)
    \/ \E t \in Tasks, u \in Users :
         CreateProviderGrant(t, Observed, u) \/ DeleteProviderGrant(t, Observed, u)
    \/ \E t \in Tasks, p \in Providers :
         \/ \E enabled \in BOOLEAN : UpdateProvider(t, p, enabled, FALSE)
         \/ DeleteProvider(t, p)
    \/ \E t \in Tasks : ObserveStore(t) \/ ObserveMerge(t) \/ Abort(t)
    \/ MaintainNext
    \/ Tick

RecoverySpec == RecoveryInit /\ [][RecoveryNext]_vars /\ Fairness
=============================================================================
