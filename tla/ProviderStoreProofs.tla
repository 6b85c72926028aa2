------------------------ MODULE ProviderStoreProofs ------------------------
(***************************************************************************)
(* Proofs about ProviderStore, for any number of tasks, providers, users   *)
(* and circuits and for any bound on the clock.                            *)
(*                                                                         *)
(* OpenCircuitIffCooldown is not inductive alone.  The transaction of      *)
(* maintain opens a circuit and sets the status from an update that was    *)
(* merged in memory, so the update has to be coherent in every place it    *)
(* passes through (UpdatesCoherent), and a comparison of end times needs   *)
(* a cooldown to have one (CooldownsEnd).                                  *)
(***************************************************************************)
EXTENDS ProviderStore, TLAPS

ProviderInv ==
    /\ TypeOK
    /\ OpenCircuitIffCooldown
    /\ CooldownsEnd
    /\ UpdatesCoherent

\* What the bounds and the absent value are.
LEMMA Constants ==
    /\ MaxTime \in Nat /\ MaxCircuits \in Nat
    /\ None \notin Nat /\ None \notin Statuses /\ None \notin Provider
    /\ None \notin ProviderUpdate /\ None \notin Providers
BY BoundsAssumption, NoneAssumption

\* The initial state, after a first installation, satisfies the invariant.
LEMMA InitInv == Init => ProviderInv
<1> SUFFICES ASSUME Init PROVE ProviderInv
    OBVIOUS
<1> USE DEF Init, NoRows
<1>1. TypeOK
    BY DEF TypeOK, DbTypes, CacheTypes, TaskTypes, MaintainTypes, Rows, Updates, PCs
<1>2. OpenCircuitIffCooldown
    BY DEF OpenCircuitIffCooldown
<1>3. CooldownsEnd
    BY DEF CooldownsEnd, CooldownHasEnd
<1>4. UpdatesCoherent
    BY DEF UpdatesCoherent, CoherentUpdate
<1> QED
    BY <1>1, <1>2, <1>3, <1>4 DEF ProviderInv

(***************************************************************************)
(* One provider through a statement.  RowOK is what the invariant says of  *)
(* one row and its open circuit event.                                     *)
(***************************************************************************)
RowOK(row, circuit) ==
    /\ row \in Provider \cup {None}
    /\ circuit \in Nat \cup {None}
    /\ circuit # None <=> row # None /\ row.status = "cooldown"
    /\ circuit # None => circuit >= row.cooldown_until
    /\ CooldownHasEnd(row)

\* The trigger keeps row and circuit together when a statement leaves a row in
\* cooldown as it is or takes it out of cooldown.
LEMMA CloseKeepsRowOK ==
    ASSUME NEW row \in Provider, NEW circuit, RowOK(row, circuit),
           NEW new \in Provider,
           new.status # "cooldown" \/ new = row
    PROVE  RowOK(new, CircuitAfter(row, new, circuit))
BY Constants DEF RowOK, CircuitAfter, CooldownHasEnd, Provider, Statuses

\* Opening the circuit and writing the cooldown of one coherent update, in one
\* transaction, is such a statement too.
LEMMA FlushKeepsRowOK ==
    ASSUME NEW row \in Provider, NEW circuit, RowOK(row, circuit),
           NEW u \in ProviderUpdate, CoherentUpdate(u)
    PROVE  /\ FlushedRow(row, u) \in Provider
           /\ RowOK(FlushedRow(row, u),
                    CircuitAfter(row, FlushedRow(row, u), OpenedCircuit(row, u, circuit)))
<1> DEFINE new == FlushedRow(row, u)
<1> USE Constants
<1>0. row # None /\ u # None
    OBVIOUS
<1>1. CASE row.manual_disabled
    <2>1. new = [row EXCEPT !.status = "disabled", !.cooldown_until = None]
        BY <1>0, <1>1 DEF FlushedRow
    <2>2. new \in Provider /\ new.status # "cooldown"
        BY <2>1 DEF Provider, Statuses
    <2>3. OpenedCircuit(row, u, circuit) = circuit
        BY <1>0, <1>1 DEF OpenedCircuit
    <2> QED
        BY <2>2, <2>3, CloseKeepsRowOK
<1>2. CASE ~ row.manual_disabled /\ u.status = None
    <2>1. new = row
        BY <1>0, <1>2 DEF FlushedRow
    <2>2. u.circuit = None
        BY <1>0, <1>2 DEF CoherentUpdate, Statuses
    <2>3. OpenedCircuit(row, u, circuit) = circuit
        BY <2>2 DEF OpenedCircuit
    <2> QED
        BY <2>1, <2>3, CloseKeepsRowOK
<1>3. CASE ~ row.manual_disabled /\ u.status = "auth_error"
    <2>1. new = [row EXCEPT !.status = u.status, !.cooldown_until = u.cooldown_until]
        BY <1>0, <1>3 DEF FlushedRow, Statuses
    <2>2. new \in Provider /\ new.status # "cooldown"
        BY <1>3, <2>1 DEF Provider, Statuses, ProviderUpdate
    <2>3. u.circuit = None
        BY <1>0, <1>3 DEF CoherentUpdate
    <2>4. OpenedCircuit(row, u, circuit) = circuit
        BY <2>3 DEF OpenedCircuit
    <2> QED
        BY <2>2, <2>4, CloseKeepsRowOK
<1>4. CASE ~ row.manual_disabled /\ u.status = "cooldown"
    <2>1. new = [row EXCEPT !.status = u.status, !.cooldown_until = u.cooldown_until]
        BY <1>0, <1>4 DEF FlushedRow, Statuses
    <2>2. /\ new \in Provider
          /\ new.status = "cooldown"
          /\ new.cooldown_until = u.cooldown_until
        BY <1>4, <2>1 DEF Provider, Statuses, ProviderUpdate
    <2>3. u.circuit # None /\ u.cooldown_until \in Nat
        BY <1>0, <1>4 DEF CoherentUpdate, ProviderUpdate
    <2> DEFINE opened == OpenedCircuit(row, u, circuit)
    <2>4. opened \in Nat /\ opened >= u.cooldown_until
        BY <1>0, <1>4, <2>3 DEF OpenedCircuit, RowOK
    <2>5. CircuitAfter(row, new, opened) = opened
        BY <2>2 DEF CircuitAfter
    <2> HIDE DEF opened, new
    <2>6. RowOK(new, opened)
        BY <2>2, <2>3, <2>4 DEF RowOK, CooldownHasEnd
    <2> QED
        BY <2>2, <2>5, <2>6 DEF new, opened
<1> QED
    BY <1>1, <1>2, <1>3, <1>4 DEF ProviderUpdate, Provider

\* The recovery of an expired cooldown, in the table and in a list.
LEMMA RecoveredRow ==
    ASSUME NEW row \in Provider \cup {None}, NEW time \in Nat
    PROVE  /\ Recovered(row, time) \in Provider \cup {None}
           /\ row = None <=> Recovered(row, time) = None
           /\ Recovered(row, time) = row \/ Recovered(row, time).status = "active"
           /\ CooldownHasEnd(row) => CooldownHasEnd(Recovered(row, time))
BY Constants DEF Recovered, Expired, Provider, Statuses, CooldownHasEnd

-----------------------------------------------------------------------------
(* The invariant, one part for each group of variables.                    *)

GoodRows == {rows \in Rows : \A p \in Providers : CooldownHasEnd(rows[p])}

GoodUpdate == {u \in ProviderUpdate : CoherentUpdate(u)}

GoodUpdates == [Providers -> GoodUpdate \cup {None}]

DbInv == DbTypes /\ \A p \in Providers : RowOK(providers[p], circuits[p])

CacheInv ==
    /\ snapshot \in GoodRows
    /\ snapshot_grants \subseteq Providers \X Users
    /\ provider_updates \in GoodUpdates

TaskInv ==
    /\ pc \in [Tasks -> PCs]
    /\ on \in [Tasks -> Providers \cup {None}]
    /\ seen \in [Tasks -> GoodRows]
    /\ seen_grants \in [Tasks -> SUBSET (Providers \X Users)]
    /\ update \in [Tasks -> GoodUpdate \cup {None}]
    /\ reloads \in [Tasks -> 0 .. 2]
    /\ \A t \in Tasks : pc[t] # "idle" => on[t] # None
    /\ \A t \in Tasks : pc[t] \in {"observe_store", "observe_merge"} => update[t] # None

MaintainInv ==
    /\ mpc \in {"idle", "commit", "check", "recover"}
    /\ flushed \in GoodUpdates
    /\ removing \in Providers \cup {None}
    /\ mnow \in Nat
    /\ mseen \in GoodRows

EnvInv == now \in Nat /\ circuit_ids \in Nat /\ listed \subseteq Providers

PartsInv == DbInv /\ CacheInv /\ TaskInv /\ MaintainInv /\ EnvInv

\* Grouped by variables or by properties, the invariant is the same.
LEMMA InvByParts == ProviderInv <=> PartsInv
<1> USE Constants DEF Rows, Updates, GoodRows, GoodUpdate, GoodUpdates, CoherentUpdate
<1>1. ASSUME ProviderInv PROVE PartsInv
    <2>1. DbInv
        BY <1>1 DEF ProviderInv, TypeOK, DbTypes, DbInv, RowOK, OpenCircuitIffCooldown,
            CooldownsEnd
    <2>2. CacheInv
        BY <1>1 DEF ProviderInv, TypeOK, CacheTypes, CacheInv, CooldownsEnd, UpdatesCoherent
    <2>3. TaskInv
        BY <1>1 DEF ProviderInv, TypeOK, TaskTypes, TaskInv, CooldownsEnd, UpdatesCoherent
    <2>4. MaintainInv
        BY <1>1 DEF ProviderInv, TypeOK, MaintainTypes, MaintainInv, CooldownsEnd,
            UpdatesCoherent
    <2> QED
        BY <1>1, <2>1, <2>2, <2>3, <2>4 DEF PartsInv, EnvInv, ProviderInv, TypeOK
<1>2. ASSUME PartsInv PROVE ProviderInv
    <2>1. TypeOK
        BY <1>2 DEF PartsInv, TypeOK, DbInv, CacheInv, CacheTypes, TaskInv, TaskTypes,
            MaintainInv, MaintainTypes, EnvInv
    <2>2. OpenCircuitIffCooldown
        BY <1>2 DEF PartsInv, DbInv, RowOK, OpenCircuitIffCooldown
    <2>3. CooldownsEnd
        BY <1>2 DEF PartsInv, DbInv, RowOK, CacheInv, TaskInv, MaintainInv, CooldownsEnd
    <2>4. UpdatesCoherent
        BY <1>2 DEF PartsInv, CacheInv, TaskInv, MaintainInv, UpdatesCoherent
    <2> QED
        BY <2>1, <2>2, <2>3, <2>4 DEF ProviderInv
<1> QED
    BY <1>1, <1>2

\* The table itself is a good list, and so is the empty one.
LEMMA GoodLists == NoRows \in GoodRows /\ (DbInv => providers \in GoodRows)
BY Constants DEF GoodRows, Rows, NoRows, CooldownHasEnd, DbInv, DbTypes, RowOK

\* What forget_provider, observe and recover_cached_providers make of a list.
LEMMA ChangedLists ==
    ASSUME NEW rows \in GoodRows, NEW p \in Providers, NEW u \in GoodUpdate,
           NEW time \in Nat
    PROVE  /\ [rows EXCEPT ![p] = None] \in GoodRows
           /\ [rows EXCEPT ![p] = ObservedRow(@, u)] \in GoodRows
           /\ [q \in Providers |-> Recovered(rows[q], time)] \in GoodRows
<1>1. [rows EXCEPT ![p] = None] \in GoodRows
    BY Constants DEF GoodRows, Rows, CooldownHasEnd
<1>2. ObservedRow(rows[p], u) \in Provider \cup {None} /\ CooldownHasEnd(ObservedRow(rows[p], u))
    <2>1. /\ rows[p] \in Provider \cup {None}
          /\ CooldownHasEnd(rows[p])
        BY DEF GoodRows, Rows
    <2>2. /\ u \in ProviderUpdate
          /\ u.status = "cooldown" => u.cooldown_until # None
        BY Constants DEF GoodUpdate, CoherentUpdate
    <2> HIDE DEF GoodRows
    <2> QED
        BY <2>1, <2>2, Constants DEF ObservedRow, Provider, Statuses, ProviderUpdate,
            CooldownHasEnd
<1>3. [rows EXCEPT ![p] = ObservedRow(@, u)] \in GoodRows
    BY <1>2 DEF GoodRows, Rows
<1>4. [q \in Providers |-> Recovered(rows[q], time)] \in GoodRows
    BY RecoveredRow DEF GoodRows, Rows
<1> QED
    BY <1>1, <1>3, <1>4

\* The three kinds of update track_response makes are coherent, and so is what
\* the merge of two coherent updates leaves.
LEMMA ObservedUpdates ==
    ASSUME EnvInv, NEW detail \in Details
    PROVE  /\ Answered(detail) \in GoodUpdate
           /\ AuthFailed(detail) \in GoodUpdate
           /\ \A until \in Resets : UsageLimited(until, detail) \in GoodUpdate
BY Constants DEF EnvInv, Answered, AuthFailed, UsageLimited, Resets, GoodUpdate,
    CoherentUpdate, ProviderUpdate, Statuses

\* Merging two updates of a provider gives an update.
LEMMA MergedUpdate ==
    ASSUME NEW current \in GoodUpdate \cup {None}, NEW next \in GoodUpdate
    PROVE  Merge(current, next) \in GoodUpdate
<1>1. CASE current # None /\ next.status = None
    <2>1. Merge(current, next) = [current EXCEPT !.detail = next.detail]
        BY <1>1 DEF Merge
    <2>2. Merge(current, next) \in ProviderUpdate
        BY <1>1, <2>1 DEF GoodUpdate, ProviderUpdate
    <2> QED
        BY <1>1, <2>1, <2>2 DEF GoodUpdate, CoherentUpdate, ProviderUpdate
<1> QED
    BY <1>1 DEF Merge

-----------------------------------------------------------------------------
(* The building blocks of the handlers.                                    *)

\* A statement that leaves its row out of cooldown keeps the tables consistent.
LEMMA UpdateRowInv ==
    ASSUME DbInv, NEW p \in Providers, NEW new,
           providers[p] # None => new \in Provider /\ new.status # "cooldown",
           UpdateRow(p, new), UNCHANGED <<events, grants, created>>
    PROVE  DbInv'
<1>1. CASE providers[p] = None
    BY <1>1 DEF UpdateRow, DbInv, DbTypes
<1>2. CASE providers[p] # None
    <2>1. providers[p] \in Provider /\ RowOK(providers[p], circuits[p])
        BY <1>2 DEF DbInv, DbTypes, Rows
    <2>2. RowOK(new, CircuitAfter(providers[p], new, circuits[p]))
        BY <1>2, <2>1, CloseKeepsRowOK
    <2>3. /\ providers' = [providers EXCEPT ![p] = new]
          /\ circuits' = [circuits EXCEPT ![p] = CircuitAfter(providers[p], new, circuits[p])]
        BY <1>2 DEF UpdateRow
    <2>4. CircuitAfter(providers[p], new, circuits[p]) \in Nat \cup {None}
        BY <2>2 DEF RowOK
    <2>5. DbTypes'
        BY <1>2, <2>3, <2>4 DEF DbInv, DbTypes, Rows
    <2>6. \A q \in Providers : RowOK(providers'[q], circuits'[q])
        BY <2>2, <2>3 DEF DbInv, DbTypes, Rows
    <2> QED
        BY <2>5, <2>6 DEF DbInv
<1> QED
    BY <1>1, <1>2

\* What the handlers write into a row.
LEMMA WrittenRows ==
    ASSUME NEW row \in Provider, NEW enabled \in BOOLEAN
    PROVE  /\ Enabled(row, enabled) \in Provider /\ Enabled(row, enabled).status # "cooldown"
           /\ Restored(row) \in Provider /\ Restored(row).status # "cooldown"
           /\ Refreshed(row) \in Provider /\ Refreshed(row).status # "cooldown"
           /\ RefreshFailed(row) \in Provider /\ RefreshFailed(row).status # "cooldown"
<1>1. Enabled(row, enabled) \in Provider /\ Enabled(row, enabled).status # "cooldown"
    BY DEF Enabled, Provider, Statuses
<1>2. Restored(row) \in Provider /\ Restored(row).status # "cooldown"
    BY DEF Restored, StatusOnRestore, Provider, Statuses
<1>3. Refreshed(row) \in Provider /\ Refreshed(row).status # "cooldown"
    BY DEF Refreshed, Provider, Statuses
<1>4. RefreshFailed(row) \in Provider /\ RefreshFailed(row).status # "cooldown"
    BY DEF RefreshFailed, Provider, Statuses
<1> QED
    BY <1>1, <1>2, <1>3, <1>4

\* A task starts on a provider.
LEMMA StartInv ==
    ASSUME TaskInv, NEW t \in Tasks, NEW p \in Providers,
           NEW next \in {"refresh", "fetch", "forget_load"}, NEW n \in 0 .. 2,
           Start(t, p, next, n)
    PROVE  TaskInv'
BY Constants DEF TaskInv, Start, PCs

\* A task ends, however it does.
LEMMA FinishInv ==
    ASSUME TaskInv, NEW t \in Tasks, Finish(t)
    PROVE  TaskInv'
BY Constants, GoodLists DEF TaskInv, Finish, PCs

\* A list that was read earlier replaces the snapshot.
LEMMA StoreSeenInv ==
    ASSUME TaskInv, NEW t \in Tasks, pc[t] # "idle",
           NEW next \in {"store_grants", "forget_updates", "observe_merge"},
           next = "observe_merge" => update[t] # None,
           StoreSeen(t, next), UNCHANGED <<on, seen_grants, update, reloads>>
    PROVE  TaskInv' /\ snapshot' \in GoodRows
BY GoodLists DEF TaskInv, StoreSeen, PCs

-----------------------------------------------------------------------------
(* One lemma per group of actions.                                         *)

\* The statements of the API's handlers and of a request's refresh.
LEMMA HandlersKeepInv ==
    ASSUME PartsInv, NEW t \in Tasks, NEW p \in Providers,
           \/ InsertProvider(t, p)
           \/ \E enabled \in BOOLEAN \cup {None}, refresh \in BOOLEAN :
                UpdateProvider(t, p, enabled, refresh)
           \/ ReplaceProviderTokenValues(t, p)
           \/ DeleteProvider(t, p)
           \/ \E u \in Users : CreateProviderGrant(t, p, u) \/ DeleteProviderGrant(t, p, u)
           \/ \E ok \in BOOLEAN : RefreshIfNeeded(t, p, ok)
    PROVE  PartsInv'
<1> USE DEF PartsInv
<1>0. providers[p] \in Provider \cup {None}
    BY DEF DbInv, DbTypes, Rows
<1>1. CASE InsertProvider(t, p)
    <2>1. TaskInv'
        BY <1>1, StartInv DEF InsertProvider
    <2> DEFINE new == [status |-> "active", manual_disabled |-> FALSE,
                       cooldown_until |-> None]
    <2>2. new \in Provider /\ new.status = "active"
        BY DEF Provider, Statuses
    <2>3. providers[p] = None /\ circuits[p] = None
        BY <1>1 DEF DbInv, DbTypes, RowOK, InsertProvider
    <2>4. RowOK(new, None)
        BY <2>2 DEF RowOK, CooldownHasEnd
    <2>5. providers' = [providers EXCEPT ![p] = new] /\ created' = created \cup {p}
        BY <1>1 DEF InsertProvider
    <2> HIDE DEF new
    <2>6. DbTypes'
        BY <1>1, <2>2, <2>5 DEF DbInv, DbTypes, Rows, InsertProvider
    <2>7. \A q \in Providers : RowOK(providers'[q], circuits'[q])
        BY <1>1, <2>3, <2>4, <2>5 DEF DbInv, DbTypes, Rows, InsertProvider
    <2>8. DbInv'
        BY <2>6, <2>7 DEF DbInv
    <2> QED
        BY <1>1, <2>1, <2>8 DEF InsertProvider, CacheInv, MaintainInv, EnvInv, cacheVars,
            maintainVars, envVars
<1>2. ASSUME NEW enabled \in BOOLEAN \cup {None}, NEW refresh \in BOOLEAN,
             UpdateProvider(t, p, enabled, refresh)
      PROVE  PartsInv'
    <2>1. TaskInv'
        BY <1>2, StartInv DEF UpdateProvider
    <2>2. DbInv'
        <3>1. CASE enabled \in BOOLEAN
            BY <1>0, <1>2, <3>1, UpdateRowInv, WrittenRows DEF UpdateProvider
        <3>2. CASE enabled \notin BOOLEAN
            BY <1>2, <3>2 DEF UpdateProvider, DbInv, DbTypes
        <3> QED
            BY <3>1, <3>2
    <2> QED
        BY <1>2, <2>1, <2>2 DEF UpdateProvider, CacheInv, MaintainInv, EnvInv, cacheVars,
            maintainVars, envVars
<1>3. CASE ReplaceProviderTokenValues(t, p)
    <2>1. TaskInv'
        BY <1>3, StartInv DEF ReplaceProviderTokenValues
    <2>2. DbInv'
        BY <1>0, <1>3, UpdateRowInv, WrittenRows DEF ReplaceProviderTokenValues
    <2> QED
        BY <1>3, <2>1, <2>2 DEF ReplaceProviderTokenValues, CacheInv, MaintainInv, EnvInv,
            cacheVars, maintainVars, envVars
<1>4. CASE DeleteProvider(t, p)
    <2>1. TaskInv'
        BY <1>4, StartInv DEF DeleteProvider
    <2>2. DbTypes'
        BY <1>4 DEF DeleteProvider, DbInv, DbTypes, Rows
    <2>3. RowOK(None, None)
        BY DEF RowOK, CooldownHasEnd
    <2>4. \A q \in Providers : RowOK(providers'[q], circuits'[q])
        BY <1>4, <2>3 DEF DeleteProvider, DbInv, DbTypes, Rows
    <2>5. DbInv'
        BY <2>2, <2>4 DEF DbInv
    <2> QED
        BY <1>4, <2>1, <2>5 DEF DeleteProvider, CacheInv, MaintainInv, EnvInv,
            cacheVars, maintainVars, envVars
<1>5. ASSUME NEW u \in Users, CreateProviderGrant(t, p, u) \/ DeleteProviderGrant(t, p, u)
      PROVE  PartsInv'
    <2>1. TaskInv'
        BY <1>5, StartInv DEF CreateProviderGrant, DeleteProviderGrant
    <2>2. DbInv'
        BY <1>5 DEF CreateProviderGrant, DeleteProviderGrant, DbInv, DbTypes
    <2> QED
        BY <1>5, <2>1, <2>2 DEF CreateProviderGrant, DeleteProviderGrant, CacheInv,
            MaintainInv, EnvInv, cacheVars, maintainVars, envVars
<1>6. ASSUME NEW ok \in BOOLEAN, RefreshIfNeeded(t, p, ok)
      PROVE  PartsInv'
    <2>1. TaskInv'
        BY <1>6, StartInv DEF RefreshIfNeeded
    <2>2. DbInv'
        BY <1>0, <1>6, UpdateRowInv, WrittenRows DEF RefreshIfNeeded
    <2> QED
        BY <1>6, <2>1, <2>2 DEF RefreshIfNeeded, CacheInv, MaintainInv, EnvInv,
            cacheVars, maintainVars, envVars
<1> QED
    BY <1>1, <1>2, <1>3, <1>4, <1>5, <1>6

\* refresh_provider, reload_providers, forget_provider and an aborted handler.
LEMMA TasksKeepInv ==
    ASSUME PartsInv, NEW t \in Tasks,
           \/ RefreshProvider(t)
           \/ FetchProviders(t) \/ FetchGrants(t) \/ StoreProviders(t) \/ StoreGrants(t)
           \/ ForgetLoad(t) \/ ForgetStore(t) \/ ForgetUpdates(t) \/ ForgetGrants(t)
           \/ Abort(t)
    PROVE  PartsInv'
<1> USE DEF PartsInv
<1>0. pc[t] # "idle" => on[t] \in Providers
    BY DEF TaskInv
<1>1. CASE RefreshProvider(t)
    <2>0. on[t] \in Providers /\ providers[on[t]] \in Provider
        BY <1>0, <1>1 DEF RefreshProvider, DbInv, DbTypes, Rows
    <2>1. TaskInv'
        BY <1>1 DEF RefreshProvider, TaskInv, PCs
    <2>2. DbInv'
        BY <1>1, <2>0, UpdateRowInv, WrittenRows DEF RefreshProvider
    <2> QED
        BY <1>1, <2>1, <2>2 DEF RefreshProvider, CacheInv, MaintainInv, EnvInv,
            cacheVars, maintainVars, envVars
<1>2. CASE FetchProviders(t)
    <2>1. TaskInv'
        BY <1>2, GoodLists DEF FetchProviders, TaskInv, PCs
    <2> QED
        BY <1>2, <2>1 DEF FetchProviders, DbInv, DbTypes, CacheInv, MaintainInv, EnvInv,
            dbVars, cacheVars, maintainVars, envVars
<1>3. CASE FetchGrants(t)
    <2>1. TaskInv'
        BY <1>3 DEF FetchGrants, TaskInv, PCs, DbInv, DbTypes
    <2> QED
        BY <1>3, <2>1 DEF FetchGrants, DbInv, DbTypes, CacheInv, MaintainInv, EnvInv,
            dbVars, cacheVars, maintainVars, envVars
<1>4. CASE StoreProviders(t)
    <2>1. TaskInv' /\ snapshot' \in GoodRows
        BY <1>4, StoreSeenInv DEF StoreProviders
    <2> QED
        BY <1>4, <2>1 DEF StoreProviders, DbInv, DbTypes, CacheInv, MaintainInv, EnvInv,
            dbVars, maintainVars, envVars
<1>5. CASE StoreGrants(t)
    <2>1. TaskInv'
        <3>1. CASE reloads[t] > 1
            BY <1>5, <3>1 DEF StoreGrants, TaskInv, PCs
        <3>2. CASE ~ (reloads[t] > 1)
            BY <1>5, <3>2, FinishInv DEF StoreGrants
        <3> QED
            BY <3>1, <3>2
    <2>2. snapshot_grants' \subseteq Providers \X Users
        BY <1>5 DEF StoreGrants, TaskInv
    <2> QED
        BY <1>5, <2>1, <2>2 DEF StoreGrants, DbInv, DbTypes, CacheInv, MaintainInv, EnvInv,
            dbVars, maintainVars, envVars
<1>6. CASE ForgetLoad(t)
    <2>1. [snapshot EXCEPT ![on[t]] = None] \in GoodRows
        BY <1>0, <1>6, Constants DEF ForgetLoad, CacheInv, GoodRows, Rows, CooldownHasEnd
    <2>2. TaskInv'
        BY <1>6, <2>1 DEF ForgetLoad, TaskInv, PCs
    <2> QED
        BY <1>6, <2>2 DEF ForgetLoad, DbInv, DbTypes, CacheInv, MaintainInv, EnvInv,
            dbVars, cacheVars, maintainVars, envVars
<1>7. CASE ForgetStore(t)
    <2>1. TaskInv' /\ snapshot' \in GoodRows
        BY <1>7, StoreSeenInv DEF ForgetStore
    <2> QED
        BY <1>7, <2>1 DEF ForgetStore, DbInv, DbTypes, CacheInv, MaintainInv, EnvInv,
            dbVars, maintainVars, envVars
<1>8. CASE ForgetUpdates(t)
    <2>1. TaskInv'
        BY <1>8 DEF ForgetUpdates, TaskInv, PCs, CacheInv
    <2>2. provider_updates' \in GoodUpdates
        BY <1>8 DEF ForgetUpdates, CacheInv, GoodUpdates
    <2> QED
        BY <1>8, <2>1, <2>2 DEF ForgetUpdates, DbInv, DbTypes, CacheInv, MaintainInv, EnvInv,
            dbVars, maintainVars, envVars
<1>9. CASE ForgetGrants(t)
    <2>1. TaskInv' /\ snapshot_grants' \subseteq Providers \X Users
        BY <1>9 DEF ForgetGrants, TaskInv, PCs
    <2> QED
        BY <1>9, <2>1 DEF ForgetGrants, DbInv, DbTypes, CacheInv, MaintainInv, EnvInv,
            dbVars, maintainVars, envVars
<1>10. CASE Abort(t)
    <2>1. TaskInv'
        BY <1>10, FinishInv DEF Abort
    <2> QED
        BY <1>10, <2>1 DEF Abort, DbInv, DbTypes, CacheInv, MaintainInv, EnvInv,
            dbVars, cacheVars, maintainVars, envVars
<1> QED
    BY <1>1, <1>2, <1>3, <1>4, <1>5, <1>6, <1>7, <1>8, <1>9, <1>10

\* track_response and observe.
LEMMA ObserversKeepInv ==
    ASSUME PartsInv, NEW t \in Tasks,
           \/ \E p \in Providers, detail \in Details : TrackResponse(t, p, detail)
           \/ ObserveStore(t)
           \/ ObserveMerge(t)
    PROVE  PartsInv'
<1> USE DEF PartsInv
<1>1. ASSUME NEW p \in Providers, NEW u \in GoodUpdate, ObserveLoad(t, p, u)
      PROVE  TaskInv'
    <2>1. [snapshot EXCEPT ![p] = ObservedRow(@, u)] \in GoodRows
        BY ChangedLists DEF CacheInv, MaintainInv
    <2>2. u # None
        BY Constants DEF GoodUpdate
    <2> QED
        BY <1>1, <2>1, <2>2, Constants DEF ObserveLoad, TaskInv, PCs
<1>2. ASSUME NEW p \in Providers, NEW detail \in Details, TrackResponse(t, p, detail)
      PROVE  PartsInv'
    <2>1. TaskInv'
        BY <1>1, <1>2, ObservedUpdates DEF TrackResponse
    <2>2. EnvInv'
        BY <1>2 DEF TrackResponse, EnvInv
    <2> QED
        BY <1>2, <2>1, <2>2 DEF TrackResponse, DbInv, DbTypes, CacheInv, MaintainInv,
            dbVars, cacheVars, maintainVars
<1>3. CASE ObserveStore(t)
    <2>1. pc[t] # "idle" /\ update[t] # None
        BY <1>3 DEF ObserveStore, TaskInv
    <2>2. TaskInv' /\ snapshot' \in GoodRows
        BY <1>3, <2>1, StoreSeenInv DEF ObserveStore
    <2> QED
        BY <1>3, <2>2 DEF ObserveStore, DbInv, DbTypes, CacheInv, MaintainInv, EnvInv,
            dbVars, maintainVars, envVars
<1>4. CASE ObserveMerge(t)
    <2>1. TaskInv'
        BY <1>4, FinishInv DEF ObserveMerge
    <2>2. on[t] \in Providers /\ update[t] \in GoodUpdate
        BY <1>4 DEF ObserveMerge, TaskInv
    <2>3. Merge(provider_updates[on[t]], update[t]) \in GoodUpdate
        BY <2>2, MergedUpdate DEF CacheInv, GoodUpdates
    <2>4. provider_updates' \in GoodUpdates
        BY <1>4, <2>3 DEF ObserveMerge, CacheInv, GoodUpdates
    <2> QED
        BY <1>4, <2>1, <2>4 DEF ObserveMerge, DbInv, DbTypes, CacheInv, MaintainInv, EnvInv,
            dbVars, maintainVars, envVars
<1> QED
    BY <1>2, <1>3, <1>4

\* One provider through the whole transaction of maintain: the circuit stays
\* with the row, and if it was and is open its end has not moved closer.
LEMMA MaintainedRow ==
    ASSUME DbInv, MaintainInv, NEW p \in Providers
    PROVE  /\ Maintained(p).row \in Provider \cup {None}
           /\ RowOK(Maintained(p).row, Maintained(p).circuit)
           /\ providers[p] = None => Maintained(p).row = None
           /\ circuits[p] # None /\ Maintained(p).circuit # None
                => Maintained(p).circuit >= circuits[p]
<1> DEFINE row     == providers[p]
           u       == flushed[p]
           opened  == IF u = None THEN circuits[p] ELSE OpenedCircuit(row, u, circuits[p])
           written == IF u = None THEN row ELSE FlushedRow(row, u)
           closed  == CircuitAfter(row, written, opened)
           final   == Recovered(written, mnow)
<1>0. /\ row \in Provider \cup {None}
      /\ RowOK(row, circuits[p])
      /\ u # None => u \in ProviderUpdate /\ CoherentUpdate(u)
      /\ mnow \in Nat
    BY DEF DbInv, DbTypes, Rows, MaintainInv, GoodUpdates, GoodUpdate
<1>1. /\ Maintained(p).row = final
      /\ Maintained(p).circuit =
            IF row = None THEN opened ELSE CircuitAfter(written, final, closed)
    BY DEF Maintained
<1>2. CASE row = None
    <2>1. written = None /\ final = None /\ opened = circuits[p]
        BY <1>2 DEF FlushedRow, OpenedCircuit, Recovered, Expired
    <2> QED
        BY <1>0, <1>1, <1>2, <2>1 DEF RowOK
<1>3. CASE row # None
    <2>1. written \in Provider /\ RowOK(written, closed)
        <3>1. CASE u = None
            BY <1>0, <1>3, <3>1, CloseKeepsRowOK
        <3>2. CASE u # None
            BY <1>0, <1>3, <3>2, FlushKeepsRowOK
        <3> QED
            BY <3>1, <3>2
    <2>2. closed # None /\ circuits[p] # None => closed >= circuits[p]
        <3>1. opened # None /\ circuits[p] # None => opened >= circuits[p]
            BY <1>0, Constants DEF OpenedCircuit, RowOK, ProviderUpdate, CoherentUpdate
        <3> QED
            BY <3>1 DEF CircuitAfter
    <2>3. written # None
        BY <2>1, Constants
    <2>4. final \in Provider /\ (final = written \/ final.status = "active")
        BY <1>0, <2>1, <2>3, RecoveredRow
    <2> HIDE DEF written, closed, final
    <2>5. RowOK(final, CircuitAfter(written, final, closed))
        BY <2>1, <2>4, CloseKeepsRowOK
    <2>6. CircuitAfter(written, final, closed) \in {None, closed}
        BY DEF CircuitAfter
    <2> QED
        BY <1>1, <1>3, <2>2, <2>4, <2>5, <2>6
<1> QED
    BY <1>2, <1>3

\* The maintenance task and the clock.
LEMMA MaintenanceKeepsInv ==
    ASSUME PartsInv, MaintainNext \/ Tick
    PROVE  PartsInv'
<1> USE DEF PartsInv
<1>1. CASE MaintainBegin
    BY <1>1 DEF MaintainBegin, DbInv, DbTypes, CacheInv, TaskInv, MaintainInv, EnvInv,
        dbVars, cacheVars, taskVars, envVars
<1>2. CASE MaintainCommit
    <2>1. /\ providers' = [p \in Providers |-> Maintained(p).row]
          /\ circuits' = [p \in Providers |-> Maintained(p).circuit]
        BY <1>2 DEF MaintainCommit
    <2>2. \A p \in Providers : RowOK(providers'[p], circuits'[p])
        BY <2>1, MaintainedRow
    <2>3. \A p \in Providers : Maintained(p).row \in Provider \cup {None}
                             /\ Maintained(p).circuit \in Nat \cup {None}
        BY MaintainedRow DEF RowOK
    <2>4. \A p \in Providers : providers[p] = None => providers'[p] = None
        BY <2>1, MaintainedRow
    <2>5. providers' \in Rows /\ circuits' \in [Providers -> Nat \cup {None}]
        BY <2>1, <2>3 DEF Rows
    <2>6. events' \in [Providers -> SUBSET Nat]
        <3>1. \A p \in Providers : EventsAfter(p) \in SUBSET Nat
            BY Constants DEF EventsAfter, InsertsEvent, DbInv, DbTypes, MaintainInv,
                GoodUpdates, GoodUpdate, ProviderUpdate
        <3> QED
            BY <1>2, <3>1 DEF MaintainCommit
    <2>7. DbInv'
        BY <1>2, <2>2, <2>4, <2>5, <2>6 DEF MaintainCommit, DbInv, DbTypes
    <2> QED
        BY <1>2, <2>7 DEF MaintainCommit, CacheInv, TaskInv, MaintainInv, EnvInv,
            cacheVars, taskVars, envVars
<1>3. CASE MaintainFail
    <2>1. NoRows \in GoodUpdates
        BY DEF NoRows, GoodUpdates
    <2> QED
        BY <1>3, <2>1 DEF MaintainFail, DbInv, DbTypes, CacheInv, TaskInv, MaintainInv,
            EnvInv, dbVars, cacheVars, taskVars, envVars
<1>4. ASSUME NEW p \in Providers, MaintainCheck(p) PROVE PartsInv'
    <2>1. MaintainInv'
        BY <1>4 DEF MaintainCheck, MaintainInv, GoodUpdates
    <2> QED
        BY <1>4, <2>1 DEF MaintainCheck, DbInv, DbTypes, CacheInv, TaskInv, EnvInv,
            dbVars, cacheVars, taskVars, envVars
<1>5. CASE MaintainRemove
    <2>1. MaintainInv' /\ provider_updates' \in GoodUpdates
        BY <1>5 DEF MaintainRemove, MaintainInv, CacheInv, GoodUpdates
    <2> QED
        BY <1>5, <2>1 DEF MaintainRemove, DbInv, DbTypes, CacheInv, TaskInv, EnvInv,
            dbVars, taskVars, envVars
<1>6. CASE RecoverLoad
    <2>1. [p \in Providers |-> Recovered(snapshot[p], mnow)] \in GoodRows
        BY RecoveredRow DEF CacheInv, MaintainInv, GoodRows, Rows
    <2> QED
        BY <1>6, <2>1 DEF RecoverLoad, DbInv, DbTypes, CacheInv, TaskInv, MaintainInv,
            EnvInv, dbVars, cacheVars, taskVars, envVars
<1>7. CASE RecoverStore
    BY <1>7, GoodLists DEF RecoverStore, DbInv, DbTypes, CacheInv, TaskInv, MaintainInv,
        EnvInv, dbVars, taskVars, envVars
<1>8. CASE Tick
    BY <1>8 DEF Tick, DbInv, DbTypes, CacheInv, TaskInv, MaintainInv, EnvInv,
        dbVars, cacheVars, taskVars, maintainVars
<1> QED
    BY <1>1, <1>2, <1>3, <1>4, <1>5, <1>6, <1>7, <1>8 DEF MaintainNext

-----------------------------------------------------------------------------
(***************************************************************************)
(* Every reachable state satisfies the inductive invariant, whatever the   *)
(* handlers, requests and the maintenance task do to each other.           *)
(***************************************************************************)
THEOREM ProviderInvariant == Spec => []ProviderInv
<1>1. Init => PartsInv
    BY InitInv, InvByParts
<1>2. PartsInv /\ [Next]_vars => PartsInv'
    <2> SUFFICES ASSUME PartsInv, [Next]_vars PROVE PartsInv'
        OBVIOUS
    <2>1. ASSUME NEW t \in Tasks, HandlerNext(t) PROVE PartsInv'
        <3>1. ASSUME NEW p \in Providers, NEW detail \in Details, TrackResponse(t, p, detail)
              PROVE  PartsInv'
            BY <3>1, ObserversKeepInv
        <3>2. CASE ObserveStore(t) \/ ObserveMerge(t)
            BY <3>2, ObserversKeepInv
        <3> QED
            BY <2>1, <3>1, <3>2, HandlersKeepInv, TasksKeepInv DEF HandlerNext
    <2>2. CASE MaintainNext \/ Tick
        BY <2>2, MaintenanceKeepsInv
    <2>3. CASE UNCHANGED vars
        BY <2>3 DEF PartsInv, DbInv, DbTypes, CacheInv, TaskInv, MaintainInv, EnvInv,
            vars, dbVars, cacheVars, taskVars, maintainVars, envVars
    <2> QED
        BY <2>1, <2>2, <2>3 DEF Next
<1>3. PartsInv => ProviderInv
    BY InvByParts
<1> QED
    BY <1>1, <1>2, <1>3, PTL DEF Spec

\* All variables keep their types in every execution.
THEOREM ProviderTypes == Spec => []TypeOK
BY ProviderInvariant, PTL DEF ProviderInv

(***************************************************************************)
(* A circuit event is open exactly while its provider is in cooldown:      *)
(* maintain's transaction, the trigger and every statement of the API and  *)
(* of refresh_if_needed agree on it.                                       *)
(***************************************************************************)
THEOREM CircuitsTellStatus == Spec => []OpenCircuitIffCooldown
BY ProviderInvariant, PTL DEF ProviderInv

\* No row, snapshot or list about to be stored has a cooldown without an end.
THEOREM CooldownsHaveEnd == Spec => []CooldownsEnd
BY ProviderInvariant, PTL DEF ProviderInv

(***************************************************************************)
(* While a circuit event stays open, no step moves its end closer: neither *)
(* another 429 with an earlier reset, nor any handler.                     *)
(***************************************************************************)
THEOREM CircuitsExtend == Spec => CircuitsOnlyExtend
<1> DEFINE Extends == \A p \in Providers :
               circuits[p] # None /\ circuits'[p] # None => circuits'[p] >= circuits[p]
<1>1. PartsInv /\ [Next]_vars => [Extends]_vars
    <2> SUFFICES ASSUME PartsInv, Next PROVE Extends
        OBVIOUS
    <2>0. \A p \in Providers : circuits[p] # None => circuits[p] >= circuits[p]
        BY DEF PartsInv, DbInv, DbTypes
    <2>1. ASSUME \A p \in Providers : circuits'[p] \in {None, circuits[p]} PROVE Extends
        BY <2>0, <2>1
    <2>2. CASE MaintainCommit
        <3>1. circuits' = [p \in Providers |-> Maintained(p).circuit]
            BY <2>2 DEF MaintainCommit
        <3> QED
            BY <3>1, MaintainedRow DEF PartsInv
    <2>3. ASSUME NEW p \in Providers, NEW new, UpdateRow(p, new)
          PROVE  \A q \in Providers : circuits'[q] \in {None, circuits[q]}
        BY <2>3 DEF PartsInv, DbInv, DbTypes, UpdateRow, CircuitAfter
    <2>4. ASSUME NEW t \in Tasks, NEW p \in Providers, DeleteProvider(t, p)
          PROVE  \A q \in Providers : circuits'[q] \in {None, circuits[q]}
        BY <2>4 DEF PartsInv, DbInv, DbTypes, DeleteProvider
    <2>5. ASSUME NEW t \in Tasks, HandlerNext(t)
          PROVE  \A q \in Providers : circuits'[q] \in {None, circuits[q]}
        <3>1. CASE UNCHANGED circuits
            BY <3>1
        <3>2. ASSUME NEW p \in Providers, NEW enabled, NEW refresh,
                     UpdateProvider(t, p, enabled, refresh)
              PROVE  \A q \in Providers : circuits'[q] \in {None, circuits[q]}
            BY <2>3, <3>1, <3>2 DEF UpdateProvider
        <3>3. ASSUME NEW p \in Providers, ReplaceProviderTokenValues(t, p)
              PROVE  \A q \in Providers : circuits'[q] \in {None, circuits[q]}
            BY <2>3, <3>3 DEF ReplaceProviderTokenValues
        <3>4. ASSUME NEW p \in Providers, NEW ok, RefreshIfNeeded(t, p, ok)
              PROVE  \A q \in Providers : circuits'[q] \in {None, circuits[q]}
            BY <2>3, <3>4 DEF RefreshIfNeeded
        <3>5. CASE RefreshProvider(t)
            <4>1. on[t] \in Providers
                BY <3>5 DEF RefreshProvider, PartsInv, TaskInv
            <4> QED
                BY <2>3, <3>5, <4>1 DEF RefreshProvider
        <3>6. ASSUME NEW p \in Providers,
                     \/ InsertProvider(t, p)
                     \/ \E u \in Users : CreateProviderGrant(t, p, u) \/ DeleteProviderGrant(t, p, u)
                     \/ \E detail \in Details : TrackResponse(t, p, detail)
              PROVE  UNCHANGED circuits
            BY <3>6 DEF InsertProvider, CreateProviderGrant, DeleteProviderGrant,
                TrackResponse, dbVars
        <3>7. ASSUME \/ FetchProviders(t) \/ FetchGrants(t) \/ StoreProviders(t) \/ StoreGrants(t)
                     \/ ForgetLoad(t) \/ ForgetStore(t) \/ ForgetUpdates(t) \/ ForgetGrants(t)
                     \/ ObserveStore(t) \/ ObserveMerge(t)
                     \/ Abort(t)
              PROVE  UNCHANGED circuits
            BY <3>7 DEF FetchProviders, FetchGrants, StoreProviders, StoreGrants, ForgetLoad,
                ForgetStore, ForgetUpdates, ForgetGrants, ObserveStore, ObserveMerge, Abort, dbVars
        <3> QED
            BY <2>4, <2>5, <3>1, <3>2, <3>3, <3>4, <3>5, <3>6, <3>7 DEF HandlerNext
    <2>6. CASE (MaintainNext /\ ~ MaintainCommit) \/ Tick
        <3>1. UNCHANGED circuits
            BY <2>6 DEF MaintainNext, MaintainBegin, MaintainFail, MaintainCheck,
                MaintainRemove, RecoverLoad, RecoverStore, Tick, dbVars
        <3> QED
            BY <2>1, <3>1
    <2> QED
        BY <2>1, <2>2, <2>5, <2>6 DEF Next
<1>2. ProviderInv => PartsInv
    BY InvByParts
<1>3. Spec => []PartsInv
    BY <1>2, ProviderInvariant, PTL
<1> QED
    BY <1>1, <1>3, PTL DEF Spec, CircuitsOnlyExtend
=============================================================================
