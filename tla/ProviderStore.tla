--------------------------- MODULE ProviderStore ---------------------------
(***************************************************************************)
(* The health of upstream providers in three copies: the rows of SQLite,   *)
(* the snapshot that requests are routed by, and the observations that     *)
(* wait for the maintenance task to write them.                            *)
(*                                                                         *)
(* A task is an API handler or a request in the proxy; tasks run in        *)
(* parallel, and a handler that waits for SQLite or for the network is     *)
(* dropped when its client goes away.  The snapshot is replaced as a whole *)
(* by reload_providers, observe, forget_provider and                       *)
(* recover_cached_providers, each of which reads first and stores later.   *)
(* A trigger of the database closes a provider's circuit event when its    *)
(* status leaves 'cooldown'.                                               *)
(*                                                                         *)
(* Left out: names, tokens and their rotation (a refresh only has its      *)
(* outcome and its effect on the status), owners, last_error and           *)
(* last_used_at, leases and affinities.  Of a closed circuit event only    *)
(* the id is kept.                                                         *)
(*                                                                         *)
(* A definition named D_Fault is D with a plausible programming error; it  *)
(* is used only to show that the properties notice that error.             *)
(***************************************************************************)
EXTENDS Integers, FiniteSets

CONSTANTS
    Tasks,          \* API handlers and proxied requests
    Providers,      \* the ids (UUIDs) of upstream providers
    Users,          \* users who may be granted a provider they do not own
    Details,        \* what an observation says besides the status
    MaxTime,        \* bound: the clock and every reset time stay below it
    MaxCircuits,    \* bound: usage limits the upstreams report
    None            \* Rust's None, SQL's NULL, a row that is not there

ASSUME BoundsAssumption == MaxTime \in Nat /\ MaxCircuits \in Nat

Statuses == {"active", "cooldown", "auth_error", "disabled"}

Provider == [status : Statuses, manual_disabled : BOOLEAN,
             cooldown_until : Nat \cup {None}]

\* circuit is the UUID of the circuit event to open, whose cooldown_until is that
\* of the update.  detail stands for rate_limit_json, last_used_at and updated_at:
\* all it is good for is that two updates may or may not be equal.
ProviderUpdate ==
    [status : {"cooldown", "auth_error", None}, cooldown_until : Nat \cup {None},
     circuit : Nat \cup {None}, detail : Details]

ASSUME NoneAssumption ==
    /\ None \notin Nat
    /\ None \notin Statuses
    /\ None \notin Provider
    /\ None \notin ProviderUpdate
    /\ None \notin Providers

VARIABLES
    \* SQLite
    providers,          \* the providers table
    circuits,           \* cooldown_until of each provider's open circuit event
    events,             \* the ids of its circuit events, open and closed
    grants,             \* the provider_grants table
    created,            \* the ids that were ever used
    \* the Balancer
    snapshot,           \* Balancer.providers
    snapshot_grants,    \* Balancer.provider_grants
    provider_updates,   \* Balancer.provider_updates
    \* the tasks
    pc,                 \* where the task is
    on,                 \* the provider it works on
    seen,               \* the provider list it is about to store
    seen_grants,        \* the grants it is about to store
    update,             \* the update it observes
    reloads,            \* how often it has yet to reload
    \* the maintenance task
    mpc,                \* where it is in maintain()
    flushed,            \* the updates it took along and has not looked at again
    removing,           \* the update it found unchanged and is about to remove
    mnow,               \* its clock reading
    mseen,              \* the provider list it is about to store
    \* the environment
    now,                \* the clock
    circuit_ids,        \* circuit UUIDs handed out
    listed              \* history: the providers that were ever in the snapshot

dbVars       == <<providers, circuits, events, grants, created>>
cacheVars    == <<snapshot, snapshot_grants, provider_updates>>
taskVars     == <<pc, on, seen, seen_grants, update, reloads>>
maintainVars == <<mpc, flushed, removing, mnow, mseen>>
envVars      == <<now, circuit_ids, listed>>
vars == <<dbVars, cacheVars, taskVars, maintainVars, envVars>>

NoRows == [p \in Providers |-> None]

PCs == {"idle", "refresh", "fetch", "fetch_grants", "store", "store_grants",
        "observe_store", "observe_merge", "forget_load", "forget_store",
        "forget_updates", "forget_grants"}

Init ==
    /\ providers = NoRows
    /\ circuits = NoRows
    /\ events = [p \in Providers |-> {}]
    /\ grants = {}
    /\ created = {}
    /\ snapshot = NoRows
    /\ snapshot_grants = {}
    /\ provider_updates = NoRows
    /\ pc = [t \in Tasks |-> "idle"]
    /\ on = [t \in Tasks |-> None]
    /\ seen = [t \in Tasks |-> NoRows]
    /\ seen_grants = [t \in Tasks |-> {}]
    /\ update = [t \in Tasks |-> None]
    /\ reloads = [t \in Tasks |-> 0]
    /\ mpc = "idle"
    /\ flushed = NoRows
    /\ removing = None
    /\ mnow = 0
    /\ mseen = NoRows
    /\ now = 0
    /\ circuit_ids = 0
    /\ listed = {}

-----------------------------------------------------------------------------
(* The tables.                                                             *)

\* provider_circuit_events_close_on_status_change, fired by an UPDATE of the
\* status from row to new; circuit is the open circuit event before it.
CircuitAfter(row, new, circuit) ==
    IF row.status = "cooldown" /\ new.status # "cooldown" THEN None ELSE circuit

\* UPDATE providers SET ... WHERE id=p, a statement of its own; a row that is
\* not there is not updated.
UpdateRow(p, new) ==
    IF providers[p] = None THEN UNCHANGED <<providers, circuits>>
    ELSE /\ providers' = [providers EXCEPT ![p] = new]
         /\ circuits' = [circuits EXCEPT ![p] =
                           CircuitAfter(providers[p], new, circuits[p])]

\* status=CASE WHEN manual_disabled=1 THEN 'disabled' ELSE 'active' END
StatusOnRestore(row) == IF row.manual_disabled THEN "disabled" ELSE "active"

Restored(row) == [row EXCEPT !.status = StatusOnRestore(row), !.cooldown_until = None]

Enabled(row, enabled) ==
    [status |-> IF enabled THEN "active" ELSE "disabled",
     manual_disabled |-> ~ enabled, cooldown_until |-> None]

-----------------------------------------------------------------------------
(* The handlers of the API.  Each commits its statement and then reloads.  *)

Start(t, p, next, n) ==
    /\ pc[t] = "idle"
    /\ pc' = [pc EXCEPT ![t] = next]
    /\ on' = [on EXCEPT ![t] = p]
    /\ reloads' = [reloads EXCEPT ![t] = n]
    /\ UNCHANGED <<seen, seen_grants, update>>

Finish(t) ==
    /\ pc' = [pc EXCEPT ![t] = "idle"]
    /\ on' = [on EXCEPT ![t] = None]
    /\ seen' = [seen EXCEPT ![t] = NoRows]
    /\ seen_grants' = [seen_grants EXCEPT ![t] = {}]
    /\ update' = [update EXCEPT ![t] = None]
    /\ reloads' = [reloads EXCEPT ![t] = 0]

\* The list that was read earlier replaces the snapshot.
StoreSeen(t, next) ==
    /\ snapshot' = seen[t]
    /\ seen' = [seen EXCEPT ![t] = NoRows]
    /\ pc' = [pc EXCEPT ![t] = next]

InsertProvider(t, p) ==
    /\ p \notin created
    /\ Start(t, p, "fetch", 1)
    /\ providers' = [providers EXCEPT ![p] =
         [status |-> "active", manual_disabled |-> FALSE, cooldown_until |-> None]]
    /\ created' = created \cup {p}
    /\ UNCHANGED <<circuits, events, grants, cacheVars, maintainVars, envVars>>

\* update_provider: rename, enable or disable, refresh the credential, reload.
\* The row was there when the handler looked, and may have been deleted since.
UpdateProvider(t, p, enabled, refresh) ==
    /\ p \in created
    /\ Start(t, p, IF refresh THEN "refresh" ELSE "fetch", 1)
    /\ IF enabled \in BOOLEAN
       THEN UpdateRow(p, Enabled(providers[p], enabled))
       ELSE UNCHANGED <<providers, circuits>>
    /\ UNCHANGED <<events, grants, created, cacheVars, maintainVars, envVars>>

\* refresh_provider got new tokens and stored them; it reloads on its own.  When
\* the grant fails or the credential changed meanwhile, the `?` of
\* update_provider leaves without reloading: that is an Abort.
RefreshProvider(t) ==
    /\ pc[t] = "refresh"
    /\ providers[on[t]] # None
    /\ UpdateRow(on[t], Restored(providers[on[t]]))
    /\ pc' = [pc EXCEPT ![t] = "fetch"]
    /\ reloads' = [reloads EXCEPT ![t] = 2]
    /\ UNCHANGED <<on, seen, seen_grants, update, events, grants, created, cacheVars,
                   maintainVars, envVars>>

ReplaceProviderTokenValues(t, p) ==
    /\ providers[p] # None
    /\ Start(t, p, "fetch", 1)
    /\ UpdateRow(p, Restored(providers[p]))
    /\ UNCHANGED <<events, grants, created, cacheVars, maintainVars, envVars>>

GrantsOf(p) == {p} \X Users

\* The circuit events and the grants go with the row (ON DELETE CASCADE).
DeleteProvider(t, p) ==
    /\ providers[p] # None
    /\ Start(t, p, "forget_load", 1)
    /\ providers' = [providers EXCEPT ![p] = None]
    /\ circuits' = [circuits EXCEPT ![p] = None]
    /\ events' = [events EXCEPT ![p] = {}]
    /\ grants' = grants \ GrantsOf(p)
    /\ UNCHANGED <<created, cacheVars, maintainVars, envVars>>

CreateProviderGrant(t, p, u) ==
    /\ providers[p] # None
    /\ <<p, u>> \notin grants
    /\ Start(t, p, "fetch", 1)
    /\ grants' = grants \cup {<<p, u>>}
    /\ UNCHANGED <<providers, circuits, events, created, cacheVars, maintainVars, envVars>>

DeleteProviderGrant(t, p, u) ==
    /\ <<p, u>> \in grants
    /\ Start(t, p, "fetch", 1)
    /\ grants' = grants \ {<<p, u>>}
    /\ UNCHANGED <<providers, circuits, events, created, cacheVars, maintainVars, envVars>>

\* refresh_if_needed of a request on p.  Neither statement looks at
\* manual_disabled or touches cooldown_until.
Refreshed(row) == [row EXCEPT !.status = "active"]
RefreshFailed(row) == [row EXCEPT !.status = "auth_error"]

RefreshIfNeeded(t, p, ok) ==
    /\ providers[p] # None
    /\ Start(t, p, "fetch", 1)
    /\ UpdateRow(p, IF ok THEN Refreshed(providers[p]) ELSE RefreshFailed(providers[p]))
    /\ UNCHANGED <<events, grants, created, cacheVars, maintainVars, envVars>>

-----------------------------------------------------------------------------
(* Balancer::reload_providers                                              *)

FetchProviders(t) ==
    /\ pc[t] = "fetch"
    /\ pc' = [pc EXCEPT ![t] = "fetch_grants"]
    /\ seen' = [seen EXCEPT ![t] = providers]
    /\ UNCHANGED <<on, seen_grants, update, reloads, dbVars, cacheVars,
                   maintainVars, envVars>>

FetchGrants(t) ==
    /\ pc[t] = "fetch_grants"
    /\ pc' = [pc EXCEPT ![t] = "store"]
    /\ seen_grants' = [seen_grants EXCEPT ![t] = grants]
    /\ UNCHANGED <<on, seen, update, reloads, dbVars, cacheVars, maintainVars, envVars>>

StoreProviders(t) ==
    /\ pc[t] = "store"
    /\ StoreSeen(t, "store_grants")
    /\ listed' = listed \cup {p \in Providers : seen[t][p] # None}
    /\ UNCHANGED <<on, seen_grants, update, reloads, snapshot_grants,
                   provider_updates, dbVars, maintainVars, now, circuit_ids>>

StoreGrants(t) ==
    /\ pc[t] = "store_grants"
    /\ snapshot_grants' = seen_grants[t]
    /\ IF reloads[t] > 1
       THEN /\ pc' = [pc EXCEPT ![t] = "fetch"]
            /\ reloads' = [reloads EXCEPT ![t] = @ - 1]
            /\ seen_grants' = [seen_grants EXCEPT ![t] = {}]
            /\ UNCHANGED <<on, seen, update>>
       ELSE Finish(t)
    /\ UNCHANGED <<snapshot, provider_updates, dbVars, maintainVars, envVars>>

\* A handler ends while it waits: its client went away or a call failed.
Abort(t) ==
    /\ pc[t] \in {"refresh", "forget_load", "fetch", "fetch_grants"}
    /\ Finish(t)
    /\ UNCHANGED <<dbVars, cacheVars, maintainVars, envVars>>

-----------------------------------------------------------------------------
(* Balancer::forget_provider, after the row is gone                        *)

ForgetLoad(t) ==
    /\ pc[t] = "forget_load"
    /\ pc' = [pc EXCEPT ![t] = "forget_store"]
    /\ seen' = [seen EXCEPT ![t] = [snapshot EXCEPT ![on[t]] = None]]
    /\ UNCHANGED <<on, seen_grants, update, reloads, dbVars, cacheVars,
                   maintainVars, envVars>>

ForgetStore(t) ==
    /\ pc[t] = "forget_store"
    /\ StoreSeen(t, "forget_updates")
    /\ UNCHANGED <<on, seen_grants, update, reloads, snapshot_grants,
                   provider_updates, dbVars, maintainVars, envVars>>

\* provider_updates.remove and the load of the grants, which nothing relates.
ForgetUpdates(t) ==
    /\ pc[t] = "forget_updates"
    /\ pc' = [pc EXCEPT ![t] = "forget_grants"]
    /\ provider_updates' = [provider_updates EXCEPT ![on[t]] = None]
    /\ seen_grants' = [seen_grants EXCEPT ![t] = snapshot_grants \ GrantsOf(on[t])]
    /\ UNCHANGED <<on, seen, update, reloads, snapshot, snapshot_grants, dbVars,
                   maintainVars, envVars>>

ForgetGrants(t) ==
    /\ pc[t] = "forget_grants"
    /\ pc' = [pc EXCEPT ![t] = "fetch"]
    /\ snapshot_grants' = seen_grants[t]
    /\ seen_grants' = [seen_grants EXCEPT ![t] = {}]
    /\ UNCHANGED <<on, seen, update, reloads, snapshot, provider_updates, dbVars,
                   maintainVars, envVars>>

-----------------------------------------------------------------------------
(* track_response and Balancer::observe                                    *)

\* What track_response makes of an upstream's answer.
Answered(detail) ==
    [status |-> None, cooldown_until |-> None, circuit |-> None, detail |-> detail]

AuthFailed(detail) ==
    [status |-> "auth_error", cooldown_until |-> None, circuit |-> None,
     detail |-> detail]

UsageLimited(until, detail) ==
    [status |-> "cooldown", cooldown_until |-> until, circuit |-> circuit_ids,
     detail |-> detail]

\* usage_limit_cooldown only answers a time in the future.
Resets == now + 1 .. MaxTime

\* observe's change of the provider in the list it has cloned.
ObservedRow_StatusOnly(row, u) ==
    IF row = None \/ u.status = None THEN row
    ELSE IF row.manual_disabled THEN row ELSE [row EXCEPT !.status = u.status]

ObservedRow(row, u) ==
    IF row = None \/ u.status = None THEN row
    ELSE IF row.manual_disabled THEN row
    ELSE [row EXCEPT !.status = u.status, !.cooldown_until = u.cooldown_until]

\* ProviderUpdate::merge into what is pending, or or_insert.
Merge(current, next) ==
    IF current = None THEN next
    ELSE IF next.status = None THEN [current EXCEPT !.detail = next.detail]
    ELSE next

\* A request may have chosen p from the snapshot any time ago, so p may be deleted
\* by now.
ObserveLoad(t, p, u) ==
    /\ pc[t] = "idle"
    /\ p \in listed
    /\ pc' = [pc EXCEPT ![t] = "observe_store"]
    /\ on' = [on EXCEPT ![t] = p]
    /\ seen' = [seen EXCEPT ![t] = [snapshot EXCEPT ![p] = ObservedRow(@, u)]]
    /\ update' = [update EXCEPT ![t] = u]
    /\ UNCHANGED <<seen_grants, reloads>>

TrackResponse(t, p, detail) ==
    /\ \/ ObserveLoad(t, p, Answered(detail)) /\ UNCHANGED circuit_ids
       \/ ObserveLoad(t, p, AuthFailed(detail)) /\ UNCHANGED circuit_ids
       \/ /\ circuit_ids < MaxCircuits
          /\ \E until \in Resets : ObserveLoad(t, p, UsageLimited(until, detail))
          /\ circuit_ids' = circuit_ids + 1
    /\ UNCHANGED <<dbVars, cacheVars, maintainVars, now, listed>>

ObserveStore(t) ==
    /\ pc[t] = "observe_store"
    /\ StoreSeen(t, "observe_merge")
    /\ UNCHANGED <<on, seen_grants, update, reloads, snapshot_grants,
                   provider_updates, dbVars, maintainVars, envVars>>

ObserveMerge(t) ==
    /\ pc[t] = "observe_merge"
    /\ provider_updates' =
         [provider_updates EXCEPT ![on[t]] = Merge(@, update[t])]
    /\ Finish(t)
    /\ UNCHANGED <<snapshot, snapshot_grants, dbVars, maintainVars, envVars>>

-----------------------------------------------------------------------------
(* Balancer::maintain, once a second                                       *)

MaintainBegin ==
    /\ mpc = "idle"
    /\ mpc' = "commit"
    /\ mnow' = now
    /\ flushed' = provider_updates
    /\ UNCHANGED <<removing, mseen, dbVars, cacheVars, taskVars, envVars>>

\* INSERT INTO provider_circuit_events ... SELECT ... WHERE EXISTS, of an update
\* that opens a circuit: a provider that is not manually disabled gets an event of
\* its own unless it has an open one.
InsertsEvent(row, u, circuit) ==
    /\ row # None /\ u # None
    /\ ~ row.manual_disabled
    /\ u.circuit # None
    /\ circuit = None

\* ON CONFLICT resolves only the index of open events.  A second insert of the id
\* of a closed event violates the PRIMARY KEY, and with it fails the transaction.
Replays(p, u) ==
    InsertsEvent(providers[p], u, circuits[p]) /\ u.circuit \in events[p]

\* ... DO UPDATE SET cooldown_until=MAX(...)
OpenedCircuit_LastWins(row, u, circuit) ==
    IF row = None \/ u.circuit = None THEN circuit
    ELSE IF row.manual_disabled THEN circuit ELSE u.cooldown_until

OpenedCircuit_Always(row, u, circuit) ==
    IF row = None \/ u.circuit = None THEN circuit ELSE u.cooldown_until

OpenedCircuit(row, u, circuit) ==
    IF row = None \/ u.circuit = None THEN circuit
    ELSE IF row.manual_disabled THEN circuit
    ELSE IF circuit = None THEN u.cooldown_until
    ELSE IF circuit > u.cooldown_until THEN circuit ELSE u.cooldown_until

\* UPDATE providers SET status=CASE ... of a pending update
FlushedRow(row, u) ==
    IF row = None THEN None
    ELSE IF row.manual_disabled
    THEN [row EXCEPT !.status = "disabled", !.cooldown_until = None]
    ELSE IF u.status = None THEN row
    ELSE [row EXCEPT !.status = u.status, !.cooldown_until = u.cooldown_until]

Expired(row, time) ==
    /\ row # None
    /\ ~ row.manual_disabled
    /\ row.status = "cooldown"
    /\ row.cooldown_until # None
    /\ row.cooldown_until <= time

\* The recovery UPDATE, and recover_cached_providers on the snapshot.
Recovered_KeepsStatus(row, time) == row
Recovered(row, time) ==
    IF Expired(row, time)
    THEN [row EXCEPT !.status = "active", !.cooldown_until = None]
    ELSE row

\* One provider's row and open circuit through the statements of the transaction.
Maintained(p) ==
    LET row     == providers[p]
        u       == flushed[p]
        opened  == IF u = None THEN circuits[p] ELSE OpenedCircuit(row, u, circuits[p])
        written == IF u = None THEN row ELSE FlushedRow(row, u)
        final   == Recovered(written, mnow)
    IN [row |-> final,
        circuit |-> IF row = None THEN opened
                    ELSE CircuitAfter(written, final, CircuitAfter(row, written, opened))]

EventsAfter(p) ==
    IF InsertsEvent(providers[p], flushed[p], circuits[p])
    THEN events[p] \cup {flushed[p].circuit} ELSE events[p]

MaintainCommit ==
    /\ mpc = "commit"
    /\ \A p \in Providers : ~ Replays(p, flushed[p])
    /\ mpc' = "check"
    /\ providers' = [p \in Providers |-> Maintained(p).row]
    /\ circuits' = [p \in Providers |-> Maintained(p).circuit]
    /\ events' = [p \in Providers |-> EventsAfter(p)]
    /\ UNCHANGED <<grants, created, flushed, removing, mnow, mseen, cacheVars,
                   taskVars, envVars>>

\* The transaction failed, for its own statements or any other reason; the updates
\* are still pending and are taken next time.
MaintainFail ==
    /\ mpc = "commit"
    /\ mpc' = "idle"
    /\ flushed' = NoRows
    /\ mnow' = 0
    /\ UNCHANGED <<removing, mseen, dbVars, cacheVars, taskVars, envVars>>

\* get(&id).is_some_and(|current| *current == update) releases the entry ...
MaintainCheck(p) ==
    /\ mpc = "check"
    /\ removing = None
    /\ flushed[p] # None
    /\ IF provider_updates[p] = flushed[p]
       THEN removing' = p /\ UNCHANGED flushed
       ELSE flushed' = [flushed EXCEPT ![p] = None] /\ UNCHANGED removing
    /\ UNCHANGED <<mpc, mnow, mseen, dbVars, cacheVars, taskVars, envVars>>

\* ... before remove(&id) takes whatever is there by now.
MaintainRemove ==
    /\ removing # None
    /\ provider_updates' = [provider_updates EXCEPT ![removing] = None]
    /\ flushed' = [flushed EXCEPT ![removing] = None]
    /\ removing' = None
    /\ UNCHANGED <<mpc, mnow, mseen, snapshot, snapshot_grants, dbVars, taskVars, envVars>>

RecoverLoad ==
    /\ mpc = "check"
    /\ removing = None
    /\ flushed = NoRows
    /\ mpc' = "recover"
    /\ mseen' = [p \in Providers |-> Recovered(snapshot[p], mnow)]
    /\ UNCHANGED <<flushed, removing, mnow, dbVars, cacheVars, taskVars, envVars>>

RecoverStore ==
    /\ mpc = "recover"
    /\ mpc' = "idle"
    /\ snapshot' = mseen
    /\ mseen' = NoRows
    /\ mnow' = 0
    /\ UNCHANGED <<flushed, removing, snapshot_grants, provider_updates, dbVars,
                   taskVars, envVars>>

Tick ==
    /\ now < MaxTime
    /\ now' = now + 1
    /\ UNCHANGED <<dbVars, cacheVars, taskVars, maintainVars, circuit_ids, listed>>

-----------------------------------------------------------------------------
HandlerNext(t) ==
    \/ \E p \in Providers :
         \/ InsertProvider(t, p)
         \/ \E enabled \in BOOLEAN \cup {None}, refresh \in BOOLEAN :
              UpdateProvider(t, p, enabled, refresh)
         \/ ReplaceProviderTokenValues(t, p)
         \/ DeleteProvider(t, p)
         \/ \E u \in Users : CreateProviderGrant(t, p, u) \/ DeleteProviderGrant(t, p, u)
         \/ \E ok \in BOOLEAN : RefreshIfNeeded(t, p, ok)
         \/ \E detail \in Details : TrackResponse(t, p, detail)
    \/ RefreshProvider(t)
    \/ FetchProviders(t) \/ FetchGrants(t) \/ StoreProviders(t) \/ StoreGrants(t)
    \/ ForgetLoad(t) \/ ForgetStore(t) \/ ForgetUpdates(t) \/ ForgetGrants(t)
    \/ ObserveStore(t) \/ ObserveMerge(t)
    \/ Abort(t)

MaintainNext ==
    \/ MaintainBegin \/ MaintainCommit \/ MaintainFail
    \/ \E p \in Providers : MaintainCheck(p)
    \/ MaintainRemove \/ RecoverLoad \/ RecoverStore

Next == (\E t \in Tasks : HandlerNext(t)) \/ MaintainNext \/ Tick

Spec == Init /\ [][Next]_vars

(***************************************************************************)
(* The maintenance task is scheduled every second, a transaction whose     *)
(* statements are in order is not refused forever, and time passes.        *)
(* Nothing is said of a transaction that replays a circuit: MaintainCommit *)
(* is not enabled then.                                                    *)
(***************************************************************************)
Fairness == WF_vars(MaintainNext) /\ SF_vars(MaintainCommit) /\ WF_vars(Tick)

FairSpec == Spec /\ Fairness
-----------------------------------------------------------------------------
Rows == [Providers -> Provider \cup {None}]
Updates == [Providers -> ProviderUpdate \cup {None}]

DbTypes ==
    /\ providers \in Rows
    /\ circuits \in [Providers -> Nat \cup {None}]
    /\ events \in [Providers -> SUBSET Nat]
    /\ grants \subseteq Providers \X Users
    /\ created \subseteq Providers
    /\ \A p \in Providers : providers[p] # None => p \in created

CacheTypes ==
    /\ snapshot \in Rows
    /\ snapshot_grants \subseteq Providers \X Users
    /\ provider_updates \in Updates

TaskTypes ==
    /\ pc \in [Tasks -> PCs]
    /\ on \in [Tasks -> Providers \cup {None}]
    /\ seen \in [Tasks -> Rows]
    /\ seen_grants \in [Tasks -> SUBSET (Providers \X Users)]
    /\ update \in [Tasks -> ProviderUpdate \cup {None}]
    /\ reloads \in [Tasks -> 0 .. 2]
    /\ \A t \in Tasks : pc[t] # "idle" => on[t] # None
    /\ \A t \in Tasks : pc[t] \in {"observe_store", "observe_merge"} => update[t] # None

MaintainTypes ==
    /\ mpc \in {"idle", "commit", "check", "recover"}
    /\ flushed \in Updates
    /\ removing \in Providers \cup {None}
    /\ mnow \in Nat
    /\ mseen \in Rows

\* The types of all variables; a task that is not idle works on a provider, and a
\* row has an id that was handed out.
TypeOK ==
    /\ DbTypes
    /\ CacheTypes
    /\ TaskTypes
    /\ MaintainTypes
    /\ now \in Nat
    /\ circuit_ids \in Nat
    /\ listed \subseteq Providers

(***************************************************************************)
(* The circuit event table tells the truth about the providers table: an   *)
(* event is open exactly while its provider is in cooldown, and does not   *)
(* promise an earlier end.  The insert of maintain, its two updates, the   *)
(* trigger and the statements of all handlers have to agree on it.         *)
(***************************************************************************)
OpenCircuitIffCooldown ==
    \A p \in Providers :
        /\ circuits[p] # None <=> providers[p] # None /\ providers[p].status = "cooldown"
        /\ circuits[p] # None => circuits[p] >= providers[p].cooldown_until

CooldownHasEnd(row) == row # None /\ row.status = "cooldown" => row.cooldown_until # None

(***************************************************************************)
(* No copy of a provider is in a cooldown without an end: neither the row, *)
(* nor the snapshot, nor a list about to be stored.  Such a provider would *)
(* be neither available nor ever recovered.                                *)
(***************************************************************************)
CooldownsEnd ==
    \A p \in Providers :
        /\ CooldownHasEnd(providers[p])
        /\ CooldownHasEnd(snapshot[p])
        /\ CooldownHasEnd(mseen[p])
        /\ \A t \in Tasks : CooldownHasEnd(seen[t][p])

\* A pending update opens a circuit exactly when it starts a cooldown.
CoherentUpdate(u) ==
    u # None => /\ u.circuit # None <=> u.status = "cooldown"
                /\ u.status = "cooldown" => u.cooldown_until # None

UpdatesCoherent ==
    /\ \A p \in Providers : CoherentUpdate(provider_updates[p]) /\ CoherentUpdate(flushed[p])
    /\ \A t \in Tasks : CoherentUpdate(update[t])

(***************************************************************************)
(* While a circuit event stays open its end only moves away: a later 429   *)
(* with a shorter reset does not rewrite what was recorded.                *)
(***************************************************************************)
CircuitsOnlyExtend ==
    [][\A p \in Providers :
         circuits[p] # None /\ circuits'[p] # None => circuits'[p] >= circuits[p]]_vars

\* What waits to be written would open an event whose id is used up.
ReplayPending == \E p \in Providers : Replays(p, provider_updates[p])

(***************************************************************************)
(* Every circuit is closed: a cooldown that was written is ended by the    *)
(* maintenance task once its time has come, although transactions fail,    *)
(* further limits arrive and providers are edited or deleted on the way.   *)
(* The one exception is what the code does not get out of on its own: an   *)
(* update that stays pending with the id of a closed event, of this or of  *)
(* another provider, fails the transaction of all of them.                 *)
(***************************************************************************)
CircuitsClose ==
    <>[] ~ ReplayPending => \A p \in Providers : circuits[p] # None ~> circuits[p] = None

\* provider_is_available
Available(row, time) ==
    /\ row # None
    /\ ~ row.manual_disabled
    /\ \/ row.status = "active"
       \/ row.status = "cooldown" /\ row.cooldown_until # None /\ row.cooldown_until <= time

(***************************************************************************)
(* README: a provider that answered 429 is cooled down automatically and   *)
(* recovers when the time has come.  At the least, what is observed of one *)
(* provider does not end the cooldown of another: when observe stores its  *)
(* list, no other provider that is cooling down in the snapshot becomes    *)
(* available before its time.                                              *)
(***************************************************************************)
CooldownRespected ==
    [][\A t \in Tasks :
         pc[t] = "observe_store" /\ pc'[t] = "observe_merge" =>
             \A p \in Providers \ {on[t]} :
                 /\ snapshot[p] # None /\ snapshot[p].status = "cooldown"
                 /\ ~ Available(snapshot[p], now')
                 => ~ Available(snapshot'[p], now')]_vars

(***************************************************************************)
(* README: after a grant is revoked the snapshot is reloaded and new       *)
(* requests stop using the provider: with no handler at work, nobody is    *)
(* routed by a grant that is not in the table.                             *)
(***************************************************************************)
RevokedGrantsGone ==
    (\A t \in Tasks : pc[t] = "idle") =>
        \A p \in Providers, u \in Users :
            providers[p] # None /\ <<p, u>> \in snapshot_grants => <<p, u>> \in grants
=============================================================================
