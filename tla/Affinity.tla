------------------------------ MODULE Affinity ------------------------------
(***************************************************************************)
(* Session affinity: which provider the requests of a session go to.       *)
(* Balancer keeps the map in memory, with the set of keys that are not     *)
(* written yet; the maintenance task writes these to the table affinities  *)
(* once a second, and a restart reads the table.                           *)
(*                                                                         *)
(* Three actors work on the two concurrent maps without a common lock, so  *)
(* each access is a step: requests (select), the deletion of a provider    *)
(* (forget_provider) and the maintenance task (maintain).                  *)
(*                                                                         *)
(* Abstractions: which providers are available to a request is left open   *)
(* (ProviderStore), as is whether what is pending for the circuits of      *)
(* providers, which the same transaction writes, makes it fail; the clock  *)
(* is a small integer, and the maintenance task collects the marked        *)
(* entries in one step.                                                    *)
(***************************************************************************)
EXTENDS Integers, FiniteSets

CONSTANTS
    Tasks,         \* handlers at work at the same time
    Sessions,      \* hashes of affinity keys
    Providers,     \* providers that exist at the start
    TTL,           \* affinity_ttl_seconds
    MaxTime,       \* bound of the model: the last instant
    MaxRestarts,   \* bound of the model: restarts of the process
    None

ASSUME AffinityAssumption ==
    /\ TTL \in Nat \ {0}
    /\ MaxTime \in Nat
    /\ MaxRestarts \in Nat
    /\ None \notin Providers \cup Sessions

Entry == [provider_id : Providers, expires_at : Nat, updated_at : Nat]

ASSUME EntryAssumption == None \notin Entry

VARIABLES
    providers,    \* table providers
    table,        \* table affinities
    snapshot,     \* Balancer.providers
    affinities,   \* Balancer.affinities
    dirty,        \* Balancer.dirty_affinities
    pc,           \* where each handler is
    session,      \* the session a handler works on
    entry,        \* the entry a request is about to insert
    provider,     \* the provider a handler deletes
    hashes,       \* the keys it has still to visit
    mpc,          \* where the maintenance task is
    mnow,         \* its clock
    batch,        \* the entries it has collected
    written,      \* the keys it has written to the table
    todo,         \* the keys it has still to compare
    mkey,         \* the key it is at
    replaying,    \* the updates of providers it has collected replay a
                  \* circuit event
    time,
    restarts,
    unmarked      \* history: keys whose mark was taken by the maintenance
                  \* task from an entry it has not written, or whose row has
                  \* gone with its provider since

memory == <<snapshot, affinities, dirty>>
database == <<providers, table>>
handlers == <<pc, session, entry, provider, hashes>>
maintenance == <<mpc, mnow, batch, written, todo, mkey, replaying>>
vars == <<memory, database, handlers, maintenance, time, restarts, unmarked>>

NoEntries == [h \in Sessions |-> None]

Init ==
    /\ providers = Providers
    /\ table = NoEntries
    /\ snapshot = Providers
    /\ affinities = NoEntries
    /\ dirty = {}
    /\ pc = [t \in Tasks |-> "idle"]
    /\ session = [t \in Tasks |-> None]
    /\ entry = [t \in Tasks |-> None]
    /\ provider = [t \in Tasks |-> None]
    /\ hashes = [t \in Tasks |-> {}]
    /\ mpc = "idle"
    /\ mnow = 0
    /\ batch = NoEntries
    /\ written = {}
    /\ todo = {}
    /\ mkey = None
    /\ time = 0
    /\ restarts = 0
    /\ replaying = FALSE
    /\ unmarked = {}

Goto(t, label) == pc' = [pc EXCEPT ![t] = label]

-----------------------------------------------------------------------------
(***************************************************************************)
(* A request: Balancer::select with a key.                                 *)
(***************************************************************************)
\* affinity_provider: the remembered provider, if it is still eligible.
Remembered(h, eligible) ==
    /\ affinities[h] # None
    /\ affinities[h].expires_at > time
    /\ affinities[h].provider_id \in eligible

\* ... or else the one with the fewest calls, here any.
Chosen(h, eligible, p) ==
    IF Remembered(h, eligible) THEN affinities[h].provider_id ELSE p

\* Choose and prepare the new entry.
Select(t, h, eligible, p) ==
    /\ pc[t] = "idle"
    /\ p \in eligible
    /\ session' = [session EXCEPT ![t] = h]
    /\ entry' = [entry EXCEPT ![t] =
                    [provider_id |-> Chosen(h, eligible, p), expires_at |-> time + TTL, updated_at |-> time]]
    /\ Goto(t, "insert")
    /\ UNCHANGED <<memory, database, provider, hashes, maintenance, time, restarts, unmarked>>

\* remember_affinity, first half.
Insert(t) ==
    /\ pc[t] = "insert"
    /\ affinities' = [affinities EXCEPT ![session[t]] = entry[t]]
    /\ Goto(t, "mark")
    /\ UNCHANGED <<snapshot, dirty, database, session, entry, provider, hashes, maintenance,
                   time, restarts, unmarked>>

\* remember_affinity, second half.
Mark(t) ==
    /\ pc[t] = "mark"
    /\ dirty' = dirty \cup {session[t]}
    /\ unmarked' = unmarked \ {session[t]}
    /\ session' = [session EXCEPT ![t] = None]
    /\ entry' = [entry EXCEPT ![t] = None]
    /\ Goto(t, "idle")
    /\ UNCHANGED <<snapshot, affinities, database, provider, hashes, maintenance, time, restarts>>

-----------------------------------------------------------------------------
(***************************************************************************)
(* A deletion: the row and, by ON DELETE CASCADE, its affinities; then     *)
(* Balancer::forget_provider.  A handler that is dropped with the client   *)
(* after its statement never gets to forget_provider.                      *)
(***************************************************************************)
DeleteProvider(t, p) ==
    /\ pc[t] = "idle"
    /\ p \in providers
    /\ providers' = providers \ {p}
    /\ table' = [h \in Sessions |->
                    IF table[h] # None /\ table[h].provider_id = p THEN None ELSE table[h]]
    /\ provider' = [provider EXCEPT ![t] = p]
    /\ Goto(t, "forget")
    /\ UNCHANGED <<memory, session, entry, hashes, maintenance, time, restarts, unmarked>>

Drop(t) ==
    /\ pc[t] = "forget"
    /\ provider' = [provider EXCEPT ![t] = None]
    /\ Goto(t, "idle")
    /\ UNCHANGED <<memory, database, session, entry, hashes, maintenance, time, restarts, unmarked>>

\* The list, and the keys whose entries name the provider.
ForgetCollect(t) ==
    /\ pc[t] = "forget"
    /\ snapshot' = snapshot \ {provider[t]}
    /\ hashes' = [hashes EXCEPT ![t] =
                    {h \in Sessions : affinities[h] # None /\ affinities[h].provider_id = provider[t]}]
    /\ Goto(t, "remove")
    /\ UNCHANGED <<affinities, dirty, database, session, entry, provider, maintenance, time,
                   restarts, unmarked>>

\* remove_if: still an entry of that provider?
RemovedIf(h, p) == affinities[h] # None /\ affinities[h].provider_id = p

ForgetRemove(t) ==
    /\ pc[t] = "remove"
    /\ \E h \in hashes[t] :
        /\ hashes' = [hashes EXCEPT ![t] = @ \ {h}]
        /\ IF RemovedIf(h, provider[t])
           THEN /\ affinities' = [affinities EXCEPT ![h] = None]
                /\ session' = [session EXCEPT ![t] = h]
                /\ Goto(t, "unmark")
           ELSE UNCHANGED <<affinities, session, pc>>
    /\ UNCHANGED <<snapshot, dirty, database, entry, provider, maintenance, time, restarts, unmarked>>

ForgetUnmark(t) ==
    /\ pc[t] = "unmark"
    /\ dirty' = dirty \ {session[t]}
    /\ Goto(t, "remark")
    /\ UNCHANGED <<snapshot, affinities, database, session, entry, provider, hashes, maintenance,
                   time, restarts, unmarked>>

Remarked_Never(h) == dirty

\* The mark of an entry that came in between is put back.
Remarked(h) == IF affinities[h] # None THEN dirty \cup {h} ELSE dirty

ForgetRemark(t) ==
    /\ pc[t] = "remark"
    /\ dirty' = Remarked(session[t])
    /\ session' = [session EXCEPT ![t] = None]
    /\ Goto(t, "remove")
    /\ UNCHANGED <<snapshot, affinities, database, entry, provider, hashes, maintenance, time,
                   restarts, unmarked>>

ForgetDone(t) ==
    /\ pc[t] = "remove"
    /\ hashes[t] = {}
    /\ provider' = [provider EXCEPT ![t] = None]
    /\ Goto(t, "idle")
    /\ UNCHANGED <<memory, database, session, entry, hashes, maintenance, time, restarts, unmarked>>

-----------------------------------------------------------------------------
(***************************************************************************)
(* The maintenance task.                                                   *)
(***************************************************************************)
MaintainCollect ==
    /\ mpc = "idle"
    /\ mnow' = time
    /\ batch' = [h \in Sessions |-> IF h \in dirty THEN affinities[h] ELSE None]
    /\ replaying' \in BOOLEAN
    /\ mpc' = "commit"
    /\ UNCHANGED <<memory, database, handlers, written, todo, mkey, time, restarts, unmarked>>

Written_Unchecked == {h \in Sessions : batch[h] # None}

\* INSERT ... SELECT ... FROM providers WHERE id=?: no row for a provider
\* that is gone.
Written == {h \in Sessions : batch[h] # None /\ batch[h].provider_id \in providers}

\* The transaction, which must meet the foreign key on providers; expired
\* rows are deleted in it.  The circuit events are inserted in it first
\* (ProviderStore!Replays).
MaintainCommit ==
    /\ mpc = "commit"
    /\ ~ replaying
    /\ \A h \in Written : batch[h].provider_id \in providers
    /\ written' = Written
    /\ table' = [h \in Sessions |->
                    LET row == IF h \in Written THEN batch[h] ELSE table[h]
                    IN  IF row # None /\ row.expires_at <= mnow THEN None ELSE row]
    /\ todo' = {h \in Sessions : batch[h] # None}
    /\ mpc' = "compare"
    /\ UNCHANGED <<memory, providers, handlers, mnow, batch, mkey, replaying,
                   time, restarts, unmarked>>

\* The transaction fails and everything is left to the next run.
MaintainFail ==
    /\ mpc = "commit"
    /\ batch' = NoEntries
    /\ replaying' = FALSE
    /\ mnow' = 0
    /\ mpc' = "idle"
    /\ UNCHANGED <<memory, database, handlers, written, todo, mkey, time, restarts, unmarked>>

\* The next key: only if its entry is the one that was collected is it
\* removed (when it could not be written) and its mark taken.
MaintainCompare(h) ==
    /\ mpc = "compare"
    /\ h \in todo
    /\ todo' = todo \ {h}
    /\ IF affinities[h] = batch[h]
       THEN /\ mkey' = h
            /\ mpc' = IF h \in written THEN "unmark" ELSE "remove"
       ELSE UNCHANGED <<mkey, mpc>>
    /\ UNCHANGED <<memory, database, handlers, mnow, batch, written, replaying,
                   time, restarts, unmarked>>

AfterRemoveIf_Always(h) == [affinities EXCEPT ![h] = None]

\* remove_if: another entry may have come since the comparison.
AfterRemoveIf(h) == [affinities EXCEPT ![h] = IF @ = batch[h] THEN None ELSE @]

MaintainRemove ==
    /\ mpc = "remove"
    /\ affinities' = AfterRemoveIf(mkey)
    /\ mpc' = "unmark"
    /\ UNCHANGED <<snapshot, dirty, database, handlers, mnow, batch, written, todo, mkey,
                   replaying, time, restarts, unmarked>>

\* The mark is taken whatever the entry is by now; only the mark of a key
\* that could not be written is looked after.
MaintainUnmark ==
    /\ mpc = "unmark"
    /\ dirty' = dirty \ {mkey}
    /\ unmarked' = IF /\ mkey \in written
                      /\ \/ affinities[mkey] # batch[mkey]
                         \/ batch[mkey].provider_id \notin providers
                   THEN unmarked \cup {mkey}
                   ELSE unmarked
    /\ IF mkey \in written
       THEN mpc' = "compare" /\ mkey' = None
       ELSE mpc' = "remark" /\ mkey' = mkey
    /\ UNCHANGED <<snapshot, affinities, database, handlers, mnow, batch, written, todo,
                   replaying, time, restarts>>

MaintainRemark ==
    /\ mpc = "remark"
    /\ dirty' = Remarked(mkey)
    /\ mkey' = None
    /\ mpc' = "compare"
    /\ UNCHANGED <<snapshot, affinities, database, handlers, mnow, batch, written, todo,
                   replaying, time, restarts, unmarked>>

\* Expired entries are dropped from the map.
MaintainRetain ==
    /\ mpc = "compare"
    /\ todo = {}
    /\ affinities' = [h \in Sessions |->
                        IF affinities[h] # None /\ affinities[h].expires_at <= mnow
                        THEN None ELSE affinities[h]]
    /\ batch' = NoEntries
    /\ written' = {}
    /\ mnow' = 0
    /\ mpc' = "idle"
    /\ UNCHANGED <<snapshot, dirty, database, handlers, todo, mkey, replaying, time, restarts,
                   unmarked>>

Maintain ==
    \/ MaintainCollect
    \/ MaintainCommit
    \/ MaintainFail
    \/ \E h \in Sessions : MaintainCompare(h)
    \/ MaintainRemove
    \/ MaintainUnmark
    \/ MaintainRemark
    \/ MaintainRetain

-----------------------------------------------------------------------------
\* The process ends and starts again: Balancer::hydrate.
Restart ==
    /\ restarts < MaxRestarts
    /\ restarts' = restarts + 1
    /\ snapshot' = providers
    /\ affinities' = [h \in Sessions |->
                        IF table[h] # None /\ table[h].expires_at > time THEN table[h] ELSE None]
    /\ dirty' = {}
    /\ pc' = [t \in Tasks |-> "idle"]
    /\ session' = [t \in Tasks |-> None]
    /\ entry' = [t \in Tasks |-> None]
    /\ provider' = [t \in Tasks |-> None]
    /\ hashes' = [t \in Tasks |-> {}]
    /\ mpc' = "idle"
    /\ mnow' = 0
    /\ batch' = NoEntries
    /\ written' = {}
    /\ todo' = {}
    /\ mkey' = None
    /\ replaying' = FALSE
    /\ unmarked' = {}
    /\ UNCHANGED <<database, time>>

Tick ==
    /\ time < MaxTime
    /\ time' = time + 1
    /\ UNCHANGED <<memory, database, handlers, maintenance, restarts, unmarked>>

\* The steps of a handler that follow each other without an await.
Continue(t) ==
    \/ Insert(t)
    \/ Mark(t)
    \/ ForgetCollect(t)
    \/ ForgetRemove(t)
    \/ ForgetUnmark(t)
    \/ ForgetRemark(t)
    \/ ForgetDone(t)

Next ==
    \/ \E t \in Tasks, h \in Sessions, eligible \in SUBSET snapshot, p \in Providers :
           Select(t, h, eligible, p)
    \/ \E t \in Tasks, p \in Providers : DeleteProvider(t, p)
    \/ \E t \in Tasks : Drop(t)
    \/ \E t \in Tasks : Continue(t)
    \/ Maintain
    \/ Restart
    \/ Tick

Spec == Init /\ [][Next]_vars

\* The task is woken every second, a transaction whose statements are in order
\* does not fail for ever, and handlers finish what needs no await.  A
\* transaction that replays a circuit event or breaks the foreign key is not
\* enabled, and time need not pass.
FairSpec ==
    /\ Spec
    /\ WF_vars(Maintain)
    /\ SF_vars(MaintainCommit)
    /\ \A t \in Tasks : WF_vars(Continue(t))

-----------------------------------------------------------------------------
\* The types of the variables.
TypeOK ==
    /\ providers \subseteq Providers
    /\ table \in [Sessions -> Entry \cup {None}]
    /\ snapshot \subseteq Providers
    /\ affinities \in [Sessions -> Entry \cup {None}]
    /\ dirty \subseteq Sessions
    /\ pc \in [Tasks -> {"idle", "insert", "mark", "forget", "remove", "unmark", "remark"}]
    /\ session \in [Tasks -> Sessions \cup {None}]
    /\ entry \in [Tasks -> Entry \cup {None}]
    /\ provider \in [Tasks -> Providers \cup {None}]
    /\ hashes \in [Tasks -> SUBSET Sessions]
    /\ mpc \in {"idle", "commit", "compare", "remove", "unmark", "remark"}
    /\ mnow \in Nat
    /\ batch \in [Sessions -> Entry \cup {None}]
    /\ written \subseteq Sessions
    /\ todo \subseteq Sessions
    /\ mkey \in Sessions \cup {None}
    /\ time \in Nat
    /\ restarts \in Nat
    /\ replaying \in BOOLEAN
    /\ unmarked \subseteq Sessions

(***************************************************************************)
(* The map as a whole: an entry changes only by a request of its own       *)
(* session, when it has expired, when its provider was deleted, or by a    *)
(* restart.  In particular neither forget_provider nor maintain, which     *)
(* both decide on an entry and remove it later, takes one that a request   *)
(* has put in its place.                                                   *)
(***************************************************************************)
AffinityKept ==
    [][\A h \in Sessions :
          affinities[h] # None /\ affinities'[h] # affinities[h] =>
              \/ \E t \in Tasks : pc[t] = "insert" /\ session[t] = h /\ pc'[t] = "mark"
              \/ affinities[h].expires_at <= time
              \/ affinities[h].provider_id \notin providers
              \/ restarts' # restarts]_vars

\* Somebody is about to mark the key.
BeingMarked(h) ==
    \/ \E t \in Tasks : session[t] = h /\ pc[t] \in {"mark", "remark"}
    \/ mkey = h /\ mpc = "remark"

(***************************************************************************)
(* dirty_affinities: an entry of an existing provider is in the table, or  *)
(* marked to be written.  The one exception is the mark that maintain      *)
(* takes from an entry that came after its comparison.                     *)
(***************************************************************************)
MarkedOrWritten ==
    \A h \in Sessions :
        affinities[h] # None /\ affinities[h].expires_at > time /\ affinities[h].provider_id \in providers
            => \/ table[h] = affinities[h]
               \/ h \in dirty \cup unmarked
               \/ BeingMarked(h)

\* The remembered provider is gone.
Stale(h) == affinities[h] # None /\ affinities[h].provider_id \notin providers

(***************************************************************************)
(* maintain: an entry of a deleted provider, put in by a request that      *)
(* chose from an older list, is taken out of the map again, and that does  *)
(* not wait for it to expire (an entry of the last instant never does).    *)
(* That is, once the list is free of deleted providers and no circuit      *)
(* event is replayed; and unless maintain itself took the entry's mark.    *)
(***************************************************************************)
DeletedForgotten ==
    <>[] (snapshot \subseteq providers /\ ~ replaying) =>
        \A h \in Sessions : Stale(h) /\ h \in dirty ~> ~ Stale(h) \/ h \in unmarked
=============================================================================
