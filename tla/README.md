# OpenAI-LB in TLA+

A verification project for OpenAI-LB, a reverse proxy and load balancer in front
of OpenAI / CodeX upstreams: one Rust process (axum and tokio), one SQLite
database, a React console. The modules here are translated from the code under
`src/src` and `src/migrations`; `PROJECT.json` names, for every definition, the
lines it stands for.

Contents: [inventory](#inventory), [modules](#modules), [runs](#runs),
[proofs](#proofs), [what the checks found](#findings), [what is not
modelled](#not-modelled), [plan](#plan).

## Inventory

### Parts, their state and their operations

| part | state | operations | code |
| --- | --- | --- | --- |
| audit pipeline | a channel of 4096 slots, a budget of 64 MiB for archives, the batch of the one writer, tables `api_calls` and `request_archives` | reserve a slot when a call begins, settle its event once, report the size of a compressed response later, write batches of up to 128 in a transaction and repeat them until they succeed, delete expired archives | `audit.rs`, `AuditTracker` and `StreamCompletion` in `proxy.rs`, `record_response_transport` in `lib.rs` |
| provider store | tables `providers`, `provider_grants`, `provider_circuit_events`; the snapshot (`Balancer.providers`, `grants`); pending observations (`provider_updates`) | create, update, refresh, replace, delete, grant, revoke; reload the snapshot; observe an answer; once a second flush observations, open and close circuit events, end cooldowns | `balancer.rs`, `api.rs`, a trigger in `migrations/20260808000025` |
| dispatch | `Balancer.inflight`, leases, spool files | select a provider, take a lease, refresh, send, retry once elsewhere, relay, drop | `proxy.rs`, `Balancer::select`, `audio_spool.rs` |
| credential refresh | `refresh_locks`, the tokens of a row | refresh on demand, refresh by an operator, replace | `refresh_if_needed`, `refresh_provider`, `replace_provider_token_values`, `oauth::refresh` |
| setup, users, settings | `app_meta`, `users`; `AuthManager.verifier`, `AppState.config` | setup, sign in, change a role or `provider_access`, change settings, load at start | `api.rs`, `auth.rs`, `config.rs` |
| session affinity | `affinities` in memory and in the database, the dirty set | look up and remember with a selection, write once a second, forget with a provider, expire, read at start | `balancer.rs` |
| OAuth flow | `oauth_flows` in memory | start, complete, expire | `oauth.rs`, `api.rs` |
| consumers | `consumers` | create, rename, archive flag, revoke, delete | `api.rs` |
| spool | the directory of audio uploads | write, open again for a retry, remove with the call, look for orphans every minute | `audio_spool.rs` |
| request and answer | the unfinished line of a stream, tokens, preview | check and rewrite a body, relay an answer whole or in chunks, count tokens, price them, collect images | `proxy.rs` |
| reports, resource monitor, console, deployment | none of their own | read | `api.rs`, `resources.rs`, `web/`, `deploy/` |

### How they interact

Every request is a task of a multi-threaded runtime. A proxied call reserves a
slot of the audit channel, is dispatched with a lease on a provider of the
snapshot, may refresh that provider's credential, and gives its answer to
`observe`, which changes the snapshot and leaves a pending update for the
maintenance task. Its event goes from the tracker (or the body of a stream) to
the channel and from there to the database. API handlers commit a statement and
then bring a copy in memory up to date: reload the snapshot, install the
verifier, store a Config. Foreign keys and a trigger tie the tables together.

### What is hard about it

* A handler ends at any await when its client goes away: between reserving and
  settling, between an exchange of tokens and storing them, between a commit and
  the copy in memory.
* Copies in memory are replaced as a whole (`ArcSwap`) by whoever finishes last,
  from what it has read some time ago.
* Writers race: observations, reloads, the maintenance task, operators, other
  setups, rotated credentials.
* Transactions fail while SQLite is busy and are repeated; rows an event refers
  to are deleted meanwhile.
* Counters (slots, budget, leases) must come back on every path.
* Two concurrent maps (affinities, dirty marks) are changed one after the other by
  requests, deletions and the maintenance task, without a common lock.
* A stream is cut anywhere and may end by an error or with the client, after its
  status went out; the tokens in it are whatever the upstream says.
* The scan for orphans does not know which files are in use and ends at its first
  error.

`PROJECT.json` lists these hazards at their lines, each with the properties that
would notice it going wrong.

### What makes each part correct

* audit: every call is settled once and recorded once, nothing is lost but by a
  full channel or a deletion, slots and budget are conserved, a transport never
  overtakes its event, the writer makes progress;
* provider store: circuit events tell the truth about cooldowns and are closed,
  a cooldown has an end and is respected, a revoked grant is gone;
* dispatch: lease counts are exact, no upstream gets a request twice, the answer
  relayed belongs to the lease held, files end before the relay;
* credentials: no refresh token is used twice, none is lost but by a loss on the
  way, an operator's tokens win;
* accounts: one root, one issuer for good, no role or setting changed by who is not
  root;
* affinity: no entry is removed in the place of another, an entry of an existing
  provider is written or marked, one of a deleted provider goes;
* spool: orphans go before the maximum, files in use stay;
* request and answer: no field of a request is replaced or lost but those the code
  means to, what is recorded is what was relayed, each token is priced once.

## Modules

A definition `D_Fault` is `D` with a plausible programming error. It is used only
to show that a property notices that error and is no part of the specification.

### AuditPipeline, AuditLedger

`AuditPipeline` has the life of a call (`Begin` with a reserved slot or a counted
loss, `SetProvider`, `TakeStream`, the ways to finish, `DropTracker`, `DropBody`),
the channel (`queue`, with `free` slots), the archive budget (in bytes, as in the
code), the writer (`Recv`, `Fill`, `StopFilling`, `PersistOk`, `PersistErr`,
`Retry`) and what happens to the tables otherwise: consumers are created, changed,
revoked and deleted, providers deleted, archives expired. A message is the
`QueuedAudit` of the code reduced to the fields that decide: consumer, provider,
status, whether it carries an archive and budget. `PersistOk` is the whole
transaction, the look-up of the provider and the response transports included; it
is enabled only when the foreign key on consumers can be met.

`AuditLedger` is the promise: the audit of a call is refused when it begins, or
opened, settled with one outcome, recorded with that outcome, and erased only with
its consumer. `AuditPipeline` implements it, with a mapping that looks at where
the event of a call is (`ImplementsLedger`).

### ProviderStore

One task at a time per handler, with a `pc` for the steps between which others
can run: the statement, the two reads and two stores of `reload_providers`, the
four steps of `forget_provider`, the load, store and merge of `observe`. The
maintenance task has its own `pc`: it clones the pending updates, commits (flush,
circuit events, recovery, with the trigger applied by `UpdateRow`), compares and
removes each update, and recovers the snapshot. Of the circuit events the end of the
open one is kept (`circuits`) and the ids of all of them (`events`): the upsert of
`maintain` resolves a conflict on the index of open events only, so an update that
carries the id of a closed event violates the PRIMARY KEY and the transaction fails
(`Replays`). `listed` is history, the providers a request may have chosen from some
snapshot. Time is a small integer that the
action `Tick` moves. An observation is reduced to an answer that is a success, an
authentication failure, or a usage limit with its reset time, and a detail that
stands for the other columns.

### Dispatch

A call selects, refreshes (with one more choice if that fails), sends, and if the
answer is retryable selects again with the first provider excluded while it still
holds the first lease and the first answer. Leases are the `inflight` counters,
with `fetch_sub` wrapping at `UsizeModulus`. Which eligible provider is taken is
left open (`least_inflight` reads counters of other threads one by one), and the
set of eligible providers changes at any time (`SnapshotChanges`), in ways
ProviderStore describes. Spool files of audio uploads are created with the call
and removed by `Ended` or when the relay begins.

### CredentialRefresh

The tokens of one provider, everybody who renews them and the token endpoint,
which is external: it exchanges a refresh token once. Each await is a step: the
lock, reading the row, the exchange (answered, lost, or refused), the conditional
UPDATE, the reload. Replacement by an operator and deletion take no lock; the tokens
an operator stores are those of a new login (`ReplaceTokens`) or any seen before,
spent ones too (`ReplaceByKnown`), which then count as `lost`. `lost`, `failed`, `login` and `installed` are history, for the properties only.

### Accounts

The tables `app_meta` and `users` with their copies in the process, the verifier
and the Config. The transaction of a setup is one action (BEGIN IMMEDIATE),
guarded by the flag it reads and by the unique index on root. Loading and storing
a Config are two actions, since other threads run between them; a handler can be
dropped at its awaits, which includes the time after its COMMIT took effect. The
initial states are those of a new database and of one of version 0.1 with users
and providers.

### Affinity

`select` (`Select`, `Insert`, `Mark`), `forget_provider` (`ForgetCollect` and, per
key, `ForgetRemove`, `ForgetUnmark`, `ForgetRemark`) and `maintain`
(`MaintainCollect` to `MaintainRetain`) with one step per access to a map, since
nothing but the map's own lock is held; the table with its foreign key, cascade and
expiry; a restart, which reads the table. The transaction is that of ProviderStore,
whose circuit events are not repeated here: `replaying`, chosen when the updates are
collected, says that one of them is replayed, and then it fails. Which providers are eligible is left to
ProviderStore, which of them is least loaded to Dispatch. `unmarked` is history: the
keys whose mark `maintain` has taken from an entry it did not write.

### AudioSpool

Files of calls, with the time since their last write, and the scan with one step for
each of `next_entry`, `metadata` and `remove_file`, so that calls can remove or
create files in between and the scan can fail on any of them. Crashes leave files
behind, failed removals too. `complete` and `paused` are history. The attempts a
file is kept for are in `Dispatch`.

### Exchange, with TokenUsage and ImageRequest

`ImageRequest` is `transform_request` with all checks of an image request, on JSON
values reduced to their type and what the code looks at; an image request becomes a
request for a host model with one tool (`ImageCall`), with `stream` and `store` of
the proxy's own. A body that is no JSON object is refused (`Accepted`). `TokenUsage` is `Usage`,
`TokenPricing` with the code's price table, and `cost_usd_nanos` with saturating
arithmetic and the panic of `clamp` on a negative bound. `Exchange` puts them in
the life of one call: the body is received, checked and rewritten; an answer of the
upstream is read as a whole (`RelayWhole`, `RelayImages`) or relayed in chunks of
any size (`Chunk`), which feeds the line buffer of `update_sse_usage` and the
preview; it ends, breaks off or is dropped, and the event is settled. Bytes are
positions: a line has a length, a preview is a set of positions. Who answers is
Dispatch's, what becomes of the event AuditPipeline's matter.

## Runs

All constants not listed are model values; every bound is a constant of its cfg.

| run | instance | shows |
| --- | --- | --- |
| `audit_safety` | 2 calls, 1 consumer, 1 provider, 2 slots, batches of 2, budget for one archive, fairness | slots and budget conserved; an event in one place; no transport before its event; rows refer to existing consumers and providers and are final; the pipeline implements the ledger; sent events are recorded unless their batch is poisoned |
| `audit_poison` | 2 consumers, batches of 1, fairness | violated: deleting a consumer stops the audit of the others |
| `provider_safety` | 1 handler at a time beside the maintenance task, 1 provider, 3 instants, 2 circuit events, 2 details | circuit events agree with the status; no cooldown without an end; open events are only extended |
| `provider_recovery` | `RecoverySpec`: 1 handler, 2 providers, 2 instants, 2 details, 3 circuit events, fairness | every open circuit event is closed, unless an update with the id of a closed event stays pending |
| `provider_cooldown` | 2 handlers, 2 providers | violated: an observation of another provider makes a limited one available before its reset |
| `provider_revocation` | 2 handlers, 1 provider, 1 user | violated: a revoked grant stays in the snapshot |
| `dispatch_safety` | 2 calls, 3 providers | counts exact, no upstream twice, spool files |
| `credential_safety` | 2 tasks, 3 pairs of tokens | single flight, no spent token kept but for a loss or by an operator, replacement wins, lock given back |
| `accounts_safety` | 3 handlers, 2 users, 2 issuers, 2 settings | one root, one issuer, roles and settings changed by root only, setup closed for good |
| `exchange_safety` | every pair of image or Responses fields with every kind of value, bodies of up to 3 lines, chunks of up to 6 bytes | every known field accounted for, tokens independent of the chunks, honest previews and outcomes, images once, each token priced once |
| `affinity_safety` | 2 handlers, 1 session, 2 providers, 1 restart, fairness | entries removed only for their own sake, written or marked, and gone with their provider |
| `spool_safety` | 2 calls, retention of 6 with a scan every 2, use of at most 1, fairness | orphans younger than the maximum and gone in the end, files in use kept |

Why these bounds: two calls, of up to four messages, fill two slots with
reservations, with messages (the event and the transport of one call, so that the
other is refused) and with a mix (what the slots and the budget must satisfy is
proved for every capacity); a batch of two mixes an event with the transport of
another call, and the events of both calls, whose consumer is deleted or not (two
consumers, and batches of one, are in `audit_poison`); a budget of five bytes with
reservations of three admits one archive, not two. One handler beside the
maintenance task gives every pair of racing writers of one provider, two handlers
give what concerns two providers. `provider_recovery` starts when one provider has
an open circuit and the other may be observed: two details let an observation be
merged into a pending update so that it stays pending, two further circuit events let
one be closed and another follow, and the transaction that writes both providers can
fail for either. Its handlers are those that differ in what they do to the tables,
and the snapshot stays empty, since neither the tables nor what is pending depend on
it. Two calls that each hold two leases meet on three
providers. Three pairs of tokens are the original, a replacement and a rotated one,
the fewest for a late rotation to collide with a replacement. Three handlers let two
setups race while a third request is under way. In Exchange every limit is crossed
within a few bytes: lines are shorter than the buffer, as long and longer, previews
end within, at and beyond a chunk, counts lie below, at and above the threshold of
long contexts, are negative, or claim more cached tokens than tokens; 100000 stands
for the largest i64, which the costs of these counts exceed and saturate at. In
Affinity a
request and a deletion, or two requests, meet the maintenance task at each of its
steps, for one session: keys do not influence each other, since the statement of each
selects its provider and so cannot violate the foreign key; both of the safety
properties are proved for any number. An entry remembered at the last instant never
expires, so `DeletedForgotten` does not rest on expiry. In AudioSpool a retention of three intervals separates the last scan that
keeps a file, the scan that removes it and the maximum.

Symmetry is used only where no temporal property under fairness is checked, and
only over sets whose members the code does not order. Deadlock checking is off only
in the audit runs and in `exchange_safety`, which end when their calls are used up.

Fairness. `audit_safety` and `audit_poison` assume that the runtime keeps scheduling
the writer task and that a transaction that can meet its constraints is not refused
for ever (strong fairness of `PersistOk`: busy databases are "temporary" in the
README of the program). `provider_recovery` and `affinity_safety` assume the
one-second ticker of the maintenance task, and that a transaction whose statements
are in order is not refused for ever. A transaction that replays a circuit event is
not in order and may fail each second: nothing is assumed of it, and both properties
are about the executions in which that comes to an end. `provider_recovery` assumes
that time passes, `affinity_safety` that a handler finishes what it does without an
await; it needs no time to pass.
`spool_safety` assumes that time passes, that the scan task is scheduled and a
process that ended is started again, that a call that is being answered ends (the
HTTP client has a timeout), and that the removal of an orphan does not fail each
time it is tried. Nothing is assumed of clients, operators or upstreams.

## Proofs

Each holds for every value of the constants that meets the named assumptions.
"Types" is the `TypeOK` of the module, which is proved and not listed in a run; the
same goes for `RelayHoldsLease`. Only the `TypeOK` of `Exchange` is in a run too,
since it says of a cost that it fits an i64. Every invariant and every action
property that a passing run checks is also a theorem.

* `AuditPipelineProofs`: types; `CapacityConserved`, `BudgetConserved`,
  `ArchiveMemoryBounded`, `ReservedOnce`, `SettledOnce`, `TransportAfterEvent`,
  and then `ReferencesHold`, `RowsAreFinal` and the refinement `ImplementsLedger`.
  Few of them are inductive alone. The invariant `AuditInv` adds where an
  event can be: in one place of tracker, stream, channel, batch and table, with
  its reservation and its budget exactly while it is in the first ones; batches
  bounded; a transport only behind its event or after its row. Steps are first
  classified by what they do to the places (`StepKinds`), so that counting
  arguments (cardinalities of the holders) are made once per kind and not once per
  action. For the tables and the refinement it is joined by `OutcomesSet`: a message
  on its way to the tables has its outcome. An entry of the ledger is then
  determined by the one place its event is in (`EntryOf`), and each kind of step is
  a step of the ledger for the calls it moves: `Begin` opens or refuses, a send
  settles, a receive leaves the entry as it is, a transaction records, the deletion
  of a consumer erases.
* `ProviderStoreProofs`: types, `OpenCircuitIffCooldown`, `CooldownsEnd`,
  `CircuitsOnlyExtend`. The status of a row is written by many statements;
  the invariant says of every copy of a provider (row, snapshot, what a handler
  has read, pending update) that a cooldown comes with its end, and of the tables
  that at most one circuit event of a provider is open, exactly during a cooldown
  and with an end not before it.
* `CredentialRefreshProofs`: types, `LockHolder`, `SentTokensUsable`,
  `SpentOnlyIfLost`, `OperatorTokensWin`, `MarkedForOwnFailure`. The invariant
  adds what the holder of the lock has in hand: pairs that were issued, and an
  answer that is unused and of the login of the token it was got for.
* `AccountsProofs`: types, `OneRoot`, `CommittedIssuerTrusted`,
  `PermissionHolds`, `SetupFinal`. The invariant adds that a setup that has
  committed carries the committed issuer, and that a Config on its way to be
  stored names no other.
* `DispatchProofs`: types, `InflightExact`, `RetriedElsewhere`, `RelayHoldsLease`,
  `SpoolForRetryOnly`. Where a call is determines what it owns and what it has sent
  (`Place`); the counters follow by counting the holders of leases, and the width
  assumption (two leases of every call fit) keeps them from wrapping.
* `AffinityProofs`: types, `MarkedOrWritten`, `AffinityKept`. The invariant adds
  what an actor has in hand between two of its steps: a deletion forgets a provider
  that is gone (`InHand`), what the maintenance task wrote is in the table while it
  matters and what it did not write names a deleted provider (`Collected`), and
  what it has collected keeps its mark until the transaction ends (`StillMarked`).
* `AudioSpoolProofs`: types, `OrphansExpire`, `SentFilesKept`. Two arguments: the
  time a call has been sending bounds the age of its file, and from one complete
  scan to the next the age of a file and the time left add up to less than the
  maximum.
* `ExchangeProofs`: types, `FieldsAccountedFor`, `UsageExact`, `ArchiveHonest`,
  `OutcomeRecorded`, `ImagesOnce`, `StreamsSettled`, `TokensPricedOnce`. First the
  operators, for lines, images and prices of any number. Positions of lines and the
  folds are recursive functions; that they exist and what they compute is shown by
  a smallest counterexample (`LeastNat`, `SmallestSet`), which needs no induction
  over an operator. So: ends of lines grow (`EndsGrow`), merging some lines in any
  order gives the largest counts (`MergeLargest`), collecting images from the left
  takes none twice (`ImagesDifferent`), and adding with saturation at each step is
  adding exactly and cutting once (`SaturatingSum`, `CostExact`). Then the stream:
  `BufferInv` says that the buffer has the whole beginning of the line that is still
  incomplete unless more than the limit of it has arrived, so that a line that fits
  is parsed when its newline comes (`FittingParsed`); `UsageInv` bounds each count
  from both sides and keeps it from being negative, which is what keeps the cost
  from panicking; `PreviewInv` says which bytes were copied. `UsageExact` and
  `StreamsSettled` are not inductive without the first two, `ArchiveHonest` not
  without the third. At last every way for a call to end (`CallEnds`) is compared
  with what is settled there.

Assumptions: capacities, bounds and times are naturals (positive where the code's
are), the longest use of a spool file is shorter than its retention, the counters
have room for two leases of every call, the set of calls is finite, the initial
settings are settings, and `None` is none of the values it stands beside. In the
code these are constants and the types `Option`. One assumption is about upstreams
(`UpstreamAssumption`, used for `ImagesOnce` only): a stream shows an image once in
an event of its own and once in the completed response, which comes last.

Only model-checked: the liveness properties (`EventsRecordedUnlessPoisoned`,
`CircuitsClose`, `DeletedForgotten`, `OrphansRemoved`), which rest on fairness and
are out of the prover's reach.

Two properties were stated more precisely because their proof failed. An answer whose
upstream itself says 499 is no cancelled one (`ArchiveHonest` now asks whether the
client got an answer), and the error document of an image request for a model with
a price for cache writes can lose its event as any JSON document can
(`StreamsSettled` now speaks of images of a success; the instance has such a request).

## Findings

Three properties that a document of the repository states are violated by what the
code does; each has a run that ends in a counterexample.

1. `QueuedEventsRecorded` (`audit.rs:200`): an event of a consumer deleted
   meanwhile makes its batch fail on a foreign key each time it is repeated; the
   writer never gets past it.
2. `CooldownRespected` (`balancer.rs:402`): an observation of another provider
   stores a clone of the snapshot from before the 429. (The property is about the
   stores of `observe` and other providers only; an answer of the same provider that
   was on its way can do the same.)
3. `RevokedGrantsGone` (`api.rs:956`): a handler that ends between the DELETE and
   the reload leaves the grant in the snapshot, and repeating the request does not
   help.

Seen while modelling, without a run of its own, since no document says otherwise or
two say opposite things:

* a reload that read before a provider was disabled may be stored last;
* an observation merged between `maintain`'s comparison and its removal is not
  written; in the same way `maintain` takes the dirty mark from an entry remembered
  after its comparison (`balancer.rs:374`), which is then not written until the
  session's next request (the exception in `MarkedOrWritten`);
* an observation merged during `maintain`'s transaction keeps the whole update
  pending, its circuit event included (`balancer.rs:82-92`, `356`). When that event
  was closed meanwhile, by an operator or by the recovery in the same transaction,
  the next run inserts its id again (`balancer.rs:330`), the PRIMARY KEY of
  `provider_circuit_events` refuses it, and no observation, affinity or recovery of
  any provider is written, each second, until a later 429 or authentication failure
  of that provider replaces the update, the provider is disabled or deleted, or the
  process restarts (the exceptions in `CircuitsClose` and `DeletedForgotten`);
* a refresh dropped between the answer of the endpoint and the UPDATE keeps a spent
  refresh token in a row that is still active (`SpentOnlyIfLost` says that this is
  the only way but for an operator who stores a spent token);
* the console's dialog sends name and tokens together (`api.rs:581`): renaming a
  provider with tokens read before a rotation puts the spent ones back;
* images are answered with 200 while the event has the status of the upstream
  (`proxy.rs:1435`), which may be another success (`OutcomeRecorded`);
* an admin demoted between being authenticated and the UPDATE of `provider_access`
  (`api.rs:1719`) still changes it;
* two changes of the settings may be committed in one order and take effect in the
  other; an update of a user may be applied in part, and of two concurrent updates of
  different fields of a consumer one is lost (`api.rs:198`);
* a setup dropped after its commit (`api.rs:97`) leaves no verifier until the next
  start;
* audio is retried from the spool file, which README.md:84 excludes and the test at
  proxy.rs:3141 asks for;
* README.md:82 says that credential headers are not archived; `archive_headers`
  (`proxy.rs:597`) keeps all of them, as the test at proxy.rs:3115 expects, and they
  are masked when they are read (`api.rs:1224`);
* a negative `input_tokens` in an answer that is not streamed, for a model with a
  price for cache writes, makes `clamp` panic (`proxy.rs:2036`), and the event is
  lost; streams and images cannot get there, since they merge with zero
  (`StreamsSettled`), but the error document of an image request can;
* `oauth_complete` checks the name of the new provider after the exchange, so a
  missing name spends the flow and the code;
* the comment of `audio_spool.rs:19`, that an orphan never reaches the maximum, is
  so only if no scan is cut short, as it is by a file that its call removes between
  `next_entry` and `metadata` (`OrphansExpire` speaks of complete scans).

## Not modelled

* Headers (which are passed on, which are replaced), the multipart form of the
  console and `affinity_key`: tables of names, applied to one request, without
  state.
* The OAuth flow but for its token request and the provider it inserts: an entry of
  one map, checked and taken by one atomic `remove_if`, with no step in between.
* Reports, provider usage and rate-limit resets: they read tables or pass a call
  on to an upstream.
* The console, the deployment scripts, start-up, pragmas, hashing, resource
  counters: no state of the program that others rely on.
* The admin audit: one INSERT at the end of handlers.
* A crash loses channel and observations by design, so AuditPipeline and
  ProviderStore have none; `CredentialRefresh`, `Accounts`, `Affinity` and
  `AudioSpool` have restarts, since there the database or the directory must make
  sense afterwards.

## Plan

Done: AuditPipeline with AuditLedger, ProviderStore, Dispatch, CredentialRefresh,
Accounts, Affinity, AudioSpool, Exchange with TokenUsage and ImageRequest, and the
proofs above. Next, in this order:

1. `ConsumerStore`: the read-modify-write of `update_consumer`, names and keys; at
   present consumers are part of AuditPipeline, with the flag and their life only.
2. A composition of the selection of Dispatch with the snapshot of ProviderStore
   and the entries of Affinity, to state which provider a session's request goes to
   while providers are cooled down and deleted.

Runs are kept few: where a new module belongs to an existing question, the run of
that question is extended rather than a run added.
