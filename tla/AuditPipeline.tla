--------------------------- MODULE AuditPipeline ---------------------------
(***************************************************************************)
(* The audit of proxied calls, from the request handler to the tables.     *)
(*                                                                         *)
(* A handler reserves a slot of the bounded audit channel (and, for an     *)
(* opted-in consumer, a share of the archive memory budget) before it does *)
(* anything else.  Whoever owns the reservation - the AuditTracker of the  *)
(* handler, later the StreamCompletion of a streamed body - must turn it   *)
(* into exactly one event, on the normal path, on an error or when the     *)
(* future is dropped because the client went away.  The response layer     *)
(* around the router follows with an unreserved ResponseTransport message. *)
(* One writer task takes batches off the channel and repeats a batch until *)
(* SQLite commits it, while the API deletes consumers and providers.       *)
(*                                                                         *)
(* Left out: the descriptive columns of an event (model, sizes, latencies, *)
(* usage and cost, headers and bodies), the dropped-event counters and the *)
(* log, and the restart of the process, which loses the channel's content. *)
(*                                                                         *)
(* A definition named D_Fault is D with a plausible programming error; it  *)
(* is used only to show that the properties notice that error.             *)
(***************************************************************************)
EXTENDS Naturals, Sequences, FiniteSets

CONSTANTS
    Calls,                      \* the API calls; a call is also its event's UUID
    Consumers,                  \* the ids of consumer credentials
    Providers,                  \* the ids of upstream providers
    QUEUE_CAPACITY,             \* slots of the channel (4096)
    BATCH_CAPACITY,             \* most messages in a transaction (128)
    QUEUE_BYTE_CAPACITY,        \* the archive memory budget (64 MiB)
    ARCHIVE_RESERVATION_BYTES,  \* what one archived call reserves of it
    None                        \* Rust's None, SQL's NULL, a row that is not there

ASSUME CapacityAssumption ==
    /\ QUEUE_CAPACITY \in Nat \ {0}
    /\ BATCH_CAPACITY \in Nat \ {0}
    /\ QUEUE_BYTE_CAPACITY \in Nat
    /\ ARCHIVE_RESERVATION_BYTES \in Nat \ {0}

ASSUME CallsAssumption == IsFiniteSet(Calls)

(***************************************************************************)
(* How a call ended.  "pending" is the 0 an event is created with;         *)
(* "relayed" is whatever status the upstream answered with, "error" the    *)
(* status of the proxy's own AppError, "upstream_stream_error" the 502 and *)
(* "client_cancelled" the 499 of a dropped future.                         *)
(***************************************************************************)
Statuses == {"pending", "relayed", "error", "upstream_stream_error",
             "client_cancelled"}

AuditEvent == [consumer_id : Consumers, provider_id : Providers \cup {None},
               status : Statuses, request_archive : BOOLEAN]

ApiCallRow == [consumer_id : Consumers, provider_id : Providers \cup {None},
               status : Statuses, transport : BOOLEAN]

ConsumerRow == [state : {"absent", "active", "revoked", "deleted"},
                request_archive : BOOLEAN, used : BOOLEAN]

QueuedAudit ==
    [kind : {"Event"}, id : Calls, event : AuditEvent, archive_budget : BOOLEAN]
      \cup [kind : {"ResponseTransport"}, id : Calls, headers : BOOLEAN]

ASSUME NoneAssumption ==
    /\ None \notin Providers
    /\ None \notin AuditEvent
    /\ None \notin ApiCallRow

VARIABLES
    \* the handlers and response bodies, one per call
    phase,              \* where the call is in its handler
    permit,             \* does its owner hold a channel slot?
    archive_budget,     \* does its owner hold archive budget?
    event,              \* the unsent event of its owner, or None
    transport_id,       \* the AuditTransportId extension of its response
    \* the channel, the semaphore and the writer task
    queue,              \* the messages in the channel
    free,               \* the channel's unreserved slots
    budget,             \* the semaphore's free bytes
    batch,              \* the writer's current batch
    writer,             \* where the writer is in run()
    \* SQLite
    consumers,          \* the consumers table
    providers,          \* the ids in the providers table
    api_calls,          \* the api_calls table
    request_archives    \* the request_archives table

callVars   == <<phase, permit, archive_budget, event, transport_id>>
queueVars  == <<queue, free, budget>>
writerVars == <<batch, writer>>
dbVars     == <<consumers, providers, api_calls, request_archives>>
vars       == <<callVars, queueVars, writerVars, dbVars>>

Phases == {"idle", "tracked", "upstream", "retried", "streaming", "relaying",
           "done"}

\* The handler's own future is running: the AuditTracker is alive.
Handling(c) == phase[c] \in {"tracked", "upstream", "retried"}

Init ==
    /\ phase = [c \in Calls |-> "idle"]
    /\ permit = [c \in Calls |-> FALSE]
    /\ archive_budget = [c \in Calls |-> FALSE]
    /\ event = [c \in Calls |-> None]
    /\ transport_id = [c \in Calls |-> "none"]
    /\ queue = <<>>
    /\ free = QUEUE_CAPACITY
    /\ budget = QUEUE_BYTE_CAPACITY
    /\ batch = <<>>
    /\ writer = "recv"
    /\ consumers = [k \in Consumers |->
                      [state |-> "absent", request_archive |-> FALSE, used |-> FALSE]]
    /\ providers = Providers
    /\ api_calls = [c \in Calls |-> None]
    /\ request_archives = [c \in Calls |-> "none"]

-----------------------------------------------------------------------------
(* The handlers.                                                           *)

\* A new event; it keeps an archive only if the budget for it was reserved.
NewEvent_ByFlag(k, archived) ==
    [consumer_id |-> k, provider_id |-> None, status |-> "pending",
     request_archive |-> consumers[k].request_archive]

NewEvent(k, archived) ==
    [consumer_id |-> k, provider_id |-> None, status |-> "pending",
     request_archive |-> archived]

\* api_identity accepts a consumer that exists and is not revoked.
Authenticated(k) == consumers[k].state = "active"

\* try_reserve and try_reserve_archive succeed.
SlotFree   == free > 0
BudgetLeft == budget >= ARCHIVE_RESERVATION_BYTES

\* Nothing the handler reads changes between api_identity and
\* AuditTracker::begin, so they are one step.
Begin(c, k) ==
    /\ phase[c] = "idle"
    /\ Authenticated(k)
    /\ phase' = [phase EXCEPT ![c] = "tracked"]
    /\ LET reserved == SlotFree
           archived == reserved /\ consumers[k].request_archive /\ BudgetLeft
       IN /\ permit' = [permit EXCEPT ![c] = reserved]
          /\ free' = IF reserved THEN free - 1 ELSE free
          /\ archive_budget' = [archive_budget EXCEPT ![c] = archived]
          /\ budget' = IF archived THEN budget - ARCHIVE_RESERVATION_BYTES ELSE budget
          /\ event' = [event EXCEPT ![c] =
                         IF reserved THEN NewEvent(k, archived) ELSE None]
    /\ UNCHANGED <<transport_id, queue, writerVars, dbVars>>

\* select_ready_provider answered p for the first attempt, retry_provider for
\* the second.  p comes from the in-memory snapshot: its row may be gone.
SetProvider(c, p) ==
    /\ \/ phase[c] = "tracked" /\ phase' = [phase EXCEPT ![c] = "upstream"]
       \/ /\ phase[c] = "upstream"
          /\ event[c] # None => event[c].provider_id # p
          /\ phase' = [phase EXCEPT ![c] = "retried"]
    /\ event' = IF event[c] = None THEN event
                ELSE [event EXCEPT ![c].provider_id = p]
    /\ UNCHANGED <<permit, archive_budget, transport_id, queueVars, writerVars, dbVars>>

\* The id AuditTransportId carries to the response layer, if there is an event.
TransportIdOf(c) ==
    IF event[c] = None THEN "none"
    ELSE IF event[c].request_archive THEN "diagnostics" ELSE "plain"

\* The owner gives event, slot and budget away: three take() calls.
HandOver_Clones(c) == UNCHANGED <<event, permit, archive_budget>>
HandOver_KeepsPermit(c) ==
    /\ event' = [event EXCEPT ![c] = None]
    /\ UNCHANGED <<permit, archive_budget>>
HandOver(c) ==
    /\ event' = [event EXCEPT ![c] = None]
    /\ permit' = [permit EXCEPT ![c] = FALSE]
    /\ archive_budget' = [archive_budget EXCEPT ![c] = FALSE]

\* settle, then AuditReservation::send: the reserved slot becomes a queued event
\* and the budget travels with it.  Without an event there is nothing to send.
Send(c, status) ==
    IF event[c] = None
    THEN UNCHANGED <<queueVars, event, permit, archive_budget>>
    ELSE /\ queue' = Append(queue,
                       [kind |-> "Event", id |-> c,
                        event |-> [event[c] EXCEPT !.status = status],
                        archive_budget |-> archive_budget[c]])
         /\ HandOver(c)
         /\ UNCHANGED <<free, budget>>

\* relay_response and image_response with the whole body in hand.
FinishRelayed(c) ==
    /\ phase[c] \in {"upstream", "retried"}
    /\ Send(c, "relayed")
    /\ transport_id' = [transport_id EXCEPT ![c] = TransportIdOf(c)]
    /\ phase' = [phase EXCEPT ![c] = "relaying"]
    /\ UNCHANGED <<writerVars, dbVars>>

\* dispatch returned an AppError; its response carries no AuditTransportId.
FinishError(c) ==
    /\ Handling(c)
    /\ Send(c, "error")
    /\ phase' = [phase EXCEPT ![c] = "done"]
    /\ UNCHANGED <<transport_id, writerVars, dbVars>>

\* The client went away: the handler's future and its AuditTracker are dropped.
DropTracker(c) ==
    /\ Handling(c)
    /\ Send(c, "client_cancelled")
    /\ phase' = [phase EXCEPT ![c] = "done"]
    /\ UNCHANGED <<transport_id, writerVars, dbVars>>

\* take_stream: reservation, budget and event move to the StreamCompletion.
TakeStream(c) ==
    /\ phase[c] \in {"upstream", "retried"}
    /\ event' = IF event[c] = None THEN event
                ELSE [event EXCEPT ![c].status = "relayed"]
    /\ transport_id' = [transport_id EXCEPT ![c] = TransportIdOf(c)]
    /\ phase' = [phase EXCEPT ![c] = "streaming"]
    /\ UNCHANGED <<permit, archive_budget, queueVars, writerVars, dbVars>>

\* StreamCompletion::finish: the upstream body ended, or failed half-way.
FinishStream(c, failed) ==
    /\ phase[c] = "streaming"
    /\ Send(c, IF failed THEN "upstream_stream_error" ELSE event[c].status)
    /\ phase' = [phase EXCEPT ![c] = "relaying"]
    /\ UNCHANGED <<transport_id, writerVars, dbVars>>

BodyStarted(c) == phase[c] \in {"streaming", "relaying"}

BodyEnded_AtStart(c) == BodyStarted(c)
BodyEnded(c) == phase[c] = "relaying"

\* The body is dropped before the response layer saw its end.  The drop of the
\* StreamCompletion in it sends the event unless finish has already taken it.
DropBody(c) ==
    /\ BodyStarted(c)
    /\ Send(c, "client_cancelled")
    /\ phase' = [phase EXCEPT ![c] = "done"]
    /\ UNCHANGED <<transport_id, writerVars, dbVars>>

\* The response layer saw the end of the body: try_send, dropped when full.
RecordResponseTransport(c) ==
    /\ BodyEnded(c)
    /\ phase' = [phase EXCEPT ![c] = "done"]
    /\ IF transport_id[c] # "none" /\ SlotFree
       THEN /\ free' = free - 1
            /\ queue' = Append(queue, [kind |-> "ResponseTransport", id |-> c,
                                       headers |-> transport_id[c] = "diagnostics"])
       ELSE UNCHANGED <<free, queue>>
    /\ UNCHANGED <<permit, archive_budget, event, transport_id, budget,
                   writerVars, dbVars>>

-----------------------------------------------------------------------------
(* The writer task.                                                        *)

\* A received message leaves the channel and its slot is free again.
TakeMessage_KeepsSlot == queue # <<>> /\ queue' = Tail(queue) /\ UNCHANGED free
TakeMessage == queue # <<>> /\ queue' = Tail(queue) /\ free' = free + 1

\* recv().await takes the first message of a batch.
Recv ==
    /\ writer = "recv"
    /\ TakeMessage
    /\ batch' = <<Head(queue)>>
    /\ writer' = "fill"
    /\ UNCHANGED <<callVars, budget, dbVars>>

\* try_recv after the pause, while the batch has room.
Fill ==
    /\ writer = "fill"
    /\ Len(batch) < BATCH_CAPACITY
    /\ TakeMessage
    /\ batch' = Append(batch, Head(queue))
    /\ UNCHANGED <<callVars, budget, writer, dbVars>>

StopFilling_WhenFull ==
    /\ writer = "fill"
    /\ Len(batch) = BATCH_CAPACITY
    /\ writer' = "persist"
    /\ UNCHANGED <<callVars, queueVars, batch, dbVars>>

StopFilling ==
    /\ writer = "fill"
    /\ Len(batch) = BATCH_CAPACITY \/ queue = <<>>
    /\ writer' = "persist"
    /\ UNCHANGED <<callVars, queueVars, batch, dbVars>>

IsEvent(m, c)     == m.kind = "Event" /\ m.id = c
IsTransport(m, c) == m.kind = "ResponseTransport" /\ m.id = c

\* The places of c's messages in a sequence of messages.
EventsIn(s, c)     == {i \in DOMAIN s : IsEvent(s[i], c)}
TransportsIn(s, c) == {i \in DOMAIN s : IsTransport(s[i], c)}

ConsumerExists(k) == consumers[k].state \in {"active", "revoked"}

\* Every INSERT of the batch meets its constraints: the consumer it references
\* is there and the primary key is new.
Insertable ==
    \A c \in Calls : \A i \in EventsIn(batch, c) :
        /\ ConsumerExists(batch[i].event.consumer_id)
        /\ api_calls[c] = None
        /\ EventsIn(batch, c) = {i}

\* A transport UPDATE of the batch finds c's row, in the table already or
\* inserted earlier in the batch; otherwise it changes no row.
TransportApplies(c, i) ==
    /\ i \in TransportsIn(batch, c)
    /\ api_calls[c] # None \/ \E j \in EventsIn(batch, c) : j < i

\* The provider a row references: the one of the event if it still exists.
ReferencedProvider_Unchecked(e) == e.provider_id
ReferencedProvider(e) ==
    IF e.provider_id \in providers THEN e.provider_id ELSE None

InsertedRow(e) ==
    [consumer_id |-> e.consumer_id,
     provider_id |-> ReferencedProvider(e),
     status      |-> e.status,
     transport   |-> FALSE]

\* The row and the archive of c after the statements of the batch.
PersistedRow(c) ==
    LET inserted == IF EventsIn(batch, c) = {} THEN api_calls[c]
                    ELSE InsertedRow(batch[CHOOSE i \in EventsIn(batch, c) : TRUE].event)
    IN IF \E i \in DOMAIN batch : TransportApplies(c, i)
       THEN [inserted EXCEPT !.transport = TRUE]
       ELSE inserted

PersistedArchive(c) ==
    LET inserted == IF \E i \in EventsIn(batch, c) : batch[i].event.request_archive
                    THEN "request" ELSE request_archives[c]
    IN IF /\ inserted # "none"
          /\ \E i \in DOMAIN batch : TransportApplies(c, i) /\ batch[i].headers
       THEN "downstream" ELSE inserted

\* The calls whose archive budget travels in a sequence of messages.
BudgetIn(s) == {c \in Calls : \E i \in EventsIn(s, c) : s[i].archive_budget}

\* The budget permits that go out of scope with the batch.
ReleasedBudget_Leaks == {}
ReleasedBudget == BudgetIn(batch)

\* One transaction for the whole batch.
PersistOk ==
    /\ writer = "persist"
    /\ Insertable
    /\ api_calls' = [c \in Calls |-> PersistedRow(c)]
    /\ request_archives' = [c \in Calls |-> PersistedArchive(c)]
    /\ consumers' = [k \in Consumers |->
         [consumers[k] EXCEPT !.used =
            @ \/ \E c \in Calls : \E i \in EventsIn(batch, c) :
                    batch[i].event.consumer_id = k]]
    /\ budget' = budget + ARCHIVE_RESERVATION_BYTES * Cardinality(ReleasedBudget)
    /\ batch' = <<>>
    /\ writer' = "recv"
    /\ UNCHANGED <<callVars, queue, free, providers>>

\* Any statement failed: a constraint, a busy or an unwritable database.  The
\* transaction is rolled back and the same batch is kept.
PersistErr ==
    /\ writer = "persist"
    /\ writer' = "backoff"
    /\ UNCHANGED <<callVars, queueVars, batch, dbVars>>

Retry_GivesUp ==
    /\ writer = "backoff"
    /\ writer' = "recv"
    /\ batch' = <<>>
    /\ UNCHANGED <<callVars, queueVars, dbVars>>

Retry ==
    /\ writer = "backoff"
    /\ writer' = "persist"
    /\ UNCHANGED <<callVars, queueVars, batch, dbVars>>

-----------------------------------------------------------------------------
(* The operations of the API and of the cleanup task on the same tables.   *)

CreateConsumer(k, archive) ==
    /\ consumers[k].state = "absent"
    /\ consumers' = [consumers EXCEPT ![k].state = "active",
                                      ![k].request_archive = archive]
    /\ UNCHANGED <<callVars, queueVars, writerVars, providers, api_calls,
                   request_archives>>

\* The flag is checked against revocation by an earlier SELECT only, so the
\* UPDATE may also reach a consumer that has just been revoked.
UpdateConsumer(k, archive) ==
    /\ ConsumerExists(k)
    /\ consumers' = [consumers EXCEPT ![k].request_archive = archive]
    /\ UNCHANGED <<callVars, queueVars, writerVars, providers, api_calls,
                   request_archives>>

RevokeConsumer(k) ==
    /\ consumers[k].state = "active"
    /\ consumers' = [consumers EXCEPT ![k].state = "revoked"]
    /\ UNCHANGED <<callVars, queueVars, writerVars, providers, api_calls,
                   request_archives>>

RowsOf(k) == {c \in Calls : api_calls[c] # None /\ api_calls[c].consumer_id = k}

\* ON DELETE CASCADE takes the consumer's calls and their archives along.
DeleteConsumer(k) ==
    /\ ConsumerExists(k)
    /\ consumers' = [consumers EXCEPT ![k].state = "deleted"]
    /\ api_calls' = [c \in Calls |-> IF c \in RowsOf(k) THEN None ELSE api_calls[c]]
    /\ request_archives' =
         [c \in Calls |-> IF c \in RowsOf(k) THEN "none" ELSE request_archives[c]]
    /\ UNCHANGED <<callVars, queueVars, writerVars, providers>>

\* ON DELETE SET NULL keeps the calls of a deleted provider.
RowWithoutProvider_Cascades(row) == None
RowWithoutProvider(row) == [row EXCEPT !.provider_id = None]

DeleteProvider(p) ==
    /\ p \in providers
    /\ providers' = providers \ {p}
    /\ api_calls' =
         [c \in Calls |-> IF api_calls[c] # None /\ api_calls[c].provider_id = p
                          THEN RowWithoutProvider(api_calls[c])
                          ELSE api_calls[c]]
    /\ UNCHANGED <<callVars, queueVars, writerVars, consumers, request_archives>>

\* delete_expired removes the archives past the retention period, S of them.
DeleteExpired(S) ==
    /\ S # {}
    /\ \A c \in S : request_archives[c] # "none"
    /\ request_archives' =
         [c \in Calls |-> IF c \in S THEN "none" ELSE request_archives[c]]
    /\ UNCHANGED <<callVars, queueVars, writerVars, consumers, providers, api_calls>>

-----------------------------------------------------------------------------
CallNext(c) ==
    \/ \E k \in Consumers : Begin(c, k)
    \/ \E p \in Providers : SetProvider(c, p)
    \/ FinishRelayed(c)
    \/ FinishError(c)
    \/ DropTracker(c)
    \/ TakeStream(c)
    \/ \E failed \in BOOLEAN : FinishStream(c, failed)
    \/ DropBody(c)
    \/ RecordResponseTransport(c)

WriterNext == Recv \/ Fill \/ StopFilling \/ PersistOk \/ PersistErr \/ Retry

ConsumerNext(k) ==
    \/ \E archive \in BOOLEAN : CreateConsumer(k, archive) \/ UpdateConsumer(k, archive)
    \/ RevokeConsumer(k)
    \/ DeleteConsumer(k)

Next ==
    \/ \E c \in Calls : CallNext(c)
    \/ WriterNext
    \/ \E k \in Consumers : ConsumerNext(k)
    \/ \E p \in Providers : DeleteProvider(p)
    \/ \E S \in SUBSET Calls : DeleteExpired(S)

Spec == Init /\ [][Next]_vars

(***************************************************************************)
(* The writer task is never starved by the runtime, and SQLite is only     *)
(* temporarily unwritable: a transaction that can meet its constraints is  *)
(* not refused forever.  Nothing is assumed of clients or of the API.      *)
(***************************************************************************)
Fairness ==
    /\ WF_vars(WriterNext)
    /\ SF_vars(PersistOk)

FairSpec == Spec /\ Fairness
-----------------------------------------------------------------------------
(* Where the event of a call is.                                           *)

Tracked(c)  == event[c] # None
Enqueued(c) == EventsIn(queue, c) # {}
InBatch(c)  == EventsIn(batch, c) # {}
Recorded(c) == api_calls[c] # None

\* The consumer of c's event, wherever the event is on its way to the table.
PendingConsumer(c) ==
    IF Enqueued(c) THEN queue[CHOOSE i \in EventsIn(queue, c) : TRUE].event.consumer_id
    ELSE batch[CHOOSE i \in EventsIn(batch, c) : TRUE].event.consumer_id

StateTypes ==
    /\ phase \in [Calls -> Phases]
    /\ permit \in [Calls -> BOOLEAN]
    /\ archive_budget \in [Calls -> BOOLEAN]
    /\ event \in [Calls -> AuditEvent \cup {None}]
    /\ transport_id \in [Calls -> {"none", "plain", "diagnostics"}]
    /\ queue \in Seq(QueuedAudit)
    /\ free \in Nat
    /\ budget \in Nat
    /\ batch \in Seq(QueuedAudit)
    /\ writer \in {"recv", "fill", "persist", "backoff"}
    /\ consumers \in [Consumers -> ConsumerRow]
    /\ providers \subseteq Providers
    /\ api_calls \in [Calls -> ApiCallRow \cup {None}]
    /\ request_archives \in [Calls -> {"none", "request", "downstream"}]

\* The types of all variables, the channel and the semaphore within their size.
TypeOK ==
    /\ StateTypes
    /\ free <= QUEUE_CAPACITY
    /\ budget <= QUEUE_BYTE_CAPACITY
    /\ Len(queue) <= QUEUE_CAPACITY
    /\ Len(batch) <= BATCH_CAPACITY

(***************************************************************************)
(* A slot of the channel is free, holds a message, or is reserved by the   *)
(* owner of an unsent event: no path through finish, drop, take_stream,    *)
(* try_send or the writer leaks a slot or uses one twice.  A leak would    *)
(* disable auditing after 4096 such requests.                              *)
(***************************************************************************)
CapacityConserved ==
    free + Len(queue) + Cardinality({c \in Calls : permit[c]}) = QUEUE_CAPACITY

\* The calls that hold archive budget: their owner or their queued event does.
BudgetHolders ==
    {c \in Calls : archive_budget[c]} \cup BudgetIn(queue) \cup BudgetIn(batch)

(***************************************************************************)
(* Every byte taken from the archive semaphore is held by exactly one      *)
(* call, from begin to the commit of its batch, and then returned.         *)
(***************************************************************************)
BudgetConserved ==
    budget + ARCHIVE_RESERVATION_BYTES * Cardinality(BudgetHolders) = QUEUE_BYTE_CAPACITY

ArchivedEventsIn(s) == {c \in Calls : \E i \in EventsIn(s, c) : s[i].event.request_archive}

(***************************************************************************)
(* The point of the budget: the calls whose bodies are in memory, whether  *)
(* still tracked, queued or waiting in a failing batch, fit in it.         *)
(***************************************************************************)
ArchiveMemoryBounded ==
    ARCHIVE_RESERVATION_BYTES *
        Cardinality({c \in Calls : Tracked(c) /\ event[c].request_archive}
                      \cup ArchivedEventsIn(queue) \cup ArchivedEventsIn(batch))
      <= QUEUE_BYTE_CAPACITY

(***************************************************************************)
(* finish, both drops and take_stream hand the reservation over exactly    *)
(* once: an owner has an event iff it has the slot to send it with, so     *)
(* expect("audit queue capacity is reserved once") never panics (a panic   *)
(* in a drop during unwinding would abort the process).                    *)
(***************************************************************************)
ReservedOnce ==
    \A c \in Calls :
        /\ Tracked(c) <=> permit[c]
        /\ archive_budget[c] <=> Tracked(c) /\ event[c].request_archive

(***************************************************************************)
(* A call is audited at most once, whichever of finish, error and drop     *)
(* comes first and however often a batch is retried: its event is in one   *)
(* place only.                                                             *)
(***************************************************************************)
SettledOnce ==
    \A c \in Calls :
        /\ Cardinality(EventsIn(queue, c)) + Cardinality(EventsIn(batch, c)) <= 1
        /\ Tracked(c)  => ~ Enqueued(c) /\ ~ InBatch(c) /\ ~ Recorded(c)
        /\ Enqueued(c) => ~ Recorded(c)
        /\ InBatch(c)  => ~ Recorded(c)

(***************************************************************************)
(* The response layer's message never overtakes the event it belongs to,   *)
(* on any way of ending a body: its UPDATE finds the row unless the        *)
(* consumer has been deleted meanwhile.                                    *)
(***************************************************************************)
TransportAfterEvent ==
    \A c \in Calls :
        /\ TransportsIn(queue, c) \cup TransportsIn(batch, c) # {} => ~ Tracked(c)
        /\ \A i \in TransportsIn(queue, c) : \A j \in EventsIn(queue, c) : j < i
        /\ \A i \in TransportsIn(batch, c) :
              ~ Enqueued(c) /\ \A j \in EventsIn(batch, c) : j < i

(***************************************************************************)
(* The foreign keys hold with the writer and the API on the same tables:   *)
(* a row names a live consumer (whose last_used_at is set) and a provider  *)
(* that still exists, and an archive belongs to a row.                     *)
(***************************************************************************)
ReferencesHold ==
    \A c \in Calls :
        /\ Recorded(c) =>
             /\ ConsumerExists(api_calls[c].consumer_id)
             /\ consumers[api_calls[c].consumer_id].used
             /\ api_calls[c].provider_id \in providers \cup {None}
             /\ api_calls[c].status # "pending"
        /\ request_archives[c] # "none" => Recorded(c)

(***************************************************************************)
(* Usage history is final: a recorded call changes neither its consumer    *)
(* nor its status, loses its transport size never and its provider only to *)
(* NULL, and disappears only with its consumer.                            *)
(***************************************************************************)
RowsAreFinal ==
    [][\A c \in Calls : Recorded(c) =>
         \/ /\ Recorded(c)'
            /\ api_calls'[c].consumer_id = api_calls[c].consumer_id
            /\ api_calls'[c].status = api_calls[c].status
            /\ api_calls[c].transport => api_calls'[c].transport
            /\ api_calls'[c].provider_id \in {api_calls[c].provider_id, None}
         \/ consumers'[api_calls[c].consumer_id].state = "deleted"]_vars

\* The batch at hand can never be committed: a consumer in it is gone.
Poisoned ==
    \E c \in Calls : \E i \in EventsIn(batch, c) :
        ~ ConsumerExists(batch[i].event.consumer_id)

(***************************************************************************)
(* As long as no consumer is deleted under a batch, every event that was   *)
(* sent reaches the table however often SQLite refuses: the writer neither *)
(* loses a batch nor leaves the channel's tail behind.                     *)
(***************************************************************************)
EventsRecordedUnlessPoisoned ==
    \A c \in Calls : (Enqueued(c) \/ InBatch(c)) ~> (Recorded(c) \/ Poisoned)

(***************************************************************************)
(* What the README promises of the queue: an event that was sent is        *)
(* retried until it is in the table, unless its own consumer is deleted.   *)
(***************************************************************************)
QueuedEventsRecorded ==
    \A c \in Calls : \A k \in Consumers :
        ((Enqueued(c) \/ InBatch(c)) /\ PendingConsumer(c) = k)
          ~> (Recorded(c) \/ consumers[k].state = "deleted")
-----------------------------------------------------------------------------
(* The pipeline implements the ledger.                                     *)

PendingStatus(c) ==
    IF Enqueued(c) THEN queue[CHOOSE i \in EventsIn(queue, c) : TRUE].event.status
    ELSE batch[CHOOSE i \in EventsIn(batch, c) : TRUE].event.status

LedgerView ==
    [c \in Calls |->
       CASE phase[c] = "idle" -> [stage |-> "none", outcome |-> None]
         [] Tracked(c) -> [stage |-> "open", outcome |-> None]
         [] Enqueued(c) \/ InBatch(c) ->
              [stage |-> "settled", outcome |-> PendingStatus(c)]
         [] Recorded(c) -> [stage |-> "recorded", outcome |-> api_calls[c].status]
         [] OTHER -> [stage |-> "gone", outcome |-> None]]

Ledger == INSTANCE AuditLedger
            WITH ledger <- LedgerView, Outcomes <- Statuses \ {"pending"}

(***************************************************************************)
(* Handlers, drops, writer, retries and deletions together implement the   *)
(* ledger: every call that got a slot is settled exactly once with its own *)
(* outcome, and is recorded with that outcome or is still on its way.      *)
(***************************************************************************)
ImplementsLedger == Ledger!Spec
=============================================================================
