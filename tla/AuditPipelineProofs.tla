------------------------ MODULE AuditPipelineProofs ------------------------
(***************************************************************************)
(* The safety properties of AuditPipeline for any number of calls,         *)
(* consumers and providers and any capacities.                             *)
(***************************************************************************)
EXTENDS AuditPipeline, FiniteSetTheorems, TLAPS

\* A product of naturals is a natural.
LEMMA NatProduct == \A a, n \in Nat : a * n \in Nat
OBVIOUS

\* A sent message fits the channel, and what is left of the calls keeps its types.
LEMMA SendTypes ==
  ASSUME StateTypes, NEW c \in Calls, NEW s \in Statuses, Send(c, s)
  PROVE  /\ queue' \in Seq(QueuedAudit)
         /\ event' \in [Calls -> AuditEvent \cup {None}]
         /\ permit' \in [Calls -> BOOLEAN]
         /\ archive_budget' \in [Calls -> BOOLEAN]
         /\ free' = free /\ budget' = budget
<1>1. CASE event[c] = None
  BY <1>1 DEF Send, StateTypes, queueVars
<1>2. CASE event[c] # None
  <2> DEFINE m == [kind |-> "Event", id |-> c,
                   event |-> [event[c] EXCEPT !.status = s],
                   archive_budget |-> archive_budget[c]]
  <2>1. event[c] \in AuditEvent
    BY <1>2 DEF StateTypes
  <2>2. [event[c] EXCEPT !.status = s] \in AuditEvent
    BY <2>1 DEF AuditEvent
  <2>3. m \in QueuedAudit
    BY <2>2 DEF QueuedAudit, StateTypes
  <2>4. queue' = Append(queue, m) /\ HandOver(c) /\ free' = free /\ budget' = budget
    BY <1>2 DEF Send
  <2>5. queue' \in Seq(QueuedAudit)
    BY <2>3, <2>4 DEF StateTypes
  <2> QED
    BY <2>4, <2>5 DEF HandOver, StateTypes
<1> QED BY <1>1, <1>2

\* The definitions that say which variables a step leaves alone, and the
\* conditions of a reservation.
USE DEF callVars, queueVars, writerVars, dbVars, SlotFree, BudgetLeft

\* What a batch leaves in the tables has the types of rows and archives.
LEMMA PersistedTypes ==
  ASSUME StateTypes, Insertable, NEW c \in Calls
  PROVE  /\ PersistedRow(c) \in ApiCallRow \cup {None}
         /\ PersistedArchive(c) \in {"none", "request", "downstream"}
<1>1. PersistedArchive(c) \in {"none", "request", "downstream"}
  BY DEF PersistedArchive, StateTypes
<1> DEFINE i == CHOOSE j \in EventsIn(batch, c) : TRUE
           inserted == IF EventsIn(batch, c) = {} THEN api_calls[c]
                       ELSE InsertedRow(batch[i].event)
<1>2. ASSUME EventsIn(batch, c) # {} PROVE InsertedRow(batch[i].event) \in ApiCallRow
  <2>1. i \in EventsIn(batch, c)
    BY <1>2
  <2>2. batch[i] \in QueuedAudit /\ batch[i].kind = "Event"
    BY <2>1 DEF EventsIn, IsEvent, StateTypes
  <2>3. batch[i].event \in AuditEvent
    BY <2>2 DEF QueuedAudit
  <2> QED
    BY <2>3 DEF AuditEvent, ApiCallRow, InsertedRow, ReferencedProvider
<1>3. inserted \in ApiCallRow \cup {None}
  BY <1>2 DEF StateTypes
<1>4. ASSUME \E j \in DOMAIN batch : TransportApplies(c, j) PROVE inserted \in ApiCallRow
  BY <1>2, <1>3, <1>4 DEF TransportApplies
<1>5. \A r \in ApiCallRow : [r EXCEPT !.transport = TRUE] \in ApiCallRow
  BY DEF ApiCallRow
<1>6. PersistedRow(c) = IF \E j \in DOMAIN batch : TransportApplies(c, j)
                       THEN [inserted EXCEPT !.transport = TRUE] ELSE inserted
  BY DEF PersistedRow
<1> QED
  <2> HIDE DEF inserted
  <2> QED BY <1>1, <1>3, <1>4, <1>5, <1>6

\* Every step keeps the variables within their types.
LEMMA StateTypesInvariant == StateTypes /\ [Next]_vars => StateTypes'
<1> SUFFICES ASSUME StateTypes, [Next]_vars PROVE StateTypes'
  OBVIOUS
<1> USE CapacityAssumption DEF Phases
<1>1. ASSUME NEW c \in Calls, NEW k \in Consumers, Begin(c, k) PROVE StateTypes'
  <2> DEFINE reserved == free > 0
             archived == /\ reserved
                         /\ consumers[k].request_archive
                         /\ budget >= ARCHIVE_RESERVATION_BYTES
  <2>1. NewEvent(k, archived) \in AuditEvent
    BY DEF NewEvent, AuditEvent, Statuses
  <2>2. event' \in [Calls -> AuditEvent \cup {None}]
    BY <1>1, <2>1 DEF Begin, StateTypes
  <2>3. free' \in Nat /\ budget' \in Nat
    BY <1>1 DEF Begin, StateTypes
  <2>4. /\ phase' \in [Calls -> Phases]
        /\ permit' \in [Calls -> BOOLEAN]
        /\ archive_budget' \in [Calls -> BOOLEAN]
    BY <1>1 DEF Begin, StateTypes
  <2> QED
    BY <1>1, <2>2, <2>3, <2>4 DEF Begin, StateTypes
<1>2. ASSUME NEW c \in Calls, NEW p \in Providers, SetProvider(c, p) PROVE StateTypes'
  <2>1. event[c] # None => [event[c] EXCEPT !.provider_id = p] \in AuditEvent
    BY DEF StateTypes, AuditEvent
  <2>2. event' \in [Calls -> AuditEvent \cup {None}]
    BY <1>2, <2>1 DEF SetProvider, StateTypes
  <2> QED
    BY <1>2, <2>2 DEF SetProvider, StateTypes
<1>3. ASSUME NEW c \in Calls, FinishRelayed(c) PROVE StateTypes'
  <2>1. "relayed" \in Statuses
    BY DEF Statuses
  <2> QED
    BY <1>3, <2>1, SendTypes DEF FinishRelayed, TransportIdOf, StateTypes
<1>4. ASSUME NEW c \in Calls, FinishError(c) PROVE StateTypes'
  <2>1. "error" \in Statuses
    BY DEF Statuses
  <2> QED
    BY <1>4, <2>1, SendTypes DEF FinishError, StateTypes
<1>5. ASSUME NEW c \in Calls, DropTracker(c) PROVE StateTypes'
  <2>1. "client_cancelled" \in Statuses
    BY DEF Statuses
  <2> QED
    BY <1>5, <2>1, SendTypes DEF DropTracker, StateTypes
<1>6. ASSUME NEW c \in Calls, TakeStream(c) PROVE StateTypes'
  <2>1. event[c] # None => [event[c] EXCEPT !.status = "relayed"] \in AuditEvent
    BY DEF StateTypes, AuditEvent, Statuses
  <2>2. event' \in [Calls -> AuditEvent \cup {None}]
    BY <1>6, <2>1 DEF TakeStream, StateTypes
  <2> QED
    BY <1>6, <2>2 DEF TakeStream, TransportIdOf, StateTypes
<1>7. ASSUME NEW c \in Calls, NEW failed \in BOOLEAN, FinishStream(c, failed)
      PROVE StateTypes'
  <2> DEFINE status == IF failed THEN "upstream_stream_error" ELSE event[c].status
  <2>1. CASE event[c] = None
    BY <1>7, <2>1 DEF FinishStream, Send, StateTypes
  <2>2. CASE event[c] # None
    <3>1. status \in Statuses
      BY <2>2 DEF StateTypes, AuditEvent, Statuses
    <3>2. Send(c, status)
      BY <1>7 DEF FinishStream
    <3> HIDE DEF status
    <3> QED
      BY <1>7, <3>1, <3>2, SendTypes DEF FinishStream, StateTypes
  <2> QED BY <2>1, <2>2
<1>8. ASSUME NEW c \in Calls, DropBody(c) PROVE StateTypes'
  <2>1. "client_cancelled" \in Statuses
    BY DEF Statuses
  <2> QED
    BY <1>8, <2>1, SendTypes DEF DropBody, StateTypes
<1>9. ASSUME NEW c \in Calls, RecordResponseTransport(c) PROVE StateTypes'
  <2> DEFINE m == [kind |-> "ResponseTransport", id |-> c,
                   headers |-> transport_id[c] = "diagnostics"]
  <2>1. m \in QueuedAudit
    BY DEF QueuedAudit
  <2>2. queue' \in {queue, Append(queue, m)} /\ free' \in Nat
    BY <1>9 DEF RecordResponseTransport, StateTypes
  <2>3. queue' \in Seq(QueuedAudit)
    BY <2>1, <2>2 DEF StateTypes
  <2> QED
    BY <1>9, <2>2, <2>3 DEF RecordResponseTransport, StateTypes
<1>10. CASE Recv
  BY <1>10 DEF Recv, TakeMessage, StateTypes
<1>11. CASE Fill
  BY <1>11 DEF Fill, TakeMessage, StateTypes
<1>12. CASE StopFilling \/ PersistErr \/ Retry
  BY <1>12 DEF StopFilling, PersistErr, Retry, StateTypes
<1>13. CASE PersistOk
  <2>1. ReleasedBudget \subseteq Calls
    BY DEF ReleasedBudget, BudgetIn
  <2>2. Cardinality(ReleasedBudget) \in Nat
    BY <2>1, CallsAssumption, FS_Subset, FS_CardinalityType
  <2>3. budget' \in Nat
    <3> DEFINE r == ARCHIVE_RESERVATION_BYTES * Cardinality(ReleasedBudget)
    <3>1. r \in Nat
      BY <2>2, NatProduct
    <3>2. budget' = budget + r
      BY <1>13 DEF PersistOk
    <3> HIDE DEF r
    <3> QED
      BY <3>1, <3>2 DEF StateTypes
  <2>4. api_calls' \in [Calls -> ApiCallRow \cup {None}]
    BY <1>13, PersistedTypes DEF PersistOk
  <2>5. request_archives' \in [Calls -> {"none", "request", "downstream"}]
    BY <1>13, PersistedTypes DEF PersistOk
  <2>6. consumers' \in [Consumers -> ConsumerRow]
    BY <1>13 DEF PersistOk, StateTypes, ConsumerRow
  <2> QED
    BY <1>13, <2>3, <2>4, <2>5, <2>6 DEF PersistOk, StateTypes
<1>14. ASSUME NEW k \in Consumers, ConsumerNext(k) PROVE StateTypes'
  <2>0. consumers[k] \in ConsumerRow
    BY <1>14 DEF StateTypes
  <2>1. ASSUME NEW archive \in BOOLEAN, CreateConsumer(k, archive) PROVE StateTypes'
    <3>1. consumers' \in [Consumers -> ConsumerRow]
      <4>1. [consumers[k] EXCEPT !.state = "active", !.request_archive = archive] \in ConsumerRow
        BY <2>0 DEF ConsumerRow
      <4> QED
        BY <2>1, <4>1 DEF CreateConsumer, StateTypes
    <3> QED
      BY <2>1, <3>1 DEF CreateConsumer, StateTypes
  <2>2. ASSUME NEW archive \in BOOLEAN, UpdateConsumer(k, archive) PROVE StateTypes'
    <3>1. consumers' \in [Consumers -> ConsumerRow]
      <4>1. [consumers[k] EXCEPT !.request_archive = archive] \in ConsumerRow
        BY <2>0 DEF ConsumerRow
      <4> QED
        BY <2>2, <4>1 DEF UpdateConsumer, StateTypes
    <3> QED
      BY <2>2, <3>1 DEF UpdateConsumer, StateTypes
  <2>3. CASE RevokeConsumer(k)
    <3>1. consumers' \in [Consumers -> ConsumerRow]
      <4>1. [consumers[k] EXCEPT !.state = "revoked"] \in ConsumerRow
        BY <2>0 DEF ConsumerRow
      <4> QED
        BY <2>3, <4>1 DEF RevokeConsumer, StateTypes
    <3> QED
      BY <2>3, <3>1 DEF RevokeConsumer, StateTypes
  <2>4. CASE DeleteConsumer(k)
    <3>1. consumers' \in [Consumers -> ConsumerRow]
      <4>1. [consumers[k] EXCEPT !.state = "deleted"] \in ConsumerRow
        BY <2>0 DEF ConsumerRow
      <4> QED
        BY <2>4, <4>1 DEF DeleteConsumer, StateTypes
    <3> QED
      BY <2>4, <3>1 DEF DeleteConsumer, StateTypes
  <2> QED BY <1>14, <2>1, <2>2, <2>3, <2>4 DEF ConsumerNext
<1>15. ASSUME NEW p \in Providers, DeleteProvider(p) PROVE StateTypes'
  <2>1. \A r \in ApiCallRow : RowWithoutProvider(r) \in ApiCallRow
    BY DEF RowWithoutProvider, ApiCallRow
  <2>2. api_calls' \in [Calls -> ApiCallRow \cup {None}]
    BY <1>15, <2>1 DEF DeleteProvider, StateTypes
  <2> QED
    BY <1>15, <2>2 DEF DeleteProvider, StateTypes
<1>16. ASSUME NEW S \in SUBSET Calls, DeleteExpired(S) PROVE StateTypes'
  BY <1>16 DEF DeleteExpired, StateTypes
<1>17. CASE UNCHANGED vars
  BY <1>17 DEF vars, StateTypes
<1> QED
  BY <1>1, <1>2, <1>3, <1>4, <1>5, <1>6, <1>7, <1>8, <1>9, <1>10, <1>11, <1>12,
     <1>13, <1>14, <1>15, <1>16, <1>17 DEF Next, CallNext, WriterNext

-----------------------------------------------------------------------------
(* The steps of the pipeline, as far as events and reservations go.        *)

\* A handler or a body hands its event over, if it still has one.
SendStep(c) ==
    /\ phase[c] \in {"tracked", "upstream", "retried", "streaming", "relaying"}
    /\ \E ph \in {"relaying", "done"} : phase' = [phase EXCEPT ![c] = ph]
    /\ \/ event[c] = None /\ UNCHANGED <<queueVars, event, permit, archive_budget>>
       \/ /\ event[c] # None
          /\ HandOver(c)
          /\ UNCHANGED <<free, budget>>
          /\ \E m \in QueuedAudit :
               /\ queue' = Append(queue, m)
               /\ m.kind = "Event" /\ m.id = c
               /\ m.event.request_archive = event[c].request_archive
               /\ m.archive_budget = archive_budget[c]
    /\ UNCHANGED <<batch, writer, api_calls>>

\* A handler fills in its event.
EditStep(c) ==
    /\ phase[c] \in {"tracked", "upstream", "retried"}
    /\ \E ph \in {"upstream", "retried", "streaming"} :
          phase' = [phase EXCEPT ![c] = ph]
    /\ \/ event' = event
       \/ \E e \in AuditEvent :
            /\ event[c] # None
            /\ e.request_archive = event[c].request_archive
            /\ event' = [event EXCEPT ![c] = e]
    /\ UNCHANGED <<permit, archive_budget, queueVars, batch, writer, api_calls>>

\* No event moves; rows may disappear.
QuietStep ==
    /\ UNCHANGED <<phase, permit, archive_budget, event, queueVars, batch>>
    /\ writer' = "recv" => writer = "recv"
    /\ writer' = "fill" => writer = "fill"
    /\ \A c \in Calls : Recorded(c)' => Recorded(c)

StepKind ==
    \/ \E c \in Calls : \/ \E k \in Consumers : Begin(c, k)
                        \/ SendStep(c)
                        \/ EditStep(c)
                        \/ RecordResponseTransport(c)
    \/ Recv
    \/ Fill
    \/ PersistOk
    \/ QuietStep

\* A send appends one message to the channel.
LEMMA SendAppends ==
  ASSUME StateTypes, NEW c \in Calls, NEW s, event[c] # None => s \in Statuses,
         phase[c] \in {"tracked", "upstream", "retried", "streaming", "relaying"},
         Send(c, s),
         NEW ph \in {"relaying", "done"}, phase' = [phase EXCEPT ![c] = ph],
         UNCHANGED <<batch, writer, api_calls>>
  PROVE  SendStep(c)
<1>1. CASE event[c] = None
  BY <1>1 DEF Send, SendStep
<1>2. CASE event[c] # None
  <2> DEFINE m == [kind |-> "Event", id |-> c,
                   event |-> [event[c] EXCEPT !.status = s],
                   archive_budget |-> archive_budget[c]]
  <2>1. event[c] \in AuditEvent
    BY <1>2 DEF StateTypes
  <2>2. /\ [event[c] EXCEPT !.status = s] \in AuditEvent
        /\ [event[c] EXCEPT !.status = s].request_archive = event[c].request_archive
    BY <1>2, <2>1 DEF AuditEvent
  <2>3. /\ m \in QueuedAudit /\ m.kind = "Event" /\ m.id = c
        /\ m.event.request_archive = event[c].request_archive
        /\ m.archive_budget = archive_budget[c]
    BY <2>2 DEF QueuedAudit, StateTypes
  <2>4. queue' = Append(queue, m) /\ HandOver(c) /\ free' = free /\ budget' = budget
    BY <1>2 DEF Send
  <2> HIDE DEF m
  <2> QED BY <1>2, <2>3, <2>4 DEF SendStep
<1> QED BY <1>1, <1>2

\* Every step is of one of the kinds above.
LEMMA StepKinds == StateTypes /\ [Next]_vars => StepKind
<1> SUFFICES ASSUME StateTypes, [Next]_vars PROVE StepKind
  OBVIOUS
<1>1. ASSUME NEW c \in Calls, NEW p \in Providers, SetProvider(c, p) PROVE EditStep(c)
  <2>1. CASE event[c] = None
    BY <1>1, <2>1 DEF SetProvider, EditStep
  <2>2. CASE event[c] # None
    <3> DEFINE e == [event[c] EXCEPT !.provider_id = p]
    <3>1. e \in AuditEvent /\ e.request_archive = event[c].request_archive
      BY <2>2 DEF StateTypes, AuditEvent
    <3>2. event' = [event EXCEPT ![c] = e]
      BY <1>1, <2>2 DEF SetProvider
    <3> HIDE DEF e
    <3> QED
      BY <1>1, <2>2, <3>1, <3>2 DEF SetProvider, EditStep
  <2> QED BY <2>1, <2>2
<1>2. ASSUME NEW c \in Calls, TakeStream(c) PROVE EditStep(c)
  <2>1. CASE event[c] = None
    BY <1>2, <2>1 DEF TakeStream, EditStep
  <2>2. CASE event[c] # None
    <3> DEFINE e == [event[c] EXCEPT !.status = "relayed"]
    <3>1. e \in AuditEvent /\ e.request_archive = event[c].request_archive
      BY <2>2 DEF StateTypes, AuditEvent, Statuses
    <3>2. event' = [event EXCEPT ![c] = e]
      BY <1>2, <2>2 DEF TakeStream
    <3> HIDE DEF e
    <3> QED
      BY <1>2, <2>2, <3>1, <3>2 DEF TakeStream, EditStep
  <2> QED BY <2>1, <2>2
<1>3. ASSUME NEW c \in Calls, FinishRelayed(c) \/ FinishError(c) \/ DropTracker(c)
                                \/ DropBody(c)
      PROVE SendStep(c)
  <2>1. {"relayed", "error", "client_cancelled"} \subseteq Statuses
    BY DEF Statuses
  <2> QED
    BY <1>3, <2>1, SendAppends
       DEF FinishRelayed, FinishError, DropTracker, DropBody, Handling, BodyStarted
<1>4. ASSUME NEW c \in Calls, NEW failed \in BOOLEAN, FinishStream(c, failed)
      PROVE SendStep(c)
  <2> DEFINE status == IF failed THEN "upstream_stream_error" ELSE event[c].status
  <2>1. event[c] # None => status \in Statuses
    BY DEF StateTypes, AuditEvent, Statuses
  <2>2. /\ Send(c, status)
        /\ phase[c] = "streaming" /\ phase' = [phase EXCEPT ![c] = "relaying"]
        /\ UNCHANGED <<batch, writer, api_calls>>
    BY <1>4 DEF FinishStream
  <2> HIDE DEF status
  <2> QED BY <2>1, <2>2, SendAppends
<1>5. CASE StopFilling \/ PersistErr \/ Retry
  BY <1>5 DEF StopFilling, PersistErr, Retry, QuietStep, Recorded, StepKind
<1>6. ASSUME NEW k \in Consumers, ConsumerNext(k) PROVE QuietStep
  <2>1. CASE DeleteConsumer(k)
    BY <2>1 DEF DeleteConsumer, QuietStep, Recorded
  <2>2. CASE ~ DeleteConsumer(k)
    BY <1>6, <2>2 DEF ConsumerNext, CreateConsumer, UpdateConsumer, RevokeConsumer,
                      QuietStep, Recorded
  <2> QED BY <2>1, <2>2
<1>7. ASSUME NEW p \in Providers, DeleteProvider(p) PROVE QuietStep
  BY <1>7 DEF DeleteProvider, QuietStep, Recorded
<1>8. ASSUME NEW S \in SUBSET Calls, DeleteExpired(S) PROVE QuietStep
  BY <1>8 DEF DeleteExpired, QuietStep, Recorded
<1>9. CASE UNCHANGED vars
  BY <1>9 DEF vars, QuietStep, Recorded, StepKind
<1> QED
  BY <1>1, <1>2, <1>3, <1>4, <1>5, <1>6, <1>7, <1>8, <1>9
     DEF Next, CallNext, WriterNext, StepKind

-----------------------------------------------------------------------------
(* Where messages are after a send and after a receive.                    *)

\* The places of a kind of message after one message was appended.
LEMMA PlacesAfterAppend ==
  ASSUME NEW s \in Seq(QueuedAudit), NEW m \in QueuedAudit, NEW c \in Calls
  PROVE  /\ EventsIn(Append(s, m), c)
              = EventsIn(s, c) \cup {i \in {Len(s) + 1} : IsEvent(m, c)}
         /\ TransportsIn(Append(s, m), c)
              = TransportsIn(s, c) \cup {i \in {Len(s) + 1} : IsTransport(m, c)}
         /\ EventsIn(s, c) \subseteq 1 .. Len(s)
         /\ TransportsIn(s, c) \subseteq 1 .. Len(s)
<1>1. DOMAIN s = 1 .. Len(s) /\ Len(s) \in Nat
  OBVIOUS
<1>2. DOMAIN Append(s, m) = 1 .. Len(s) + 1
  OBVIOUS
<1>3. \A i \in 1 .. Len(s) : Append(s, m)[i] = s[i]
  OBVIOUS
<1>4. Append(s, m)[Len(s) + 1] = m
  OBVIOUS
<1> QED
  BY <1>1, <1>2, <1>3, <1>4 DEF EventsIn, TransportsIn

\* A message of another kind or call leaves the places as they are.
LEMMA PlacesAfterOther ==
  ASSUME NEW s \in Seq(QueuedAudit), NEW m \in QueuedAudit, NEW c \in Calls
  PROVE  /\ ~ IsEvent(m, c) => EventsIn(Append(s, m), c) = EventsIn(s, c)
         /\ ~ IsTransport(m, c) => TransportsIn(Append(s, m), c) = TransportsIn(s, c)
<1>1. DOMAIN s = 1 .. Len(s) /\ Len(s) \in Nat
  OBVIOUS
<1>2. DOMAIN Append(s, m) = 1 .. Len(s) + 1
  OBVIOUS
<1>3. \A i \in 1 .. Len(s) : Append(s, m)[i] = s[i]
  OBVIOUS
<1>4. Append(s, m)[Len(s) + 1] = m
  OBVIOUS
<1> QED
  BY <1>1, <1>2, <1>3, <1>4 DEF EventsIn, TransportsIn

\* The places of a kind of message after the first message was taken.
LEMMA PlacesAfterTail ==
  ASSUME NEW s \in Seq(QueuedAudit), s # <<>>, NEW c \in Calls
  PROVE  /\ EventsIn(Tail(s), c) = {i \in 1 .. Len(s) - 1 : i + 1 \in EventsIn(s, c)}
         /\ TransportsIn(Tail(s), c) = {i \in 1 .. Len(s) - 1 : i + 1 \in TransportsIn(s, c)}
         /\ 1 \in EventsIn(s, c) <=> IsEvent(Head(s), c)
         /\ 1 \in TransportsIn(s, c) <=> IsTransport(Head(s), c)
         /\ EventsIn(s, c) \subseteq 1 .. Len(s)
         /\ TransportsIn(s, c) \subseteq 1 .. Len(s)
<1>1. DOMAIN s = 1 .. Len(s) /\ Len(s) \in Nat /\ Len(s) > 0
  OBVIOUS
<1>2. DOMAIN Tail(s) = 1 .. Len(s) - 1
  OBVIOUS
<1>3. \A i \in 1 .. Len(s) - 1 : Tail(s)[i] = s[i + 1]
  OBVIOUS
<1>4. Head(s) = s[1]
  OBVIOUS
<1> QED
  BY <1>1, <1>2, <1>3, <1>4 DEF EventsIn, TransportsIn

-----------------------------------------------------------------------------
(* The inductive invariant.  ReservedOnce, CapacityConserved and           *)
(* BudgetConserved are parts of it as they stand; the others say where an  *)
(* event can be.                                                           *)

\* An event is in one place, and nowhere before its call begins.
OnePlace ==
    \A c \in Calls :
        /\ \A i, j \in EventsIn(queue, c) : i = j
        /\ \A i, j \in EventsIn(batch, c) : i = j
        /\ ~ (Enqueued(c) /\ InBatch(c))
        /\ Enqueued(c) \/ InBatch(c) => ~ Recorded(c)
        /\ Tracked(c) \/ phase[c] = "idle" => ~ Enqueued(c) /\ ~ InBatch(c) /\ ~ Recorded(c)

\* A call whose handler has not begun or has finished owns no event.
OwnersAlive ==
    \A c \in Calls : phase[c] \in {"idle", "relaying", "done"} => ~ Tracked(c)

\* The writer receives into an empty batch and never overfills it.
BatchBounded ==
    /\ writer = "recv" => batch = <<>>
    /\ Len(batch) <= BATCH_CAPACITY

Ownership == ReservedOnce /\ OnePlace /\ OwnersAlive /\ BatchBounded

\* Every step keeps ReservedOnce.
LEMMA ReservedOnceStep == StateTypes /\ ReservedOnce /\ [Next]_vars => ReservedOnce'
<1> SUFFICES ASSUME StateTypes, ReservedOnce, StepKind PROVE ReservedOnce'
  BY StepKinds
<1>1. ASSUME NEW c \in Calls, NEW k \in Consumers, Begin(c, k) PROVE ReservedOnce'
  <2> DEFINE archived == /\ free > 0
                         /\ consumers[k].request_archive
                         /\ budget >= ARCHIVE_RESERVATION_BYTES
  <2>1. NewEvent(k, archived) \in AuditEvent /\ NewEvent(k, archived).request_archive = archived
    BY DEF NewEvent, AuditEvent, Statuses
  <2>2. /\ permit' = [permit EXCEPT ![c] = free > 0]
        /\ archive_budget' = [archive_budget EXCEPT ![c] = archived]
        /\ event' = [event EXCEPT ![c] = IF free > 0 THEN NewEvent(k, archived) ELSE None]
    BY <1>1 DEF Begin
  <2>3. archived \in BOOLEAN /\ (archived => free > 0)
    OBVIOUS
  <2> HIDE DEF archived
  <2> QED
    BY <2>1, <2>2, <2>3, NoneAssumption DEF ReservedOnce, Tracked, StateTypes
<1>2. ASSUME NEW c \in Calls, SendStep(c) PROVE ReservedOnce'
  BY <1>2 DEF SendStep, HandOver, ReservedOnce, Tracked, StateTypes
<1>3. ASSUME NEW c \in Calls, EditStep(c) PROVE ReservedOnce'
  BY <1>3, NoneAssumption DEF EditStep, ReservedOnce, Tracked, StateTypes
<1>4. ASSUME NEW c \in Calls, RecordResponseTransport(c) PROVE ReservedOnce'
  BY <1>4 DEF RecordResponseTransport, ReservedOnce, Tracked
<1>5. CASE Recv \/ Fill \/ PersistOk \/ QuietStep
  BY <1>5 DEF Recv, Fill, PersistOk, QuietStep, ReservedOnce, Tracked
<1> QED
  BY <1>1, <1>2, <1>3, <1>4, <1>5 DEF StepKind

\* Every step keeps OwnersAlive.
LEMMA OwnersAliveStep == StateTypes /\ OwnersAlive /\ [Next]_vars => OwnersAlive'
<1> SUFFICES ASSUME StateTypes, OwnersAlive, StepKind PROVE OwnersAlive'
  BY StepKinds
<1> USE DEF OwnersAlive, Tracked
<1>1. ASSUME NEW c \in Calls, NEW k \in Consumers, Begin(c, k) PROVE OwnersAlive'
  BY <1>1 DEF Begin, StateTypes
<1>2. ASSUME NEW c \in Calls, SendStep(c) PROVE OwnersAlive'
  BY <1>2 DEF SendStep, HandOver, StateTypes
<1>3. ASSUME NEW c \in Calls, EditStep(c) PROVE OwnersAlive'
  BY <1>3 DEF EditStep, StateTypes
<1>4. ASSUME NEW c \in Calls, RecordResponseTransport(c) PROVE OwnersAlive'
  BY <1>4 DEF RecordResponseTransport, BodyEnded, StateTypes
<1>5. CASE Recv \/ Fill \/ PersistOk \/ QuietStep
  BY <1>5 DEF Recv, Fill, PersistOk, QuietStep
<1> QED
  BY <1>1, <1>2, <1>3, <1>4, <1>5 DEF StepKind

\* Every step keeps BatchBounded.
LEMMA BatchBoundedStep == StateTypes /\ BatchBounded /\ [Next]_vars => BatchBounded'
<1> SUFFICES ASSUME StateTypes, BatchBounded, StepKind PROVE BatchBounded'
  BY StepKinds
<1>1. ASSUME NEW c \in Calls, \/ \E k \in Consumers : Begin(c, k)
                              \/ SendStep(c) \/ EditStep(c) \/ RecordResponseTransport(c)
      PROVE BatchBounded'
  BY <1>1 DEF Begin, SendStep, EditStep, RecordResponseTransport, BatchBounded
<1>2. CASE Recv
  <2>1. Len(<<Head(queue)>>) = 1
    OBVIOUS
  <2> QED
    BY <1>2, <2>1, CapacityAssumption DEF Recv, BatchBounded
<1>3. CASE Fill
  <2>1. Head(queue) \in QueuedAudit
    BY <1>3 DEF Fill, TakeMessage, StateTypes
  <2>2. Len(batch') = Len(batch) + 1
    BY <1>3, <2>1 DEF Fill, StateTypes
  <2>3. Len(batch) \in Nat
    BY DEF StateTypes
  <2> QED
    BY <1>3, <2>2, <2>3, CapacityAssumption DEF Fill, BatchBounded
<1>4. CASE PersistOk
  <2>1. Len(<<>>) = 0
    OBVIOUS
  <2> QED
    BY <1>4, <2>1, CapacityAssumption DEF PersistOk, BatchBounded
<1>5. CASE QuietStep
  BY <1>5 DEF QuietStep, BatchBounded
<1> QED
  BY <1>1, <1>2, <1>3, <1>4, <1>5 DEF StepKind
\* A committed batch leaves a row for every event in it and for no other call.
LEMMA RecordedAfterPersist ==
  ASSUME StateTypes, PersistOk, NEW c \in Calls
  PROVE  Recorded(c)' <=> Recorded(c) \/ InBatch(c)
<1> DEFINE i == CHOOSE j \in EventsIn(batch, c) : TRUE
           inserted == IF EventsIn(batch, c) = {} THEN api_calls[c]
                       ELSE InsertedRow(batch[i].event)
<1>1. api_calls'[c] = PersistedRow(c) /\ Insertable
  BY DEF PersistOk
<1>2. PersistedRow(c) = IF \E j \in DOMAIN batch : TransportApplies(c, j)
                       THEN [inserted EXCEPT !.transport = TRUE] ELSE inserted
  BY DEF PersistedRow
<1>3. CASE EventsIn(batch, c) # {}
  <2>1. i \in EventsIn(batch, c)
    BY <1>3
  <2>2. batch[i] \in QueuedAudit /\ batch[i].kind = "Event"
    BY <2>1 DEF EventsIn, IsEvent, StateTypes
  <2>3. batch[i].event \in AuditEvent
    BY <2>2 DEF QueuedAudit
  <2>4. InsertedRow(batch[i].event) \in ApiCallRow
    BY <2>3 DEF AuditEvent, ApiCallRow, InsertedRow, ReferencedProvider
  <2>5. inserted \in ApiCallRow
    BY <1>3, <2>4
  <2> HIDE DEF inserted
  <2>6. [inserted EXCEPT !.transport = TRUE] \in ApiCallRow
    BY <2>5 DEF ApiCallRow
  <2> QED
    BY <1>1, <1>2, <1>3, <2>5, <2>6, NoneAssumption DEF Recorded, InBatch
<1>4. CASE EventsIn(batch, c) = {}
  <2>1. inserted = api_calls[c]
    BY <1>4
  <2> HIDE DEF inserted
  <2>2. CASE api_calls[c] = None
    BY <1>1, <1>2, <1>4, <2>1, <2>2 DEF Recorded, InBatch, TransportApplies
  <2>3. CASE api_calls[c] # None
    <3>1. api_calls[c] \in ApiCallRow
      BY <2>3 DEF StateTypes
    <3>2. [inserted EXCEPT !.transport = TRUE] \in ApiCallRow
      BY <2>1, <3>1 DEF ApiCallRow
    <3> QED
      BY <1>1, <1>2, <2>1, <3>1, <3>2, NoneAssumption DEF Recorded
  <2> QED BY <2>2, <2>3
<1> QED BY <1>3, <1>4

\* Receiving moves the head of the queue to the end of the batch.
LEMMA ReceiveMoves ==
  ASSUME StateTypes, BatchBounded, Recv \/ Fill
  PROVE  /\ queue # <<>> /\ Head(queue) \in QueuedAudit
         /\ queue' = Tail(queue)
         /\ batch' = Append(batch, Head(queue))
         /\ free' = free + 1
         /\ UNCHANGED <<callVars, budget, dbVars>>
<1>1. queue # <<>> /\ queue' = Tail(queue) /\ free' = free + 1
      /\ UNCHANGED <<callVars, budget, dbVars>>
  BY DEF Recv, Fill, TakeMessage
<1>2. Head(queue) \in QueuedAudit
  BY <1>1 DEF StateTypes
<1>3. <<Head(queue)>> = Append(<<>>, Head(queue))
  OBVIOUS
<1> QED
  BY <1>1, <1>2, <1>3 DEF Recv, Fill, BatchBounded

\* Every step keeps each event in one place.
LEMMA OnePlaceStep ==
  StateTypes /\ Ownership /\ [Next]_vars => OnePlace'
<1> SUFFICES ASSUME StateTypes, Ownership, StepKind PROVE OnePlace'
  BY StepKinds
<1> USE DEF Ownership
<1>1. ASSUME NEW c \in Calls, NEW k \in Consumers, Begin(c, k) PROVE OnePlace'
  <2>1. /\ phase[c] = "idle"
        /\ phase' = [phase EXCEPT ![c] = "tracked"]
        /\ \A d \in Calls \ {c} : event'[d] = event[d]
        /\ UNCHANGED <<queue, batch, api_calls>>
    BY <1>1 DEF Begin, StateTypes
  <2>2. ~ Enqueued(c) /\ ~ InBatch(c) /\ ~ Recorded(c)
    BY <2>1 DEF OnePlace
  <2>3. \A d \in Calls : /\ Enqueued(d)' = Enqueued(d)
                        /\ InBatch(d)' = InBatch(d)
                        /\ Recorded(d)' = Recorded(d)
    BY <2>1 DEF Enqueued, InBatch, Recorded
  <2>4. \A d \in Calls : (Tracked(d) \/ phase[d] = "idle")'
                          => Tracked(d) \/ phase[d] = "idle"
    BY <2>1 DEF Tracked, StateTypes
  <2>5. \A d \in Calls : /\ \A i, j \in EventsIn(queue', d) : i = j
                        /\ \A i, j \in EventsIn(batch', d) : i = j
    BY <2>1 DEF OnePlace
  <2> QED
    BY <2>3, <2>4, <2>5 DEF OnePlace
<1>2. ASSUME NEW c \in Calls, SendStep(c) PROVE OnePlace'
  <2>1. CASE event[c] = None
    BY <1>2, <2>1 DEF SendStep, OnePlace, Tracked, Enqueued, InBatch, Recorded, StateTypes
  <2>2. CASE event[c] # None
    <3>1. PICK m \in QueuedAudit : queue' = Append(queue, m) /\ m.kind = "Event" /\ m.id = c
      BY <1>2, <2>2 DEF SendStep
    <3>2. EventsIn(queue', c) = {Len(queue) + 1}
      <4>1. EventsIn(queue, c) = {}
        BY <2>2 DEF OnePlace, Tracked, Enqueued
      <4> QED
        BY <3>1, <4>1, PlacesAfterAppend DEF StateTypes, IsEvent
    <3>3. \A d \in Calls \ {c} : EventsIn(queue', d) = EventsIn(queue, d)
      <4> SUFFICES ASSUME NEW d \in Calls \ {c}
                   PROVE  EventsIn(queue', d) = EventsIn(queue, d)
        OBVIOUS
      <4>1. ~ IsEvent(m, d)
        BY <3>1 DEF IsEvent
      <4> QED
        BY <3>1, <4>1, PlacesAfterOther DEF StateTypes
    <3>4. /\ event' = [event EXCEPT ![c] = None] /\ phase'[c] # "idle"
          /\ \A d \in Calls \ {c} : phase'[d] = phase[d]
          /\ UNCHANGED <<batch, api_calls>>
      BY <1>2, <2>2 DEF SendStep, HandOver, StateTypes
    <3> QED
      BY <2>2, <3>2, <3>3, <3>4
         DEF OnePlace, Tracked, Enqueued, InBatch, Recorded, StateTypes
  <2> QED BY <2>1, <2>2
<1>3. ASSUME NEW c \in Calls, EditStep(c) PROVE OnePlace'
  BY <1>3 DEF EditStep, OnePlace, Tracked, Enqueued, InBatch, Recorded, StateTypes
<1>4. ASSUME NEW c \in Calls, RecordResponseTransport(c) PROVE OnePlace'
  <2> DEFINE m == [kind |-> "ResponseTransport", id |-> c,
                   headers |-> transport_id[c] = "diagnostics"]
  <2>1. m \in QueuedAudit /\ \A d \in Calls : ~ IsEvent(m, d)
    BY DEF QueuedAudit, IsEvent
  <2>2. queue' \in {queue, Append(queue, m)}
    BY <1>4 DEF RecordResponseTransport
  <2> HIDE DEF m
  <2>3. \A d \in Calls : EventsIn(queue', d) = EventsIn(queue, d)
    BY <2>1, <2>2, PlacesAfterOther DEF StateTypes
  <2> QED
    BY <1>4, <2>3 DEF RecordResponseTransport, OnePlace, Tracked, Enqueued, InBatch,
                      Recorded, StateTypes
<1>5. CASE Recv \/ Fill
  <2>1. /\ queue # <<>> /\ Head(queue) \in QueuedAudit
        /\ queue' = Tail(queue) /\ batch' = Append(batch, Head(queue))
        /\ UNCHANGED <<event, phase, api_calls>>
    BY <1>5, ReceiveMoves
  <2> SUFFICES ASSUME NEW d \in Calls
               PROVE  /\ \A i, j \in EventsIn(queue', d) : i = j
                      /\ \A i, j \in EventsIn(batch', d) : i = j
                      /\ ~ (Enqueued(d)' /\ InBatch(d)')
                      /\ Enqueued(d)' \/ InBatch(d)' => Enqueued(d) \/ InBatch(d)
    BY <2>1 DEF OnePlace, Tracked, Recorded
  <2>2. EventsIn(queue', d) = {i \in 1 .. Len(queue) - 1 : i + 1 \in EventsIn(queue, d)}
    BY <2>1, PlacesAfterTail DEF StateTypes
  <2>3. 1 \in EventsIn(queue, d) <=> IsEvent(Head(queue), d)
    BY <2>1, PlacesAfterTail DEF StateTypes
  <2>4. EventsIn(batch', d)
          = EventsIn(batch, d) \cup {i \in {Len(batch) + 1} : IsEvent(Head(queue), d)}
    BY <2>1, PlacesAfterAppend DEF StateTypes
  <2>5. /\ \A i, j \in EventsIn(queue, d) : i = j
        /\ \A i, j \in EventsIn(batch, d) : i = j
        /\ EventsIn(queue, d) = {} \/ EventsIn(batch, d) = {}
    BY DEF OnePlace, Enqueued, InBatch
  <2>6. CASE IsEvent(Head(queue), d)
    <3>1. EventsIn(queue, d) = {1} /\ EventsIn(batch, d) = {}
      BY <2>3, <2>5, <2>6
    <3>2. EventsIn(queue', d) = {} /\ EventsIn(batch', d) = {Len(batch) + 1}
      BY <2>2, <2>4, <2>6, <3>1
    <3> QED
      BY <3>1, <3>2 DEF Enqueued, InBatch
  <2>7. CASE ~ IsEvent(Head(queue), d)
    <3>1. EventsIn(batch', d) = EventsIn(batch, d)
      BY <2>4, <2>7
    <3>2. Len(queue) \in Nat
      BY DEF StateTypes
    <3>3. \A i, j \in EventsIn(queue', d) : i = j
      BY <2>2, <2>5, <3>2
    <3>4. EventsIn(queue', d) # {} => EventsIn(queue, d) # {}
      BY <2>2
    <3> QED
      BY <2>5, <3>1, <3>3, <3>4 DEF Enqueued, InBatch
  <2> QED BY <2>6, <2>7
<1>6. CASE PersistOk
  <2>1. \A c \in Calls : Recorded(c)' <=> Recorded(c) \/ InBatch(c)
    BY <1>6, RecordedAfterPersist
  <2>2. \A c \in Calls : EventsIn(<<>>, c) = {}
    BY DEF EventsIn
  <2>3. batch' = <<>> /\ UNCHANGED <<queue, event, phase>>
    BY <1>6 DEF PersistOk
  <2> QED
    BY <2>1, <2>2, <2>3 DEF OnePlace, Tracked, Enqueued, InBatch
<1>7. CASE QuietStep
  BY <1>7 DEF QuietStep, OnePlace, Tracked, Enqueued, InBatch
<1> QED
  BY <1>1, <1>2, <1>3, <1>4, <1>5, <1>6, <1>7 DEF StepKind
-----------------------------------------------------------------------------
(* Slots.                                                                  *)

\* Every step conserves the slots of the channel.
LEMMA CapacityStep ==
  StateTypes /\ Ownership /\ CapacityConserved /\ [Next]_vars => CapacityConserved'
<1> SUFFICES ASSUME StateTypes, Ownership, CapacityConserved, StepKind
             PROVE  CapacityConserved'
  BY StepKinds
<1> DEFINE H == {c \in Calls : permit[c]}
<1>1. IsFiniteSet(H) /\ Cardinality(H) \in Nat
  BY CallsAssumption, FS_Subset, FS_CardinalityType
<1>2. free + Len(queue) + Cardinality(H) = QUEUE_CAPACITY
  BY DEF CapacityConserved
<1>3. free \in Nat /\ Len(queue) \in Nat /\ queue \in Seq(QueuedAudit)
  BY DEF StateTypes
<1>4. H' = {c \in Calls : permit'[c]}
  OBVIOUS
<1> SUFFICES free' + Len(queue') + Cardinality(H') = QUEUE_CAPACITY
  BY DEF CapacityConserved
<1>5. ASSUME NEW c \in Calls, NEW k \in Consumers, Begin(c, k)
      PROVE  free' + Len(queue') + Cardinality(H') = QUEUE_CAPACITY
  <2>1. ~ permit[c]
    BY <1>5 DEF Begin, Ownership, OwnersAlive, ReservedOnce
  <2>2. queue' = queue /\ permit' = [permit EXCEPT ![c] = free > 0]
        /\ free' = IF free > 0 THEN free - 1 ELSE free
    BY <1>5 DEF Begin
  <2>3. CASE free > 0
    <3>1. H' = H \cup {c}
      BY <1>4, <2>2, <2>3 DEF StateTypes
    <3>2. Cardinality(H') = Cardinality(H) + 1
      BY <1>1, <2>1, <3>1, FS_AddElement
    <3> HIDE DEF H
    <3> QED BY <1>1, <1>2, <1>3, <2>2, <2>3, <3>2
  <2>4. CASE ~ free > 0
    <3>1. H' = H
      BY <1>4, <2>1, <2>2, <2>4 DEF StateTypes
    <3> QED BY <1>2, <2>2, <2>4, <3>1
  <2> QED BY <2>3, <2>4
<1>6. ASSUME NEW c \in Calls, SendStep(c)
      PROVE  free' + Len(queue') + Cardinality(H') = QUEUE_CAPACITY
  <2>1. CASE event[c] = None
    BY <1>2, <1>6, <2>1 DEF SendStep
  <2>2. CASE event[c] # None
    <3>1. PICK m \in QueuedAudit : queue' = Append(queue, m)
      BY <1>6, <2>2 DEF SendStep
    <3>2. permit[c] /\ permit' = [permit EXCEPT ![c] = FALSE] /\ free' = free
      BY <1>6, <2>2 DEF SendStep, HandOver, Ownership, ReservedOnce, Tracked
    <3>3. Len(queue') = Len(queue) + 1
      BY <1>3, <3>1
    <3>4. H' = H \ {c}
      BY <1>4, <3>2 DEF StateTypes
    <3>5. Cardinality(H') = Cardinality(H) - 1
      BY <1>1, <3>2, <3>4, FS_RemoveElement
    <3> HIDE DEF H
    <3> QED BY <1>1, <1>2, <1>3, <3>2, <3>3, <3>5
  <2> QED BY <2>1, <2>2
<1>7. ASSUME NEW c \in Calls, EditStep(c)
      PROVE  free' + Len(queue') + Cardinality(H') = QUEUE_CAPACITY
  BY <1>2, <1>7 DEF EditStep
<1>8. ASSUME NEW c \in Calls, RecordResponseTransport(c)
      PROVE  free' + Len(queue') + Cardinality(H') = QUEUE_CAPACITY
  <2> DEFINE m == [kind |-> "ResponseTransport", id |-> c,
                   headers |-> transport_id[c] = "diagnostics"]
  <2>1. m \in QueuedAudit
    BY DEF QueuedAudit
  <2>2. \/ free' = free /\ queue' = queue
        \/ free > 0 /\ free' = free - 1 /\ queue' = Append(queue, m)
    BY <1>8 DEF RecordResponseTransport
  <2>3. H' = H
    BY <1>8 DEF RecordResponseTransport
  <2> HIDE DEF m, H
  <2>4. free' + Len(queue') = free + Len(queue)
    BY <1>3, <2>1, <2>2
  <2> QED BY <1>2, <2>3, <2>4
<1>9. CASE Recv \/ Fill
  <2>1. queue # <<>> /\ queue' = Tail(queue) /\ free' = free + 1 /\ permit' = permit
    BY <1>9, ReceiveMoves DEF Ownership
  <2>2. Len(queue') = Len(queue) - 1
    BY <1>3, <2>1
  <2>3. H' = H
    BY <2>1
  <2> HIDE DEF H
  <2> QED BY <1>1, <1>2, <1>3, <2>1, <2>2, <2>3
<1>10. CASE PersistOk \/ QuietStep
  BY <1>2, <1>10 DEF PersistOk, QuietStep
<1> QED
  BY <1>5, <1>6, <1>7, <1>8, <1>9, <1>10 DEF StepKind
-----------------------------------------------------------------------------
(* The archive budget.                                                     *)

\* The calls a single message holds budget for: at most its own.
PaidBy(m) == {c \in Calls : IsEvent(m, c) /\ m.archive_budget}

\* The holders of budget after one message was appended.
LEMMA BudgetAfterAppend ==
  ASSUME NEW s \in Seq(QueuedAudit), NEW m \in QueuedAudit
  PROVE  BudgetIn(Append(s, m)) = BudgetIn(s) \cup PaidBy(m)
<1>1. DOMAIN s = 1 .. Len(s) /\ Len(s) \in Nat /\ DOMAIN Append(s, m) = 1 .. Len(s) + 1
  OBVIOUS
<1>2. \A i \in 1 .. Len(s) : Append(s, m)[i] = s[i]
  OBVIOUS
<1>3. Append(s, m)[Len(s) + 1] = m
  OBVIOUS
<1> QED
  BY <1>1, <1>2, <1>3 DEF BudgetIn, EventsIn, PaidBy

\* The holders of budget after the first message was taken.
LEMMA BudgetAfterTail ==
  ASSUME NEW s \in Seq(QueuedAudit), s # <<>>
  PROVE  BudgetIn(s) = BudgetIn(Tail(s)) \cup PaidBy(Head(s))
<1>1. DOMAIN s = 1 .. Len(s) /\ Len(s) \in Nat /\ Len(s) > 0
      /\ DOMAIN Tail(s) = 1 .. Len(s) - 1
  OBVIOUS
<1>2. \A i \in 1 .. Len(s) - 1 : Tail(s)[i] = s[i + 1]
  OBVIOUS
<1>3. Head(s) = s[1]
  OBVIOUS
<1>4. ASSUME NEW c \in BudgetIn(s) PROVE c \in BudgetIn(Tail(s)) \cup PaidBy(Head(s))
  <2>1. PICK i \in 1 .. Len(s) : IsEvent(s[i], c) /\ s[i].archive_budget
    BY <1>1, <1>4 DEF BudgetIn, EventsIn
  <2>2. CASE i = 1
    BY <1>3, <1>4, <2>1, <2>2 DEF PaidBy, BudgetIn
  <2>3. CASE i # 1
    <3>1. i - 1 \in 1 .. Len(s) - 1 /\ Tail(s)[i - 1] = s[i]
      BY <1>1, <1>2, <2>1, <2>3
    <3> QED
      BY <1>1, <1>4, <2>1, <3>1 DEF BudgetIn, EventsIn
  <2> QED BY <2>2, <2>3
<1>5. ASSUME NEW c \in BudgetIn(Tail(s)) PROVE c \in BudgetIn(s)
  BY <1>1, <1>2, <1>5 DEF BudgetIn, EventsIn
<1>6. ASSUME NEW c \in PaidBy(Head(s)) PROVE c \in BudgetIn(s)
  BY <1>1, <1>3, <1>6 DEF BudgetIn, EventsIn, PaidBy
<1> QED BY <1>4, <1>5, <1>6

\* The holders of budget, in the places ownership keeps apart.
LEMMA BudgetPlaces ==
  ASSUME StateTypes, Ownership, NEW c \in Calls
  PROVE  /\ c \in BudgetIn(queue) => Enqueued(c)
         /\ c \in BudgetIn(batch) => InBatch(c)
         /\ archive_budget[c] => Tracked(c)
BY DEF BudgetIn, Enqueued, InBatch, Ownership, ReservedOnce

\* Every step conserves the archive budget.
LEMMA BudgetStep ==
  StateTypes /\ Ownership /\ BudgetConserved /\ [Next]_vars => BudgetConserved'
<1> SUFFICES ASSUME StateTypes, Ownership, BudgetConserved, StepKind
             PROVE  BudgetConserved'
  BY StepKinds
<1> DEFINE A == ARCHIVE_RESERVATION_BYTES
<1>1. IsFiniteSet(BudgetHolders) /\ Cardinality(BudgetHolders) \in Nat
  <2>1. BudgetHolders \subseteq Calls
    BY DEF BudgetHolders, BudgetIn
  <2> QED BY <2>1, CallsAssumption, FS_Subset, FS_CardinalityType
<1>2. budget \in Nat /\ A \in Nat /\ queue \in Seq(QueuedAudit) /\ batch \in Seq(QueuedAudit)
  BY CapacityAssumption DEF StateTypes
<1>3. budget + A * Cardinality(BudgetHolders) = QUEUE_BYTE_CAPACITY
  BY DEF BudgetConserved
<1>4. ASSUME BudgetHolders' = BudgetHolders, budget' = budget PROVE BudgetConserved'
  BY <1>3, <1>4 DEF BudgetConserved
<1>5. ASSUME NEW c \in Calls, NEW k \in Consumers, Begin(c, k) PROVE BudgetConserved'
  <2> DEFINE archived == /\ free > 0
                         /\ consumers[k].request_archive
                         /\ budget >= ARCHIVE_RESERVATION_BYTES
  <2>1. /\ archive_budget' = [archive_budget EXCEPT ![c] = archived]
        /\ budget' = IF archived THEN budget - A ELSE budget
        /\ UNCHANGED <<queue, batch>>
    BY <1>5 DEF Begin
  <2>2. c \notin BudgetHolders
    <3>1. ~ Tracked(c) /\ ~ Enqueued(c) /\ ~ InBatch(c)
      BY <1>5 DEF Begin, Ownership, OwnersAlive, OnePlace
    <3> QED BY <3>1, BudgetPlaces DEF BudgetHolders
  <2>3. BudgetHolders' = IF archived THEN BudgetHolders \cup {c} ELSE BudgetHolders
    <3>1. BudgetHolders' = {d \in Calls : archive_budget'[d]} \cup BudgetIn(queue)
                             \cup BudgetIn(batch)
      BY <2>1 DEF BudgetHolders
    <3>2. archived \in BOOLEAN
      OBVIOUS
    <3> HIDE DEF archived
    <3> QED BY <2>1, <2>2, <3>1, <3>2 DEF BudgetHolders, StateTypes
  <2>4. CASE ~ archived
    BY <1>4, <2>1, <2>3, <2>4
  <2>5. CASE archived
    <3>1. Cardinality(BudgetHolders') = Cardinality(BudgetHolders) + 1
      BY <1>1, <2>2, <2>3, <2>5, FS_AddElement
    <3>2. budget' = budget - A
      BY <2>1, <2>5
    <3> HIDE DEF A
    <3>3. A * (Cardinality(BudgetHolders) + 1) = A * Cardinality(BudgetHolders) + A
      BY <1>1, <1>2
    <3>4. A * Cardinality(BudgetHolders) \in Nat
      BY <1>1, <1>2, NatProduct
    <3>5. budget' + A * Cardinality(BudgetHolders') = QUEUE_BYTE_CAPACITY
      BY <1>2, <1>3, <3>1, <3>2, <3>3, <3>4
    <3> QED BY <3>5 DEF A, BudgetConserved
  <2> QED BY <2>4, <2>5
<1>6. ASSUME NEW c \in Calls, SendStep(c) PROVE BudgetConserved'
  <2>1. CASE event[c] = None
    BY <1>4, <1>6, <2>1 DEF SendStep, BudgetHolders
  <2>2. CASE event[c] # None
    <3>1. PICK m \in QueuedAudit : /\ queue' = Append(queue, m)
                                   /\ m.kind = "Event" /\ m.id = c
                                   /\ m.archive_budget = archive_budget[c]
      BY <1>6, <2>2 DEF SendStep
    <3>2. /\ archive_budget' = [archive_budget EXCEPT ![c] = FALSE]
          /\ budget' = budget /\ batch' = batch
      BY <1>6, <2>2 DEF SendStep, HandOver
    <3>3. BudgetIn(queue') = BudgetIn(queue) \cup PaidBy(m)
      BY <1>2, <3>1, BudgetAfterAppend
    <3>4. PaidBy(m) = {d \in {c} : archive_budget[d]}
      BY <3>1 DEF PaidBy, IsEvent
    <3>5. BudgetHolders' = BudgetHolders
      BY <3>2, <3>3, <3>4 DEF BudgetHolders, StateTypes
    <3> QED BY <1>4, <3>2, <3>5
  <2> QED BY <2>1, <2>2
<1>7. ASSUME NEW c \in Calls, EditStep(c) PROVE BudgetConserved'
  BY <1>4, <1>7 DEF EditStep, BudgetHolders
<1>8. ASSUME NEW c \in Calls, RecordResponseTransport(c) PROVE BudgetConserved'
  <2> DEFINE m == [kind |-> "ResponseTransport", id |-> c,
                   headers |-> transport_id[c] = "diagnostics"]
  <2>1. m \in QueuedAudit /\ PaidBy(m) = {}
    BY DEF QueuedAudit, PaidBy, IsEvent
  <2>2. queue' \in {queue, Append(queue, m)} /\ UNCHANGED <<archive_budget, batch, budget>>
    BY <1>8 DEF RecordResponseTransport
  <2> HIDE DEF m
  <2>3. BudgetIn(queue') = BudgetIn(queue)
    BY ZenonT(40), <1>2, <2>1, <2>2, BudgetAfterAppend
  <2> QED BY <1>4, <2>2, <2>3 DEF BudgetHolders
<1>9. CASE Recv \/ Fill
  <2>1. /\ queue # <<>> /\ Head(queue) \in QueuedAudit
        /\ queue' = Tail(queue) /\ batch' = Append(batch, Head(queue))
        /\ UNCHANGED <<archive_budget, budget>>
    BY <1>9, ReceiveMoves DEF Ownership
  <2>2. BudgetIn(queue) = BudgetIn(queue') \cup PaidBy(Head(queue))
    BY <1>2, <2>1, BudgetAfterTail
  <2>3. BudgetIn(batch') = BudgetIn(batch) \cup PaidBy(Head(queue))
    BY <1>2, <2>1, BudgetAfterAppend
  <2>4. BudgetHolders' = BudgetHolders
    BY <2>1, <2>2, <2>3 DEF BudgetHolders
  <2> QED BY <1>4, <2>1, <2>4
<1>10. CASE PersistOk
  <2> DEFINE R == BudgetIn(batch)
  <2>1. /\ budget' = budget + A * Cardinality(R)
        /\ batch' = <<>> /\ UNCHANGED <<archive_budget, queue>>
    BY <1>10 DEF PersistOk, ReleasedBudget
  <2>2. BudgetIn(batch') = {}
    BY <2>1 DEF BudgetIn, EventsIn
  <2>3. R \subseteq BudgetHolders
    BY DEF BudgetHolders
  <2>4. \A c \in R : c \notin BudgetIn(queue) /\ ~ archive_budget[c]
    BY BudgetPlaces DEF Ownership, OnePlace, BudgetIn
  <2>5. BudgetHolders' = {c \in Calls : archive_budget[c]} \cup BudgetIn(queue)
    BY <2>1, <2>2 DEF BudgetHolders
  <2>6. BudgetHolders' = BudgetHolders \ R
    <3> HIDE DEF R
    <3>1. BudgetHolders = {c \in Calls : archive_budget[c]} \cup BudgetIn(queue) \cup R
      BY DEF BudgetHolders, R
    <3> QED BY <2>4, <2>5, <3>1
  <2>7. BudgetHolders \cap R = R
    BY <2>3
  <2>8. Cardinality(BudgetHolders') = Cardinality(BudgetHolders) - Cardinality(R)
    <3>1. Cardinality(BudgetHolders \ R)
            = Cardinality(BudgetHolders) - Cardinality(BudgetHolders \cap R)
      BY <1>1, FS_Difference
    <3> HIDE DEF R
    <3> QED BY <2>6, <2>7, <3>1, Zenon
  <2>9. Cardinality(R) \in Nat
    BY <1>1, <2>3, FS_Subset, FS_CardinalityType
  <2> HIDE DEF A, R
  <2>10. A * (Cardinality(BudgetHolders) - Cardinality(R))
           = A * Cardinality(BudgetHolders) - A * Cardinality(R)
    BY <1>1, <1>2, <2>9
  <2>11. A * Cardinality(BudgetHolders) \in Nat /\ A * Cardinality(R) \in Nat
    BY <1>1, <1>2, <2>9, NatProduct
  <2>12. budget' + A * Cardinality(BudgetHolders') = QUEUE_BYTE_CAPACITY
    BY <1>2, <1>3, <2>1, <2>8, <2>10, <2>11
  <2> QED BY <2>12 DEF A, BudgetConserved
<1>11. CASE QuietStep
  BY <1>4, <1>11 DEF QuietStep, BudgetHolders
<1> QED
  BY <1>5, <1>6, <1>7, <1>8, <1>9, <1>10, <1>11 DEF StepKind
\* A queued event carries the budget for the archive it carries.
PaidMessage(m) == m.kind = "Event" /\ m.event.request_archive => m.archive_budget

ArchivesPaid ==
    /\ \A i \in DOMAIN queue : PaidMessage(queue[i])
    /\ \A i \in DOMAIN batch : PaidMessage(batch[i])

\* Archives stay paid for when a paid message is appended.
LEMMA PaidAfterAppend ==
  ASSUME NEW s \in Seq(QueuedAudit), NEW m \in QueuedAudit, PaidMessage(m),
         \A i \in DOMAIN s : PaidMessage(s[i])
  PROVE  \A i \in DOMAIN Append(s, m) : PaidMessage(Append(s, m)[i])
<1>1. DOMAIN s = 1 .. Len(s) /\ Len(s) \in Nat /\ DOMAIN Append(s, m) = 1 .. Len(s) + 1
  OBVIOUS
<1>2. \A i \in 1 .. Len(s) : Append(s, m)[i] = s[i]
  OBVIOUS
<1>3. Append(s, m)[Len(s) + 1] = m
  OBVIOUS
<1> QED BY <1>1, <1>2, <1>3

\* Every step keeps archives paid for by their budget.
LEMMA ArchivesPaidStep ==
  StateTypes /\ Ownership /\ ArchivesPaid /\ [Next]_vars => ArchivesPaid'
<1> SUFFICES ASSUME StateTypes, Ownership, ArchivesPaid, StepKind PROVE ArchivesPaid'
  BY StepKinds
<1>1. ASSUME NEW c \in Calls, SendStep(c) PROVE ArchivesPaid'
  <2>1. CASE event[c] = None
    BY <1>1, <2>1 DEF SendStep, ArchivesPaid
  <2>2. CASE event[c] # None
    <3>1. PICK m \in QueuedAudit : /\ queue' = Append(queue, m)
                                   /\ m.event.request_archive = event[c].request_archive
                                   /\ m.archive_budget = archive_budget[c]
      BY <1>1, <2>2 DEF SendStep
    <3>2. PaidMessage(m)
      BY <2>2, <3>1 DEF PaidMessage, Ownership, ReservedOnce, Tracked
    <3>3. \A i \in DOMAIN queue' : PaidMessage(queue'[i])
      BY <3>1, <3>2, PaidAfterAppend DEF ArchivesPaid, StateTypes
    <3> QED
      BY <1>1, <3>3 DEF SendStep, ArchivesPaid
  <2> QED BY <2>1, <2>2
<1>2. ASSUME NEW c \in Calls, RecordResponseTransport(c) PROVE ArchivesPaid'
  <2> DEFINE m == [kind |-> "ResponseTransport", id |-> c,
                   headers |-> transport_id[c] = "diagnostics"]
  <2>1. m \in QueuedAudit /\ PaidMessage(m)
    BY DEF QueuedAudit, PaidMessage
  <2>2. queue' \in {queue, Append(queue, m)} /\ batch' = batch
    BY <1>2 DEF RecordResponseTransport
  <2> HIDE DEF m
  <2> QED
    BY <2>1, <2>2, PaidAfterAppend DEF ArchivesPaid, StateTypes
<1>3. CASE Recv \/ Fill
  <2>1. /\ queue # <<>> /\ Head(queue) \in QueuedAudit
        /\ queue' = Tail(queue) /\ batch' = Append(batch, Head(queue))
    BY <1>3, ReceiveMoves DEF Ownership
  <2>2. /\ DOMAIN queue = 1 .. Len(queue) /\ Len(queue) \in Nat /\ Len(queue) > 0
        /\ DOMAIN queue' = 1 .. Len(queue) - 1
        /\ Head(queue) = queue[1]
    BY <2>1 DEF StateTypes
  <2>3. \A i \in 1 .. Len(queue) - 1 : queue'[i] = queue[i + 1]
    BY <2>1 DEF StateTypes
  <2>4. PaidMessage(Head(queue)) /\ \A i \in DOMAIN queue' : PaidMessage(queue'[i])
    BY <2>2, <2>3 DEF ArchivesPaid
  <2> QED
    BY <2>1, <2>4, PaidAfterAppend DEF ArchivesPaid, StateTypes
<1>4. ASSUME NEW c \in Calls, (\E k \in Consumers : Begin(c, k)) \/ EditStep(c)
      PROVE ArchivesPaid'
  BY <1>4 DEF Begin, EditStep, ArchivesPaid
<1>5. CASE PersistOk \/ QuietStep
  BY <1>5 DEF PersistOk, QuietStep, ArchivesPaid
<1> QED
  BY <1>1, <1>2, <1>3, <1>4, <1>5 DEF StepKind

-----------------------------------------------------------------------------
(* Transports.                                                             *)

\* A transport is sent when its call is done, after its event.
TransportsLast ==
    \A c \in Calls :
        /\ TransportsIn(queue, c) \cup TransportsIn(batch, c) # {} => phase[c] = "done"
        /\ \A i \in TransportsIn(queue, c) : \A j \in EventsIn(queue, c) : j < i
        /\ \A i \in TransportsIn(batch, c) :
              ~ Enqueued(c) /\ \A j \in EventsIn(batch, c) : j < i

\* Every step keeps transports behind their events.
LEMMA TransportsLastStep ==
  StateTypes /\ Ownership /\ TransportsLast /\ [Next]_vars => TransportsLast'
<1> SUFFICES ASSUME StateTypes, Ownership, TransportsLast, StepKind PROVE TransportsLast'
  BY StepKinds
<1>1. ASSUME NEW c \in Calls, NEW k \in Consumers, Begin(c, k) PROVE TransportsLast'
  BY <1>1 DEF Begin, TransportsLast, Enqueued, StateTypes
<1>2. ASSUME NEW c \in Calls, SendStep(c) PROVE TransportsLast'
  <2>1. TransportsIn(queue, c) = {} /\ TransportsIn(batch, c) = {}
    BY <1>2 DEF SendStep, TransportsLast
  <2>2. \A d \in Calls \ {c} : phase'[d] = phase[d]
    BY <1>2 DEF SendStep, StateTypes
  <2>3. batch' = batch
    BY <1>2 DEF SendStep
  <2>4. CASE event[c] = None
    <3>1. queue' = queue
      BY <1>2, <2>4 DEF SendStep
    <3> QED
      BY <2>1, <2>2, <2>3, <3>1 DEF TransportsLast, Enqueued
  <2>5. CASE event[c] # None
    <3>1. PICK m \in QueuedAudit : queue' = Append(queue, m) /\ m.kind = "Event" /\ m.id = c
      BY <1>2, <2>5 DEF SendStep
    <3>2. \A d \in Calls : ~ IsTransport(m, d)
      BY <3>1 DEF IsTransport
    <3>3. \A d \in Calls : TransportsIn(queue', d) = TransportsIn(queue, d)
      BY <3>1, <3>2, PlacesAfterOther DEF StateTypes
    <3>4. \A d \in Calls \ {c} : EventsIn(queue', d) = EventsIn(queue, d)
      <4> SUFFICES ASSUME NEW d \in Calls \ {c}
                   PROVE  EventsIn(queue', d) = EventsIn(queue, d)
        OBVIOUS
      <4>1. ~ IsEvent(m, d)
        BY <3>1 DEF IsEvent
      <4> QED
        BY <3>1, <4>1, PlacesAfterOther DEF StateTypes
    <3> QED
      BY <2>1, <2>2, <2>3, <3>3, <3>4 DEF TransportsLast, Enqueued
  <2> QED BY <2>4, <2>5
<1>3. ASSUME NEW c \in Calls, EditStep(c) PROVE TransportsLast'
  BY <1>3 DEF EditStep, TransportsLast, Enqueued, StateTypes
<1>4. ASSUME NEW c \in Calls, RecordResponseTransport(c) PROVE TransportsLast'
  <2> DEFINE m == [kind |-> "ResponseTransport", id |-> c,
                   headers |-> transport_id[c] = "diagnostics"]
  <2>1. /\ m \in QueuedAudit
        /\ \A d \in Calls : ~ IsEvent(m, d)
        /\ \A d \in Calls \ {c} : ~ IsTransport(m, d)
    BY DEF QueuedAudit, IsEvent, IsTransport
  <2>2. /\ queue' \in {queue, Append(queue, m)} /\ batch' = batch
        /\ phase' = [phase EXCEPT ![c] = "done"]
    BY <1>4 DEF RecordResponseTransport
  <2> HIDE DEF m
  <2>3. \A d \in Calls : EventsIn(queue', d) = EventsIn(queue, d)
    BY <2>1, <2>2, PlacesAfterOther DEF StateTypes
  <2>4. \A d \in Calls \ {c} : TransportsIn(queue', d) = TransportsIn(queue, d)
    BY ZenonT(40), <2>1, <2>2, PlacesAfterOther DEF StateTypes
  <2>5. /\ TransportsIn(queue', c) \subseteq TransportsIn(queue, c) \cup {Len(queue) + 1}
        /\ EventsIn(queue, c) \subseteq 1 .. Len(queue) /\ Len(queue) \in Nat
    <3>1. queue \in Seq(QueuedAudit)
      BY DEF StateTypes
    <3>2. /\ TransportsIn(Append(queue, m), c)
                = TransportsIn(queue, c) \cup {i \in {Len(queue) + 1} : IsTransport(m, c)}
          /\ EventsIn(queue, c) \subseteq 1 .. Len(queue)
      BY <2>1, <3>1, PlacesAfterAppend
    <3>3. TransportsIn(Append(queue, m), c)
            \subseteq TransportsIn(queue, c) \cup {Len(queue) + 1}
      BY <3>2
    <3>4. Len(queue) \in Nat
      BY <3>1
    <3>5. TransportsIn(queue', c) \in {TransportsIn(queue, c), TransportsIn(Append(queue, m), c)}
      BY <2>2
    <3> QED BY <3>2, <3>3, <3>4, <3>5
  <2>6. phase'[c] = "done" /\ \A d \in Calls \ {c} : phase'[d] = phase[d]
    BY <2>2 DEF StateTypes
  <2>7. \A i \in TransportsIn(queue', c) : \A j \in EventsIn(queue', c) : j < i
    BY <2>3, <2>5 DEF TransportsLast
  <2> QED
    BY <2>2, <2>3, <2>4, <2>6, <2>7 DEF TransportsLast, Enqueued
<1>5. CASE Recv \/ Fill
  <2>1. /\ queue # <<>> /\ Head(queue) \in QueuedAudit
        /\ queue' = Tail(queue) /\ batch' = Append(batch, Head(queue)) /\ phase' = phase
        /\ queue \in Seq(QueuedAudit) /\ batch \in Seq(QueuedAudit)
        /\ Len(queue) \in Nat /\ Len(batch) \in Nat
    BY <1>5, ReceiveMoves DEF Ownership, StateTypes
  <2> SUFFICES ASSUME NEW d \in Calls
               PROVE  /\ TransportsIn(queue', d) \cup TransportsIn(batch', d) # {}
                            => phase[d] = "done"
                      /\ \A i \in TransportsIn(queue', d) :
                            \A j \in EventsIn(queue', d) : j < i
                      /\ \A i \in TransportsIn(batch', d) :
                            EventsIn(queue', d) = {} /\ \A j \in EventsIn(batch', d) : j < i
    BY <2>1 DEF TransportsLast, Enqueued
  <2>2. /\ EventsIn(queue', d) = {i \in 1 .. Len(queue) - 1 : i + 1 \in EventsIn(queue, d)}
        /\ TransportsIn(queue', d)
             = {i \in 1 .. Len(queue) - 1 : i + 1 \in TransportsIn(queue, d)}
        /\ 1 \in EventsIn(queue, d) <=> IsEvent(Head(queue), d)
        /\ 1 \in TransportsIn(queue, d) <=> IsTransport(Head(queue), d)
        /\ EventsIn(queue, d) \subseteq 1 .. Len(queue)
    BY <2>1, PlacesAfterTail
  <2>3. /\ EventsIn(batch', d)
             = EventsIn(batch, d) \cup {i \in {Len(batch) + 1} : IsEvent(Head(queue), d)}
        /\ TransportsIn(batch', d)
             = TransportsIn(batch, d)
                 \cup {i \in {Len(batch) + 1} : IsTransport(Head(queue), d)}
        /\ EventsIn(batch, d) \subseteq 1 .. Len(batch)
    BY <2>1, PlacesAfterAppend
  <2>4. /\ TransportsIn(queue, d) \cup TransportsIn(batch, d) # {} => phase[d] = "done"
        /\ \A i \in TransportsIn(queue, d) : \A j \in EventsIn(queue, d) : j < i
        /\ \A i \in TransportsIn(batch, d) :
              EventsIn(queue, d) = {} /\ \A j \in EventsIn(batch, d) : j < i
    BY DEF TransportsLast, Enqueued
  <2>5. TransportsIn(queue', d) \cup TransportsIn(batch', d) # {} => phase[d] = "done"
    BY <2>2, <2>3, <2>4
  <2>6. \A i \in TransportsIn(queue', d) : \A j \in EventsIn(queue', d) : j < i
    BY <2>1, <2>2, <2>4
  <2>7. ASSUME NEW i \in TransportsIn(batch', d)
        PROVE  EventsIn(queue', d) = {} /\ \A j \in EventsIn(batch', d) : j < i
    <3>1. CASE i \in TransportsIn(batch, d)
      <4>1. ~ IsEvent(Head(queue), d) /\ EventsIn(queue', d) = {}
        BY <2>2, <2>4, <3>1
      <4>2. \A j \in EventsIn(batch', d) : j \in EventsIn(batch, d)
        BY <2>3, <4>1
      <4> QED BY <2>4, <3>1, <4>1, <4>2
    <3>2. CASE i = Len(batch) + 1 /\ IsTransport(Head(queue), d)
      <4>1. EventsIn(queue, d) = {}
        BY <2>1, <2>2, <2>4, <3>2
      <4>2. EventsIn(queue', d) = {} /\ ~ IsEvent(Head(queue), d)
        BY <2>2, <4>1
      <4>3. \A j \in EventsIn(batch', d) : j \in 1 .. Len(batch)
        BY <2>3, <4>2
      <4> QED BY <2>1, <3>2, <4>2, <4>3
    <3> QED BY <2>3, <2>7, <3>1, <3>2
  <2> QED BY <2>5, <2>6, <2>7
<1>6. CASE PersistOk
  <2>1. batch' = <<>> /\ UNCHANGED <<queue, phase>>
    BY <1>6 DEF PersistOk
  <2>2. \A c \in Calls : TransportsIn(<<>>, c) = {}
    BY DEF TransportsIn
  <2> QED
    BY <2>1, <2>2 DEF TransportsLast, Enqueued
<1>7. CASE QuietStep
  BY <1>7 DEF QuietStep, TransportsLast, Enqueued
<1> QED
  BY <1>1, <1>2, <1>3, <1>4, <1>5, <1>6, <1>7 DEF StepKind
-----------------------------------------------------------------------------
(* The theorems.                                                           *)

AuditInv ==
    /\ StateTypes
    /\ Ownership
    /\ CapacityConserved
    /\ BudgetConserved
    /\ ArchivesPaid
    /\ TransportsLast

\* The initial states satisfy the invariant.
LEMMA InitAuditInv == Init => AuditInv
<1> SUFFICES ASSUME Init PROVE AuditInv
  OBVIOUS
<1> USE CapacityAssumption DEF Init
<1>1. /\ queue = <<>> /\ batch = <<>> /\ Len(queue) = 0 /\ Len(batch) = 0
      /\ queue \in Seq(QueuedAudit) /\ batch \in Seq(QueuedAudit)
      /\ DOMAIN queue = {} /\ DOMAIN batch = {}
  OBVIOUS
<1>2. \A c \in Calls : /\ EventsIn(queue, c) = {} /\ EventsIn(batch, c) = {}
                       /\ TransportsIn(queue, c) = {} /\ TransportsIn(batch, c) = {}
  BY <1>1 DEF EventsIn, TransportsIn
<1>3. StateTypes
  BY <1>1 DEF StateTypes, Phases, ConsumerRow
<1>4. Ownership
  BY <1>1, <1>2 DEF Ownership, ReservedOnce, OnePlace, OwnersAlive, BatchBounded,
                    Tracked, Enqueued, InBatch, Recorded
<1>5. CapacityConserved
  <2>1. {c \in Calls : permit[c]} = {}
    OBVIOUS
  <2>2. Cardinality({c \in Calls : permit[c]}) = 0
    BY <2>1, FS_EmptySet
  <2> QED BY <1>1, <2>2 DEF CapacityConserved
<1>6. BudgetConserved
  <2>1. BudgetHolders = {}
    BY <1>2 DEF BudgetHolders, BudgetIn
  <2>2. Cardinality(BudgetHolders) = 0
    BY <2>1, FS_EmptySet
  <2> QED BY <2>2 DEF BudgetConserved
<1>7. ArchivesPaid
  BY <1>1 DEF ArchivesPaid
<1>8. TransportsLast
  BY <1>2 DEF TransportsLast
<1> QED BY <1>3, <1>4, <1>5, <1>6, <1>7, <1>8 DEF AuditInv

(***************************************************************************)
(* The inductive invariant of the audit pipeline: whatever the handlers,   *)
(* the dropped futures, the writer and the API do, reservations, budget    *)
(* and the places of events and transports stay consistent.                *)
(***************************************************************************)
THEOREM AuditInvariant == Spec => []AuditInv
<1>1. AuditInv /\ [Next]_vars => AuditInv'
  BY StateTypesInvariant, ReservedOnceStep, OwnersAliveStep, BatchBoundedStep,
     OnePlaceStep, CapacityStep, BudgetStep, ArchivesPaidStep, TransportsLastStep
     DEF AuditInv, Ownership
<1> QED BY <1>1, InitAuditInv, PTL DEF Spec

(***************************************************************************)
(* Type correctness, with channel, batch and semaphore within their size,  *)
(* for any capacities and any number of calls.                             *)
(***************************************************************************)
THEOREM TypeCorrect == Spec => []TypeOK
<1>1. AuditInv => TypeOK
  <2> SUFFICES ASSUME AuditInv PROVE TypeOK
    OBVIOUS
  <2>1. StateTypes /\ Len(batch) <= BATCH_CAPACITY
    BY DEF AuditInv, Ownership, BatchBounded
  <2>2. free \in Nat /\ budget \in Nat /\ Len(queue) \in Nat
    BY <2>1 DEF StateTypes
  <2>3. Cardinality({c \in Calls : permit[c]}) \in Nat
    BY CallsAssumption, FS_Subset, FS_CardinalityType
  <2>4. free <= QUEUE_CAPACITY /\ Len(queue) <= QUEUE_CAPACITY
    BY <2>2, <2>3, CapacityAssumption DEF AuditInv, CapacityConserved
  <2>5. BudgetHolders \subseteq Calls
    BY DEF BudgetHolders, BudgetIn
  <2>6. Cardinality(BudgetHolders) \in Nat
    BY <2>5, CallsAssumption, FS_Subset, FS_CardinalityType
  <2>7. ARCHIVE_RESERVATION_BYTES * Cardinality(BudgetHolders) \in Nat
    BY <2>6, NatProduct, CapacityAssumption
  <2>8. budget <= QUEUE_BYTE_CAPACITY
    BY <2>2, <2>7, CapacityAssumption DEF AuditInv, BudgetConserved
  <2> QED BY <2>1, <2>4, <2>8 DEF TypeOK
<1> QED BY <1>1, AuditInvariant, PTL

(***************************************************************************)
(* No slot of the audit channel leaks or is used twice.                    *)
(***************************************************************************)
THEOREM SlotsConserved == Spec => []CapacityConserved
<1>1. AuditInv => CapacityConserved
  BY DEF AuditInv
<1> QED BY <1>1, AuditInvariant, PTL

(***************************************************************************)
(* No byte of the archive budget leaks or is held twice.                   *)
(***************************************************************************)
THEOREM ArchiveBudgetConserved == Spec => []BudgetConserved
<1>1. AuditInv => BudgetConserved
  BY DEF AuditInv
<1> QED BY <1>1, AuditInvariant, PTL

(***************************************************************************)
(* The bodies held in memory for diagnostics fit in QUEUE_BYTE_CAPACITY.   *)
(***************************************************************************)
THEOREM ArchiveMemory == Spec => []ArchiveMemoryBounded
<1>1. AuditInv => ArchiveMemoryBounded
  <2> SUFFICES ASSUME AuditInv PROVE ArchiveMemoryBounded
    OBVIOUS
  <2> DEFINE M == {c \in Calls : Tracked(c) /\ event[c].request_archive}
                    \cup ArchivedEventsIn(queue) \cup ArchivedEventsIn(batch)
  <2>1. M \subseteq BudgetHolders
    <3>1. \A c \in Calls : Tracked(c) /\ event[c].request_archive => archive_budget[c]
      BY DEF AuditInv, Ownership, ReservedOnce
    <3>2. ArchivedEventsIn(queue) \subseteq BudgetIn(queue)
      BY DEF AuditInv, ArchivesPaid, PaidMessage, ArchivedEventsIn, BudgetIn, EventsIn, IsEvent
    <3>3. ArchivedEventsIn(batch) \subseteq BudgetIn(batch)
      BY DEF AuditInv, ArchivesPaid, PaidMessage, ArchivedEventsIn, BudgetIn, EventsIn, IsEvent
    <3> QED BY <3>1, <3>2, <3>3 DEF BudgetHolders
  <2>2. BudgetHolders \subseteq Calls
    BY DEF BudgetHolders, BudgetIn
  <2>3. IsFiniteSet(BudgetHolders) /\ Cardinality(BudgetHolders) \in Nat
    BY <2>2, CallsAssumption, FS_Subset, FS_CardinalityType
  <2> HIDE DEF M
  <2>4. Cardinality(M) \in Nat /\ Cardinality(M) <= Cardinality(BudgetHolders)
    BY <2>1, <2>3, FS_Subset, FS_CardinalityType
  <2>5. budget \in Nat
    BY DEF AuditInv, StateTypes
  <2>6. \A a, m, n \in Nat : m <= n => a * m <= a * n
    OBVIOUS
  <2>7. ARCHIVE_RESERVATION_BYTES * Cardinality(M)
          <= ARCHIVE_RESERVATION_BYTES * Cardinality(BudgetHolders)
    BY <2>3, <2>4, <2>6, CapacityAssumption
  <2>8. /\ ARCHIVE_RESERVATION_BYTES * Cardinality(BudgetHolders) \in Nat
        /\ ARCHIVE_RESERVATION_BYTES * Cardinality(M) \in Nat
    BY <2>3, <2>4, NatProduct, CapacityAssumption
  <2>9. ARCHIVE_RESERVATION_BYTES * Cardinality(M) <= QUEUE_BYTE_CAPACITY
    BY <2>5, <2>7, <2>8, CapacityAssumption DEF AuditInv, BudgetConserved
  <2> QED BY <2>9 DEF ArchiveMemoryBounded, M
<1> QED BY <1>1, AuditInvariant, PTL

(***************************************************************************)
(* The expect() of finish and of both drops never panics.                  *)
(***************************************************************************)
THEOREM ReservationsUsedOnce == Spec => []ReservedOnce
<1>1. AuditInv => ReservedOnce
  BY DEF AuditInv, Ownership
<1> QED BY <1>1, AuditInvariant, PTL

(***************************************************************************)
(* The event of a call is in one place only, so a call is audited at most  *)
(* once.                                                                   *)
(***************************************************************************)
THEOREM AuditedOnce == Spec => []SettledOnce
<1>1. AuditInv => SettledOnce
  <2> SUFFICES ASSUME AuditInv, NEW c \in Calls
               PROVE  /\ Cardinality(EventsIn(queue, c)) + Cardinality(EventsIn(batch, c)) <= 1
                      /\ Tracked(c)  => ~ Enqueued(c) /\ ~ InBatch(c) /\ ~ Recorded(c)
                      /\ Enqueued(c) => ~ Recorded(c)
                      /\ InBatch(c)  => ~ Recorded(c)
    BY DEF SettledOnce
  <2> USE DEF AuditInv, Ownership, OnePlace
  <2>1. EventsIn(queue, c) = {} \/ \E i : EventsIn(queue, c) = {i}
    OBVIOUS
  <2>2. EventsIn(batch, c) = {} \/ \E i : EventsIn(batch, c) = {i}
    OBVIOUS
  <2>3. EventsIn(queue, c) = {} \/ EventsIn(batch, c) = {}
    BY DEF Enqueued, InBatch
  <2>4. Cardinality({}) = 0 /\ \A i : Cardinality({i}) = 1
    BY FS_EmptySet, FS_Singleton
  <2>5. Cardinality(EventsIn(queue, c)) + Cardinality(EventsIn(batch, c)) <= 1
    <3>1. CASE EventsIn(queue, c) = {}
      <4>1. Cardinality(EventsIn(batch, c)) \in {0, 1}
        BY <2>2, <2>4
      <4>2. Cardinality(EventsIn(queue, c)) = 0
        BY <2>4, <3>1
      <4> QED BY <4>1, <4>2
    <3>2. CASE EventsIn(batch, c) = {}
      <4>1. Cardinality(EventsIn(queue, c)) \in {0, 1}
        BY <2>1, <2>4
      <4>2. Cardinality(EventsIn(batch, c)) = 0
        BY <2>4, <3>2
      <4> QED BY <4>1, <4>2
    <3> QED BY <2>3, <3>1, <3>2
  <2> QED BY <2>5
<1> QED BY <1>1, AuditInvariant, PTL

(***************************************************************************)
(* The response layer's transport message never overtakes its event.       *)
(***************************************************************************)
THEOREM TransportOrder == Spec => []TransportAfterEvent
<1>1. AuditInv => TransportAfterEvent
  BY DEF AuditInv, Ownership, OwnersAlive, TransportsLast, TransportAfterEvent
<1> QED BY <1>1, AuditInvariant, PTL

-----------------------------------------------------------------------------
(***************************************************************************)
(* What the tables of the audit hold, and that the pipeline as a whole     *)
(* implements AuditLedger.  Both rest on the invariant above (an event is  *)
(* in one place) and on OutcomesSet: a message on its way to the tables    *)
(* carries the outcome of its call.                                        *)
(***************************************************************************)
\* The definitions that say which variables a step leaves alone.
USE DEF callVars, queueVars, writerVars, dbVars

\* An event that was sent has its outcome, and so has one that a stream owns.
OutcomesSet ==
    /\ \A i \in DOMAIN queue : queue[i].kind = "Event" => queue[i].event.status # "pending"
    /\ \A i \in DOMAIN batch : batch[i].kind = "Event" => batch[i].event.status # "pending"
    /\ \A c \in Calls : phase[c] = "streaming" /\ Tracked(c) => event[c].status = "relayed"

\* Sending keeps the outcomes.
LEMMA SendOutcomes ==
  ASSUME StateTypes, OutcomesSet, NEW c \in Calls, NEW s, event[c] # None => s # "pending",
         Send(c, s), NEW ph \in {"relaying", "done"}, phase' = [phase EXCEPT ![c] = ph],
         UNCHANGED batch
  PROVE  OutcomesSet'
<1>1. \A d \in Calls : phase'[d] = "streaming" /\ Tracked(d)' =>
          phase[d] = "streaming" /\ event'[d] = event[d] /\ Tracked(d)
  BY DEF Send, HandOver, StateTypes, Tracked
<1>2. \A i \in DOMAIN queue' : queue'[i].kind = "Event" => queue'[i].event.status # "pending"
  <2>1. CASE event[c] = None
    BY <2>1 DEF Send, OutcomesSet
  <2>2. CASE event[c] # None
    <3> DEFINE m == [kind |-> "Event", id |-> c,
                     event |-> [event[c] EXCEPT !.status = s],
                     archive_budget |-> archive_budget[c]]
    <3>1. queue' = Append(queue, m)
      BY <2>2 DEF Send
    <3>2. event[c] \in AuditEvent
      BY <2>2 DEF StateTypes
    <3>3. m.event.status = s
      BY <3>2 DEF AuditEvent
    <3> HIDE DEF m
    <3>4. /\ DOMAIN queue = 1 .. Len(queue) /\ Len(queue) \in Nat
          /\ DOMAIN queue' = 1 .. Len(queue) + 1
          /\ \A i \in 1 .. Len(queue) : queue'[i] = queue[i]
          /\ queue'[Len(queue) + 1] = m
      BY <3>1 DEF StateTypes
    <3> QED
      BY <2>2, <3>3, <3>4 DEF OutcomesSet
  <2> QED BY <2>1, <2>2
<1> QED
  BY <1>1, <1>2 DEF OutcomesSet

\* Every step does.
LEMMA OutcomesStep ==
  ASSUME StateTypes, Ownership, OutcomesSet, [Next]_vars
  PROVE  OutcomesSet'
<1>1. ASSUME NEW c \in Calls, NEW k \in Consumers, Begin(c, k) PROVE OutcomesSet'
  BY <1>1 DEF Begin, OutcomesSet, StateTypes, Tracked
<1>2. ASSUME NEW c \in Calls, NEW p \in Providers, SetProvider(c, p) PROVE OutcomesSet'
  BY <1>2 DEF SetProvider, OutcomesSet, StateTypes, Tracked
<1>3. ASSUME NEW c \in Calls, TakeStream(c) PROVE OutcomesSet'
  <2>1. \A d \in Calls : d # c => event'[d] = event[d] /\ phase'[d] = phase[d]
    BY <1>3 DEF TakeStream, StateTypes
  <2>2. event'[c] # None => event'[c].status = "relayed"
    BY <1>3 DEF TakeStream, StateTypes, AuditEvent
  <2> QED
    BY <1>3, <2>1, <2>2 DEF TakeStream, OutcomesSet, Tracked
<1>4. ASSUME NEW c \in Calls, FinishRelayed(c) \/ FinishError(c) \/ DropTracker(c) \/ DropBody(c)
      PROVE  OutcomesSet'
  BY <1>4, SendOutcomes DEF FinishRelayed, FinishError, DropTracker, DropBody
<1>5. ASSUME NEW c \in Calls, NEW failed \in BOOLEAN, FinishStream(c, failed) PROVE OutcomesSet'
  <2> DEFINE s == IF failed THEN "upstream_stream_error" ELSE event[c].status
  <2>1. Send(c, s) /\ phase' = [phase EXCEPT ![c] = "relaying"] /\ UNCHANGED batch
    BY <1>5 DEF FinishStream
  <2>2. event[c] # None => s # "pending"
    BY <1>5 DEF FinishStream, OutcomesSet, Tracked
  <2> HIDE DEF s
  <2> QED BY <2>1, <2>2, SendOutcomes
<1>6. ASSUME NEW c \in Calls, RecordResponseTransport(c) PROVE OutcomesSet'
  <2>1. UNCHANGED <<event, batch>> /\ \A d \in Calls : phase'[d] = "streaming" => phase[d] = "streaming"
    BY <1>6 DEF RecordResponseTransport, StateTypes
  <2>2. ASSUME NEW m, m = [kind |-> "ResponseTransport", id |-> c,
                           headers |-> transport_id[c] = "diagnostics"],
               queue' = Append(queue, m)
        PROVE  \A i \in DOMAIN queue' : queue'[i].kind = "Event" => queue'[i].event.status # "pending"
    <3>1. /\ DOMAIN queue = 1 .. Len(queue) /\ Len(queue) \in Nat
          /\ DOMAIN queue' = 1 .. Len(queue) + 1
          /\ \A i \in 1 .. Len(queue) : queue'[i] = queue[i]
          /\ queue'[Len(queue) + 1] = m
      BY <2>2 DEF StateTypes
    <3>2. m.kind # "Event"
      BY <2>2
    <3> QED
      BY <3>1, <3>2 DEF OutcomesSet
  <2>3. CASE queue' = queue
    BY <2>1, <2>3 DEF OutcomesSet, Tracked
  <2> QED
    BY <1>6, <2>1, <2>2, <2>3 DEF RecordResponseTransport, OutcomesSet, Tracked
<1>7. CASE Recv \/ Fill
  <2>1. /\ queue # <<>> /\ queue' = Tail(queue) /\ batch' = Append(batch, Head(queue))
        /\ UNCHANGED <<event, phase>>
    BY <1>7, ReceiveMoves DEF Ownership
  <2>2. /\ DOMAIN queue = 1 .. Len(queue) /\ Len(queue) \in Nat /\ Len(queue) > 0
        /\ DOMAIN queue' = 1 .. Len(queue) - 1
        /\ \A i \in 1 .. Len(queue) - 1 : queue'[i] = queue[i + 1]
        /\ Head(queue) = queue[1]
    BY <2>1 DEF StateTypes
  <2>3. /\ DOMAIN batch = 1 .. Len(batch) /\ Len(batch) \in Nat
        /\ DOMAIN batch' = 1 .. Len(batch) + 1
        /\ \A i \in 1 .. Len(batch) : batch'[i] = batch[i]
        /\ batch'[Len(batch) + 1] = Head(queue)
    BY <2>1 DEF StateTypes
  <2>4. \A i \in DOMAIN queue' : queue'[i].kind = "Event" => queue'[i].event.status # "pending"
    BY <2>2 DEF OutcomesSet
  <2>5. \A i \in DOMAIN batch' : batch'[i].kind = "Event" => batch'[i].event.status # "pending"
    BY <2>2, <2>3 DEF OutcomesSet
  <2> QED
    BY <2>1, <2>4, <2>5 DEF OutcomesSet, Tracked
<1>8. CASE PersistOk
  BY <1>8 DEF PersistOk, OutcomesSet, Tracked
<1>9. CASE UNCHANGED <<phase, event, queue, batch>>
  BY <1>9 DEF OutcomesSet, Tracked
<1> QED
  BY <1>1, <1>2, <1>3, <1>4, <1>5, <1>6, <1>7, <1>8, <1>9
     DEF Next, CallNext, WriterNext, ConsumerNext, StopFilling, PersistErr, Retry, CreateConsumer,
         UpdateConsumer, RevokeConsumer, DeleteConsumer, DeleteProvider, DeleteExpired, vars

-----------------------------------------------------------------------------
(* The tables.                                                             *)

\* The row of a call after a transaction: that of its event in the batch, or
\* its earlier row, of which only the transport size may have changed.
LEMMA RowAfterPersist ==
  ASSUME StateTypes, OnePlace, PersistOk, NEW c \in Calls, Recorded(c)'
  PROVE  \/ /\ Recorded(c)
            /\ ~ InBatch(c)
            /\ api_calls'[c].consumer_id = api_calls[c].consumer_id
            /\ api_calls'[c].provider_id = api_calls[c].provider_id
            /\ api_calls'[c].status = api_calls[c].status
            /\ api_calls[c].transport => api_calls'[c].transport
         \/ /\ ~ Recorded(c)
            /\ \E i \in EventsIn(batch, c) :
                  /\ api_calls'[c].consumer_id = batch[i].event.consumer_id
                  /\ api_calls'[c].provider_id = ReferencedProvider(batch[i].event)
                  /\ api_calls'[c].status = batch[i].event.status
<1> DEFINE i == CHOOSE j \in EventsIn(batch, c) : TRUE
           inserted == IF EventsIn(batch, c) = {} THEN api_calls[c]
                       ELSE InsertedRow(batch[i].event)
<1>1. api_calls'[c] = PersistedRow(c)
  BY DEF PersistOk
<1>2. PersistedRow(c) = IF \E j \in DOMAIN batch : TransportApplies(c, j)
                       THEN [inserted EXCEPT !.transport = TRUE] ELSE inserted
  BY DEF PersistedRow
<1>3. ASSUME NEW r \in ApiCallRow
      PROVE  LET s == [r EXCEPT !.transport = TRUE]
             IN  s.consumer_id = r.consumer_id /\ s.provider_id = r.provider_id
                   /\ s.status = r.status /\ s.transport
  BY DEF ApiCallRow
<1>4. CASE InBatch(c)
  <2>1. i \in EventsIn(batch, c)
    BY <1>4 DEF InBatch
  <2>2. batch[i] \in QueuedAudit /\ batch[i].kind = "Event"
    BY <2>1 DEF EventsIn, IsEvent, StateTypes
  <2>3. batch[i].event \in AuditEvent
    BY <2>2 DEF QueuedAudit
  <2>4. InsertedRow(batch[i].event) \in ApiCallRow
    BY <2>3 DEF AuditEvent, ApiCallRow, InsertedRow, ReferencedProvider
  <2>5. inserted \in ApiCallRow /\ inserted = InsertedRow(batch[i].event)
    BY <1>4, <2>4 DEF InBatch
  <2>6. /\ inserted.consumer_id = batch[i].event.consumer_id
        /\ inserted.provider_id = ReferencedProvider(batch[i].event)
        /\ inserted.status = batch[i].event.status
    BY <2>5 DEF InsertedRow
  <2>7. ~ Recorded(c)
    BY <1>4 DEF OnePlace
  <2> HIDE DEF inserted, i
  <2> QED
    BY <1>1, <1>2, <1>3, <2>1, <2>5, <2>6, <2>7
<1>5. CASE ~ InBatch(c)
  <2>1. Recorded(c)
    BY <1>5, RecordedAfterPersist
  <2>2. inserted = api_calls[c] /\ inserted \in ApiCallRow
    BY <1>5, <2>1 DEF InBatch, Recorded, StateTypes
  <2> HIDE DEF inserted, i
  <2> QED
    BY <1>1, <1>2, <1>3, <1>5, <2>1, <2>2
<1> QED BY <1>4, <1>5

\* A transaction keeps the references.
LEMMA ReferencesPersist ==
  ASSUME StateTypes, OnePlace, OutcomesSet, ReferencesHold, PersistOk
  PROVE  ReferencesHold'
<1>1. /\ Insertable /\ UNCHANGED providers
      /\ \A k \in Consumers : /\ consumers'[k].state = consumers[k].state
                              /\ consumers[k].used => consumers'[k].used
  BY DEF PersistOk, StateTypes, ConsumerRow
<1>2. ASSUME NEW c \in Calls, NEW i \in EventsIn(batch, c)
      PROVE  /\ consumers'[batch[i].event.consumer_id].used
             /\ batch[i].event.consumer_id \in Consumers
             /\ batch[i].event.status # "pending"
  <2>1. i \in DOMAIN batch /\ batch[i] \in QueuedAudit /\ batch[i].kind = "Event"
    BY DEF EventsIn, IsEvent, StateTypes
  <2>2. batch[i].event.consumer_id \in Consumers
    BY <2>1 DEF QueuedAudit, AuditEvent
  <2>3. \E d \in Calls : \E j \in EventsIn(batch, d) :
            batch[j].event.consumer_id = batch[i].event.consumer_id
    OBVIOUS
  <2>4. consumers'[batch[i].event.consumer_id].used
    BY <2>2, <2>3 DEF PersistOk, StateTypes, ConsumerRow
  <2> QED BY <2>1, <2>2, <2>4 DEF OutcomesSet
<1>3. ASSUME NEW c \in Calls, Recorded(c)'
      PROVE  /\ ConsumerExists(api_calls[c].consumer_id)'
             /\ consumers'[api_calls'[c].consumer_id].used
             /\ api_calls'[c].provider_id \in providers' \cup {None}
             /\ api_calls'[c].status # "pending"
  <2>1. CASE InBatch(c)
    <3>1. PICK i \in EventsIn(batch, c) :
              /\ api_calls'[c].consumer_id = batch[i].event.consumer_id
              /\ api_calls'[c].provider_id = ReferencedProvider(batch[i].event)
              /\ api_calls'[c].status = batch[i].event.status
      BY <1>3, <2>1, RowAfterPersist
    <3>2. consumers[batch[i].event.consumer_id].state \in {"active", "revoked"}
      BY <1>1 DEF Insertable, ConsumerExists
    <3>3. ConsumerExists(api_calls[c].consumer_id)'
      BY <1>1, <1>2, <3>1, <3>2 DEF ConsumerExists
    <3>4. api_calls'[c].provider_id \in providers' \cup {None}
      BY <1>1, <3>1 DEF ReferencedProvider
    <3> QED BY <1>2, <3>1, <3>3, <3>4
  <2>2. CASE ~ InBatch(c)
    <3>1. /\ Recorded(c)
          /\ api_calls'[c].consumer_id = api_calls[c].consumer_id
          /\ api_calls'[c].provider_id = api_calls[c].provider_id
          /\ api_calls'[c].status = api_calls[c].status
      BY <1>3, <2>2, RowAfterPersist DEF InBatch
    <3>2. api_calls[c].consumer_id \in Consumers
      BY <3>1 DEF Recorded, StateTypes, ApiCallRow
    <3> QED
      BY <1>1, <3>1, <3>2 DEF ReferencesHold, ConsumerExists
  <2> QED BY <2>1, <2>2
<1>4. ASSUME NEW c \in Calls, request_archives'[c] # "none" PROVE Recorded(c)'
  <2>1. request_archives'[c] = PersistedArchive(c)
    BY DEF PersistOk
  <2>2. request_archives[c] # "none" \/ InBatch(c)
    BY <1>4, <2>1 DEF PersistedArchive, InBatch
  <2> QED
    BY <2>2, RecordedAfterPersist DEF ReferencesHold
<1> QED
  BY <1>3, <1>4 DEF ReferencesHold

\* The row of a call after the deletion of a provider.
LEMMA RowAfterDelete ==
  ASSUME StateTypes, NEW p \in Providers, DeleteProvider(p), NEW c \in Calls
  PROVE  /\ Recorded(c)' <=> Recorded(c)
         /\ Recorded(c) => /\ api_calls'[c].consumer_id = api_calls[c].consumer_id
                           /\ api_calls'[c].status = api_calls[c].status
                           /\ api_calls'[c].transport = api_calls[c].transport
                           /\ api_calls'[c].provider_id \in {api_calls[c].provider_id, None}
                           /\ api_calls'[c].provider_id # p
<1>1. CASE Recorded(c) /\ api_calls[c].provider_id = p
  <2>1. api_calls'[c] = [api_calls[c] EXCEPT !.provider_id = None]
    BY <1>1 DEF DeleteProvider, RowWithoutProvider, Recorded
  <2>2. api_calls[c] \in ApiCallRow
    BY <1>1 DEF StateTypes, Recorded
  <2>3. /\ api_calls'[c] \in ApiCallRow
        /\ api_calls'[c].consumer_id = api_calls[c].consumer_id
        /\ api_calls'[c].status = api_calls[c].status
        /\ api_calls'[c].transport = api_calls[c].transport
        /\ api_calls'[c].provider_id = None
    BY <2>1, <2>2 DEF ApiCallRow
  <2>4. Recorded(c)' /\ None # p
    BY <2>3, NoneAssumption DEF Recorded
  <2> QED BY <1>1, <2>3, <2>4
<1>2. CASE ~ (Recorded(c) /\ api_calls[c].provider_id = p)
  <2>1. api_calls'[c] = api_calls[c]
    BY <1>2 DEF DeleteProvider, Recorded
  <2> QED BY <1>2, <2>1 DEF Recorded
<1> QED BY <1>1, <1>2

\* Every step does.
LEMMA ReferencesStep ==
  ASSUME StateTypes, OnePlace, OutcomesSet, ReferencesHold, [Next]_vars
  PROVE  ReferencesHold'
<1>0. \A c \in Calls : Recorded(c) => api_calls[c] \in ApiCallRow /\ api_calls[c].consumer_id \in Consumers
  BY DEF Recorded, StateTypes, ApiCallRow
<1>1. ASSUME UNCHANGED <<providers, api_calls, request_archives>>,
             \A j \in Consumers : /\ consumers[j].state \in {"active", "revoked"}
                                       => consumers'[j].state \in {"active", "revoked"}
                                  /\ consumers[j].used => consumers'[j].used
      PROVE  ReferencesHold'
  BY <1>0, <1>1 DEF ReferencesHold, ConsumerExists, Recorded
<1>2. ASSUME NEW k \in Consumers, NEW archive \in BOOLEAN,
             CreateConsumer(k, archive) \/ UpdateConsumer(k, archive) \/ RevokeConsumer(k)
      PROVE  ReferencesHold'
  <2>1. \A j \in Consumers : /\ consumers[j].state \in {"active", "revoked"}
                                  => consumers'[j].state \in {"active", "revoked"}
                             /\ consumers[j].used => consumers'[j].used
    <3>1. CASE CreateConsumer(k, archive)
      BY <3>1 DEF CreateConsumer, StateTypes, ConsumerRow
    <3>2. CASE UpdateConsumer(k, archive)
      BY <3>2 DEF UpdateConsumer, StateTypes, ConsumerRow
    <3>3. CASE RevokeConsumer(k)
      BY <3>3 DEF RevokeConsumer, StateTypes, ConsumerRow
    <3> QED BY <1>2, <3>1, <3>2, <3>3
  <2> QED
    BY <1>1, <1>2, <2>1 DEF CreateConsumer, UpdateConsumer, RevokeConsumer
<1>3. ASSUME NEW k \in Consumers, DeleteConsumer(k) PROVE ReferencesHold'
  <2>1. \A j \in Consumers \ {k} : consumers'[j] = consumers[j]
    BY <1>3 DEF DeleteConsumer, StateTypes
  <2>2. ASSUME NEW c \in Calls, Recorded(c)'
        PROVE  Recorded(c) /\ api_calls'[c] = api_calls[c] /\ api_calls[c].consumer_id # k
    BY <1>3, <2>2 DEF DeleteConsumer, RowsOf, Recorded
  <2>3. ASSUME NEW c \in Calls, request_archives'[c] # "none" PROVE Recorded(c)'
    <3>1. request_archives[c] # "none" /\ c \notin RowsOf(k)
      BY <1>3, <2>3 DEF DeleteConsumer
    <3> QED
      BY <1>3, <3>1 DEF DeleteConsumer, Recorded, ReferencesHold
  <2>4. UNCHANGED providers
    BY <1>3 DEF DeleteConsumer
  <2>5. ASSUME NEW c \in Calls, Recorded(c)'
        PROVE  consumers'[api_calls'[c].consumer_id] = consumers[api_calls[c].consumer_id]
    BY <1>0, <2>1, <2>2, <2>5
  <2> QED
    BY <2>2, <2>3, <2>4, <2>5 DEF ReferencesHold, ConsumerExists
<1>4. ASSUME NEW p \in Providers, DeleteProvider(p) PROVE ReferencesHold'
  <2>1. UNCHANGED <<consumers, request_archives>> /\ providers' = providers \ {p}
    BY <1>4 DEF DeleteProvider
  <2> QED
    BY <1>4, <2>1, RowAfterDelete DEF ReferencesHold, ConsumerExists
<1>5. ASSUME NEW S \in SUBSET Calls, DeleteExpired(S) PROVE ReferencesHold'
  BY <1>5 DEF DeleteExpired, ReferencesHold, ConsumerExists, Recorded
<1>6. CASE UNCHANGED dbVars
  BY <1>6 DEF ReferencesHold, ConsumerExists, Recorded
<1> QED
  BY <1>2, <1>3, <1>4, <1>5, <1>6, ReferencesPersist
     DEF Next, CallNext, WriterNext, ConsumerNext, Begin, SetProvider, FinishRelayed, FinishError,
         DropTracker, TakeStream, FinishStream, DropBody, RecordResponseTransport, Recv, Fill,
         StopFilling, PersistErr, Retry, vars

\* The invariant of the tables.
TablesInv == AuditInv /\ OutcomesSet /\ ReferencesHold

(***************************************************************************)
(* The inductive invariant with the tables: what is on its way carries its *)
(* outcome, and the references of what has arrived hold.                   *)
(***************************************************************************)
THEOREM TablesInvariant == Spec => []TablesInv
<1>1. Init => OutcomesSet /\ ReferencesHold
  BY DEF Init, OutcomesSet, ReferencesHold, Recorded, Tracked
<1>2. AuditInv /\ TablesInv /\ [Next]_vars => (OutcomesSet /\ ReferencesHold)'
  BY OutcomesStep, ReferencesStep DEF TablesInv, AuditInv, Ownership
<1>3. AuditInv /\ OutcomesSet /\ ReferencesHold => TablesInv
  BY DEF TablesInv
<1>4. TablesInv => OutcomesSet /\ ReferencesHold
  BY DEF TablesInv
<1> QED
  BY <1>1, <1>2, <1>3, <1>4, AuditInvariant, PTL DEF Spec

(***************************************************************************)
(* The foreign keys hold: a row names a live consumer and no provider that *)
(* is gone, whatever is deleted while its event is on its way.             *)
(***************************************************************************)
THEOREM ReferencesKept == Spec => []ReferencesHold
BY TablesInvariant, PTL DEF TablesInv

\* Every step keeps the rows.
LEMMA RowsStep ==
  ASSUME AuditInv, [Next]_vars, NEW c \in Calls, Recorded(c)
  PROVE  \/ /\ Recorded(c)'
            /\ api_calls'[c].consumer_id = api_calls[c].consumer_id
            /\ api_calls'[c].status = api_calls[c].status
            /\ api_calls[c].transport => api_calls'[c].transport
            /\ api_calls'[c].provider_id \in {api_calls[c].provider_id, None}
         \/ consumers'[api_calls[c].consumer_id].state = "deleted"
<1> USE DEF AuditInv, Ownership
<1>1. CASE PersistOk
  <2>1. Recorded(c)'
    BY <1>1, RecordedAfterPersist
  <2> QED
    BY <1>1, <2>1, RowAfterPersist
<1>2. ASSUME NEW k \in Consumers, DeleteConsumer(k)
      PROVE  (Recorded(c)' /\ api_calls'[c] = api_calls[c])
               \/ consumers'[api_calls[c].consumer_id].state = "deleted"
  <2>1. CASE api_calls[c].consumer_id = k
    BY <1>2, <2>1 DEF DeleteConsumer, StateTypes, ConsumerRow
  <2>2. CASE api_calls[c].consumer_id # k
    BY <1>2, <2>2 DEF DeleteConsumer, RowsOf, Recorded
  <2> QED BY <2>1, <2>2
<1>3. ASSUME NEW p \in Providers, DeleteProvider(p)
      PROVE  /\ Recorded(c)'
             /\ api_calls'[c].consumer_id = api_calls[c].consumer_id
             /\ api_calls'[c].status = api_calls[c].status
             /\ api_calls[c].transport => api_calls'[c].transport
             /\ api_calls'[c].provider_id \in {api_calls[c].provider_id, None}
  BY <1>3, RowAfterDelete
<1>4. CASE UNCHANGED api_calls
  BY <1>4 DEF Recorded
<1> QED
  BY <1>1, <1>2, <1>3, <1>4
     DEF Next, CallNext, WriterNext, ConsumerNext, Begin, SetProvider, FinishRelayed, FinishError,
         DropTracker, TakeStream, FinishStream, DropBody, RecordResponseTransport, Recv, Fill,
         StopFilling, PersistErr, Retry, CreateConsumer, UpdateConsumer, RevokeConsumer,
         DeleteExpired, vars

(***************************************************************************)
(* A recorded call keeps consumer, status and transport size, and leaves   *)
(* the table only with its consumer.                                       *)
(***************************************************************************)
THEOREM HistoryFinal == Spec => RowsAreFinal
<1>1. AuditInv /\ [Next]_vars =>
        [\A c \in Calls : Recorded(c) =>
           \/ /\ Recorded(c)'
              /\ api_calls'[c].consumer_id = api_calls[c].consumer_id
              /\ api_calls'[c].status = api_calls[c].status
              /\ api_calls[c].transport => api_calls'[c].transport
              /\ api_calls'[c].provider_id \in {api_calls[c].provider_id, None}
           \/ consumers'[api_calls[c].consumer_id].state = "deleted"]_vars
  BY RowsStep
<1> QED
  BY <1>1, AuditInvariant, PTL DEF Spec, RowsAreFinal

-----------------------------------------------------------------------------
(* The ledger.  First what a call's entry is, in a state and in the next.  *)

Settled(c) == Enqueued(c) \/ InBatch(c)

\* The entry of a call, by the place of its event.
LEMMA EntryOf ==
  ASSUME Ownership, NEW c \in Calls
  PROVE  LedgerView[c] =
           IF phase[c] = "idle" THEN [stage |-> "none", outcome |-> None]
           ELSE IF Tracked(c) THEN [stage |-> "open", outcome |-> None]
           ELSE IF Settled(c) THEN [stage |-> "settled", outcome |-> PendingStatus(c)]
           ELSE IF Recorded(c) THEN [stage |-> "recorded", outcome |-> api_calls[c].status]
           ELSE [stage |-> "gone", outcome |-> None]
<1>1. /\ phase[c] = "idle" => ~ Tracked(c) /\ ~ Settled(c) /\ ~ Recorded(c)
      /\ Tracked(c) => ~ Settled(c) /\ ~ Recorded(c)
      /\ Settled(c) => ~ Recorded(c)
  BY DEF Ownership, OnePlace, OwnersAlive, Settled
<1> QED
  BY <1>1 DEF LedgerView, Settled

\* The same after a step.
LEMMA EntryOfNext ==
  ASSUME Ownership', NEW c \in Calls
  PROVE  LedgerView'[c] =
           IF phase'[c] = "idle" THEN [stage |-> "none", outcome |-> None]
           ELSE IF Tracked(c)' THEN [stage |-> "open", outcome |-> None]
           ELSE IF Settled(c)' THEN [stage |-> "settled", outcome |-> PendingStatus(c)']
           ELSE IF Recorded(c)' THEN [stage |-> "recorded", outcome |-> api_calls'[c].status]
           ELSE [stage |-> "gone", outcome |-> None]
<1>1. /\ phase'[c] = "idle" => ~ Tracked(c)' /\ ~ Settled(c)' /\ ~ Recorded(c)'
      /\ Tracked(c)' => ~ Settled(c)' /\ ~ Recorded(c)'
      /\ Settled(c)' => ~ Recorded(c)'
  BY DEF Ownership, OnePlace, OwnersAlive, Settled
<1> QED
  BY <1>1 DEF LedgerView, Settled

\* A call whose event stays where it is keeps its entry.
LEMMA EntrySame ==
  ASSUME Ownership, Ownership', NEW c \in Calls,
         phase'[c] = "idle" <=> phase[c] = "idle",
         Tracked(c)' <=> Tracked(c),
         Settled(c)' <=> Settled(c),
         Settled(c) => PendingStatus(c)' = PendingStatus(c),
         Recorded(c)' <=> Recorded(c),
         Recorded(c) => api_calls'[c].status = api_calls[c].status
  PROVE  LedgerView'[c] = LedgerView[c]
BY EntryOf, EntryOfNext

\* The outcome of an event on its way is that of its one message.
LEMMA OutcomeOf ==
  ASSUME OnePlace, NEW c \in Calls
  PROVE  /\ \A i \in EventsIn(queue, c) : PendingStatus(c) = queue[i].event.status
         /\ \A i \in EventsIn(batch, c) : PendingStatus(c) = batch[i].event.status
<1>1. ASSUME NEW i \in EventsIn(queue, c) PROVE PendingStatus(c) = queue[i].event.status
  <2>1. (CHOOSE j \in EventsIn(queue, c) : TRUE) = i
    BY DEF OnePlace
  <2> QED
    BY <2>1 DEF PendingStatus, Enqueued
<1>2. ASSUME NEW i \in EventsIn(batch, c) PROVE PendingStatus(c) = batch[i].event.status
  <2>1. (CHOOSE j \in EventsIn(batch, c) : TRUE) = i
    BY DEF OnePlace
  <2>2. ~ Enqueued(c)
    BY DEF OnePlace, InBatch
  <2> QED
    BY <2>1, <2>2 DEF PendingStatus
<1> QED BY <1>1, <1>2

\* The same after a step.
LEMMA OutcomeOfNext ==
  ASSUME OnePlace', NEW c \in Calls
  PROVE  /\ \A i \in EventsIn(queue', c) : PendingStatus(c)' = queue'[i].event.status
         /\ \A i \in EventsIn(batch', c) : PendingStatus(c)' = batch'[i].event.status
<1>1. ASSUME NEW i \in EventsIn(queue', c) PROVE PendingStatus(c)' = queue'[i].event.status
  <2>1. (CHOOSE j \in EventsIn(queue', c) : TRUE) = i
    BY DEF OnePlace
  <2> QED
    BY <2>1 DEF PendingStatus, Enqueued
<1>2. ASSUME NEW i \in EventsIn(batch', c) PROVE PendingStatus(c)' = batch'[i].event.status
  <2>1. (CHOOSE j \in EventsIn(batch', c) : TRUE) = i
    BY DEF OnePlace
  <2>2. ~ Enqueued(c)'
    BY DEF OnePlace, InBatch
  <2> QED
    BY <2>1, <2>2 DEF PendingStatus
<1> QED BY <1>1, <1>2

\* A step that changes no entry leaves the ledger as it is.
LEMMA ViewSame ==
  ASSUME \A c \in Calls : LedgerView'[c] = LedgerView[c]
  PROVE  LedgerView' = LedgerView
BY DEF LedgerView

\* A ledger that differs from the one before in the entry of one call.
LEMMA ViewMoved ==
  ASSUME NEW c \in Calls, NEW e, LedgerView'[c] = e,
         \A d \in Calls : d # c => LedgerView'[d] = LedgerView[d]
  PROVE  LedgerView' = [d \in Calls |-> IF d \in {c} THEN e ELSE LedgerView[d]]
<1>1. LedgerView' = [d \in Calls |-> LedgerView'[d]]
  BY DEF LedgerView
<1>2. \A d \in Calls : LedgerView'[d] = IF d \in {c} THEN e ELSE LedgerView[d]
  OBVIOUS
<1> QED BY <1>1, <1>2, Zenon

\* Begin opens an audit or refuses it.
LEMMA BeginMoves ==
  ASSUME AuditInv, AuditInv', NEW c \in Calls, NEW k \in Consumers, Begin(c, k)
  PROVE  Ledger!Open(c) \/ Ledger!Refuse(c)
<1> USE DEF AuditInv, Ownership
<1>1. /\ phase[c] = "idle" /\ phase' = [phase EXCEPT ![c] = "tracked"]
      /\ \A d \in Calls \ {c} : event'[d] = event[d] /\ phase'[d] = phase[d]
      /\ phase'[c] = "tracked"
      /\ UNCHANGED <<queue, batch, api_calls>>
  BY DEF Begin, StateTypes
<1>2. ASSUME NEW d \in Calls, d # c PROVE LedgerView'[d] = LedgerView[d]
  BY <1>1, <1>2, EntrySame DEF Tracked, Settled, Enqueued, InBatch, Recorded, PendingStatus
<1>3. ~ Settled(c)' /\ ~ Recorded(c)'
  BY <1>1 DEF OnePlace, Settled, Enqueued, InBatch, Recorded
<1>4. LedgerView[c].stage = "none"
  <2>1. LedgerView[c] = [stage |-> "none", outcome |-> None]
    BY <1>1, EntryOf
  <2> QED BY <2>1
<1>5. CASE Tracked(c)'
  <2>1. LedgerView'[c] = Ledger!Entry("open", None)
    BY <1>1, <1>5, EntryOfNext DEF Ledger!Entry
  <2>2. LedgerView' = [d \in Calls |-> IF d \in {c} THEN Ledger!Entry("open", None) ELSE LedgerView[d]]
    BY <1>2, <2>1, ViewMoved
  <2> QED
    BY <1>4, <2>2 DEF Ledger!Open, Ledger!Move
<1>6. CASE ~ Tracked(c)'
  <2>1. LedgerView'[c] = Ledger!Entry("gone", None)
    BY <1>1, <1>3, <1>6, EntryOfNext DEF Ledger!Entry
  <2>2. LedgerView' = [d \in Calls |-> IF d \in {c} THEN Ledger!Entry("gone", None) ELSE LedgerView[d]]
    BY <1>2, <2>1, ViewMoved
  <2> QED
    BY <1>4, <2>2 DEF Ledger!Refuse, Ledger!Move
<1> QED BY <1>5, <1>6

\* Whoever sends an event settles its audit.
LEMMA SendMoves ==
  ASSUME AuditInv, AuditInv', OutcomesSet', NEW c \in Calls, SendStep(c)
  PROVE  \/ \E o \in Statuses \ {"pending"} : Ledger!Settle(c, o)
         \/ LedgerView' = LedgerView
<1> USE DEF AuditInv, Ownership
<1>1. /\ phase[c] # "idle" /\ phase'[c] # "idle"
      /\ \A d \in Calls \ {c} : event'[d] = event[d] /\ phase'[d] = phase[d]
      /\ UNCHANGED <<batch, api_calls>>
  BY DEF SendStep, HandOver, StateTypes
<1>2. CASE event[c] = None
  <2>1. UNCHANGED <<queue, event>>
    BY <1>2 DEF SendStep
  <2>2. \A d \in Calls : LedgerView'[d] = LedgerView[d]
    BY <1>1, <2>1, EntrySame DEF Tracked, Settled, Enqueued, InBatch, Recorded, PendingStatus
  <2> QED BY <2>2, ViewSame
<1>3. CASE event[c] # None
  <2>1. PICK m \in QueuedAudit : queue' = Append(queue, m) /\ m.kind = "Event" /\ m.id = c
    BY <1>3 DEF SendStep
  <2>2. event'[c] = None
    BY <1>3 DEF SendStep, HandOver, StateTypes
  <2>3. ASSUME NEW d \in Calls, d # c PROVE LedgerView'[d] = LedgerView[d]
    <3>1. EventsIn(queue', d) = EventsIn(queue, d)
      BY <2>1, <2>3, PlacesAfterOther DEF IsEvent, StateTypes
    <3>2. \A i \in EventsIn(queue, d) : queue'[i] = queue[i]
      BY <2>1 DEF EventsIn, StateTypes
    <3>3. Settled(d)' <=> Settled(d)
      BY <1>1, <3>1 DEF Settled, Enqueued, InBatch
    <3>4. Settled(d) => PendingStatus(d)' = PendingStatus(d)
      BY <1>1, <3>1, <3>2, OutcomeOf, OutcomeOfNext DEF Settled, Enqueued, InBatch
    <3> QED
      BY <1>1, <2>3, <3>3, <3>4, EntrySame DEF Tracked, Recorded
  <2>4. LedgerView[c].stage = "open"
    <3>1. LedgerView[c] = [stage |-> "open", outcome |-> None]
      BY <1>1, <1>3, EntryOf DEF Tracked
    <3> QED BY <3>1
  <2>5. Len(queue) + 1 \in EventsIn(queue', c) /\ queue'[Len(queue) + 1] = m
    BY <2>1 DEF EventsIn, IsEvent, StateTypes
  <2> DEFINE o == m.event.status
  <2>6. o \in Statuses \ {"pending"}
    <3>1. m.event \in AuditEvent
      BY <2>1 DEF QueuedAudit
    <3>2. m.event.status # "pending"
      BY <2>1, <2>5 DEF OutcomesSet, EventsIn
    <3> QED BY <3>1, <3>2 DEF AuditEvent
  <2>7. LedgerView'[c] = Ledger!Entry("settled", o)
    <3>1. PendingStatus(c)' = o
      BY <2>5, OutcomeOfNext
    <3>2. Settled(c)' /\ ~ Tracked(c)'
      BY <2>2, <2>5 DEF Settled, Enqueued, Tracked
    <3> QED BY <1>1, <3>1, <3>2, EntryOfNext DEF Ledger!Entry
  <2> HIDE DEF o
  <2>8. LedgerView' = [d \in Calls |-> IF d \in {c} THEN Ledger!Entry("settled", o) ELSE LedgerView[d]]
    BY <2>3, <2>7, ViewMoved
  <2> QED
    BY <2>4, <2>6, <2>8 DEF Ledger!Settle, Ledger!Move
<1> QED BY <1>2, <1>3

\* A message that goes from the channel to the batch keeps its outcome.
LEMMA ReceiveKeepsView ==
  ASSUME AuditInv, AuditInv', Recv \/ Fill
  PROVE  LedgerView' = LedgerView
<1> USE DEF AuditInv, Ownership
<1>1. /\ queue # <<>> /\ Head(queue) \in QueuedAudit
      /\ queue' = Tail(queue) /\ batch' = Append(batch, Head(queue))
      /\ UNCHANGED <<phase, event, api_calls>>
  BY ReceiveMoves
<1>2. /\ queue \in Seq(QueuedAudit) /\ batch \in Seq(QueuedAudit)
      /\ Len(queue) \in Nat /\ Len(batch) \in Nat
      /\ \A i \in 1 .. Len(queue) - 1 : queue'[i] = queue[i + 1]
      /\ \A i \in 1 .. Len(batch) : batch'[i] = batch[i]
      /\ batch'[Len(batch) + 1] = queue[1]
  BY <1>1 DEF StateTypes
<1>3. ASSUME NEW c \in Calls
      PROVE  (Settled(c)' <=> Settled(c)) /\ (Settled(c) => PendingStatus(c)' = PendingStatus(c))
  <2>1. /\ EventsIn(queue', c) = {i \in 1 .. Len(queue) - 1 : i + 1 \in EventsIn(queue, c)}
        /\ 1 \in EventsIn(queue, c) <=> IsEvent(Head(queue), c)
        /\ EventsIn(queue, c) \subseteq 1 .. Len(queue)
    BY <1>1, <1>2, PlacesAfterTail
  <2>2. /\ EventsIn(batch', c)
              = EventsIn(batch, c) \cup {i \in {Len(batch) + 1} : IsEvent(Head(queue), c)}
        /\ EventsIn(batch, c) \subseteq 1 .. Len(batch)
    BY <1>1, <1>2, PlacesAfterAppend
  <2>3. CASE 1 \in EventsIn(queue, c)
    <3>1. Len(batch) + 1 \in EventsIn(batch', c)
      BY <2>1, <2>2, <2>3
    <3>2. PendingStatus(c)' = batch'[Len(batch) + 1].event.status
      BY <3>1, OutcomeOfNext
    <3>3. PendingStatus(c) = queue[1].event.status
      BY <2>3, OutcomeOf
    <3> QED
      BY <1>2, <2>3, <3>1, <3>2, <3>3 DEF Settled, Enqueued, InBatch
  <2>4. CASE 1 \notin EventsIn(queue, c)
    <3>1. EventsIn(batch', c) = EventsIn(batch, c)
      BY <2>1, <2>2, <2>4
    <3>2. ASSUME NEW i \in EventsIn(queue, c)
          PROVE  /\ i - 1 \in EventsIn(queue', c)
                 /\ queue'[i - 1] = queue[i]
      <4>1. i \in 1 .. Len(queue) /\ i # 1
        BY <2>1, <2>4
      <4>2. i - 1 \in 1 .. Len(queue) - 1 /\ (i - 1) + 1 = i
        BY <1>2, <4>1
      <4> QED
        BY <1>2, <2>1, <4>2
    <3>3. EventsIn(queue', c) # {} => EventsIn(queue, c) # {}
      BY <2>1
    <3>4. ASSUME NEW i \in EventsIn(queue, c) PROVE PendingStatus(c)' = PendingStatus(c)
      BY <3>2, OutcomeOf, OutcomeOfNext
    <3>5. ASSUME NEW i \in EventsIn(batch, c) PROVE PendingStatus(c)' = PendingStatus(c)
      <4>1. i \in 1 .. Len(batch) /\ i \in EventsIn(batch', c)
        BY <2>2, <3>1
      <4>2. batch'[i] = batch[i]
        BY <1>2, <4>1
      <4> QED
        BY <4>1, <4>2, OutcomeOf, OutcomeOfNext
    <3> QED
      BY <3>1, <3>2, <3>3, <3>4, <3>5 DEF Settled, Enqueued, InBatch
  <2> QED BY <2>3, <2>4
<1>4. \A c \in Calls : LedgerView'[c] = LedgerView[c]
  BY <1>1, <1>3, EntrySame DEF Tracked, Recorded
<1> QED BY <1>4, ViewSame

\* A transaction records the audits of its batch.
LEMMA PersistMoves ==
  ASSUME AuditInv, AuditInv', PersistOk
  PROVE  Ledger!Record({c \in Calls : InBatch(c)})
<1> USE DEF AuditInv, Ownership
<1>1. UNCHANGED <<phase, event, queue>> /\ batch' = <<>>
  BY DEF PersistOk
<1>2. \A c \in Calls : EventsIn(batch', c) = {}
  BY <1>1 DEF EventsIn
<1>3. ASSUME NEW c \in Calls, InBatch(c)
      PROVE  /\ LedgerView[c].stage = "settled"
             /\ LedgerView'[c] = Ledger!Entry("recorded", LedgerView[c].outcome)
  <2>1. ~ Tracked(c) /\ phase[c] # "idle" /\ ~ Enqueued(c)
    BY <1>3 DEF OnePlace
  <2>2. LedgerView[c] = [stage |-> "settled", outcome |-> PendingStatus(c)]
    BY <1>3, <2>1, EntryOf DEF Settled
  <2>3. ~ Tracked(c)' /\ phase'[c] # "idle" /\ ~ Settled(c)' /\ Recorded(c)'
    BY <1>1, <1>2, <1>3, <2>1, RecordedAfterPersist DEF Tracked, Settled, Enqueued, InBatch
  <2>4. PICK i \in EventsIn(batch, c) : api_calls'[c].status = batch[i].event.status
    BY <1>3, <2>3, RowAfterPersist
  <2>5. api_calls'[c].status = PendingStatus(c)
    BY <2>4, OutcomeOf
  <2>6. LedgerView'[c] = [stage |-> "recorded", outcome |-> PendingStatus(c)]
    BY <2>3, <2>5, EntryOfNext
  <2>7. LedgerView[c].stage = "settled" /\ LedgerView[c].outcome = PendingStatus(c)
    BY <2>2
  <2> QED
    BY <2>6, <2>7 DEF Ledger!Entry
<1>4. ASSUME NEW c \in Calls, ~ InBatch(c) PROVE LedgerView'[c] = LedgerView[c]
  <2>1. Settled(c)' <=> Settled(c)
    BY <1>1, <1>2, <1>4 DEF Settled, Enqueued, InBatch
  <2>2. Settled(c) => PendingStatus(c)' = PendingStatus(c)
    BY <1>1, <1>4 DEF Settled, PendingStatus, Enqueued
  <2>3. Recorded(c)' <=> Recorded(c)
    BY <1>4, RecordedAfterPersist
  <2>4. Recorded(c) => api_calls'[c].status = api_calls[c].status
    BY <1>4, <2>3, RowAfterPersist DEF InBatch
  <2> QED
    BY <1>1, <2>1, <2>2, <2>3, <2>4, EntrySame DEF Tracked
<1> DEFINE S == {c \in Calls : InBatch(c)}
<1>5. \A c \in S : LedgerView[c].stage = "settled"
  BY <1>3
<1>6. \A c \in Calls : LedgerView'[c] =
          IF c \in S THEN Ledger!Entry("recorded", LedgerView[c].outcome) ELSE LedgerView[c]
  BY <1>3, <1>4
<1>7. LedgerView' = [c \in Calls |-> LedgerView'[c]]
  BY DEF LedgerView
<1> HIDE DEF S
<1>8. LedgerView' = [c \in Calls |->
          IF c \in S THEN Ledger!Entry("recorded", LedgerView[c].outcome) ELSE LedgerView[c]]
  BY <1>6, <1>7, Zenon
<1>9. Ledger!Record(S)
  BY <1>5, <1>8 DEF Ledger!Record, Ledger!Move
<1> QED BY <1>9 DEF S

\* The deletion of a consumer erases its records.
LEMMA DeleteMoves ==
  ASSUME AuditInv, AuditInv', NEW k \in Consumers, DeleteConsumer(k)
  PROVE  Ledger!Erase(RowsOf(k))
<1> USE DEF AuditInv, Ownership
<1>1. /\ UNCHANGED <<phase, event, queue, batch>>
      /\ \A c \in Calls : api_calls'[c] = IF c \in RowsOf(k) THEN None ELSE api_calls[c]
  BY DEF DeleteConsumer
<1>2. ASSUME NEW c \in RowsOf(k)
      PROVE  /\ LedgerView[c].stage = "recorded"
             /\ LedgerView'[c] = [stage |-> "gone", outcome |-> None]
  <2>0. c \in Calls /\ Recorded(c)
    BY DEF RowsOf, Recorded
  <2>1. ~ Tracked(c) /\ phase[c] # "idle" /\ ~ Settled(c)
    BY <2>0 DEF OnePlace, Settled
  <2>2. LedgerView[c] = [stage |-> "recorded", outcome |-> api_calls[c].status]
    BY <2>0, <2>1, EntryOf
  <2>3. ~ Tracked(c)' /\ phase'[c] # "idle" /\ ~ Settled(c)' /\ ~ Recorded(c)'
    BY <1>1, <2>0, <2>1 DEF Tracked, Settled, Enqueued, InBatch, Recorded
  <2>4. LedgerView'[c] = [stage |-> "gone", outcome |-> None]
    BY <2>0, <2>3, EntryOfNext
  <2>5. LedgerView[c].stage = "recorded"
    BY <2>2
  <2> QED BY <2>4, <2>5
<1>3. ASSUME NEW c \in Calls, c \notin RowsOf(k) PROVE LedgerView'[c] = LedgerView[c]
  BY <1>1, <1>3, EntrySame DEF Tracked, Settled, Enqueued, InBatch, Recorded, PendingStatus
<1>4. \A c \in Calls : LedgerView'[c] =
          IF c \in RowsOf(k) THEN Ledger!Entry("gone", None) ELSE LedgerView[c]
  BY <1>2, <1>3 DEF Ledger!Entry
<1>5. LedgerView' = [c \in Calls |-> LedgerView'[c]]
  BY DEF LedgerView
<1>6. LedgerView' = [c \in Calls |->
          IF c \in RowsOf(k) THEN Ledger!Entry("gone", None) ELSE LedgerView[c]]
  BY <1>4, <1>5, Zenon
<1> QED
  BY <1>2, <1>6 DEF Ledger!Erase, Ledger!Move

\* A step that leaves the events where they are, and the status of the rows,
\* leaves the ledger as it is.
LEMMA QuietKeepsView ==
  ASSUME AuditInv, AuditInv', UNCHANGED batch,
         \A c \in Calls : /\ phase'[c] = "idle" <=> phase[c] = "idle"
                          /\ Tracked(c)' <=> Tracked(c)
                          /\ EventsIn(queue', c) = EventsIn(queue, c)
                          /\ \A i \in EventsIn(queue, c) : queue'[i] = queue[i]
                          /\ Recorded(c)' <=> Recorded(c)
                          /\ Recorded(c) => api_calls'[c].status = api_calls[c].status
  PROVE  LedgerView' = LedgerView
<1> USE DEF AuditInv, Ownership
<1>1. ASSUME NEW c \in Calls PROVE LedgerView'[c] = LedgerView[c]
  <2>1. Settled(c)' <=> Settled(c)
    BY DEF Settled, Enqueued, InBatch
  <2>2. Settled(c) => PendingStatus(c)' = PendingStatus(c)
    BY OutcomeOf, OutcomeOfNext DEF Settled, Enqueued, InBatch
  <2> QED
    BY <2>1, <2>2, EntrySame
<1> QED BY <1>1, ViewSame

\* Every step of the pipeline is one of the ledger, or leaves it as it is.
LEMMA LedgerStep ==
  ASSUME AuditInv, AuditInv', OutcomesSet', [Next]_vars
  PROVE  [Ledger!Next]_LedgerView
<1>1. ASSUME NEW c \in Calls, NEW k \in Consumers, Begin(c, k) PROVE Ledger!Next
  BY <1>1, BeginMoves DEF Ledger!Next
<1>2. ASSUME NEW c \in Calls, SendStep(c) PROVE Ledger!Next \/ UNCHANGED LedgerView
  BY <1>2, SendMoves DEF Ledger!Next
<1>3. ASSUME NEW c \in Calls, EditStep(c) PROVE UNCHANGED LedgerView
  BY <1>3, QuietKeepsView, NoneAssumption DEF AuditInv, EditStep, StateTypes, Tracked, Recorded
<1>4. ASSUME NEW c \in Calls, RecordResponseTransport(c) PROVE UNCHANGED LedgerView
  <2>1. /\ UNCHANGED <<event, batch, api_calls>>
        /\ \A d \in Calls : phase'[d] = "idle" <=> phase[d] = "idle"
    BY <1>4 DEF AuditInv, RecordResponseTransport, BodyEnded, StateTypes
  <2>2. ASSUME NEW d \in Calls
        PROVE  /\ EventsIn(queue', d) = EventsIn(queue, d)
               /\ \A i \in EventsIn(queue, d) : queue'[i] = queue[i]
    <3>1. CASE queue' = queue
      BY <3>1
    <3>2. ASSUME NEW m, m = [kind |-> "ResponseTransport", id |-> c,
                             headers |-> transport_id[c] = "diagnostics"],
                 queue' = Append(queue, m)
          PROVE  /\ EventsIn(queue', d) = EventsIn(queue, d)
                 /\ \A i \in EventsIn(queue, d) : queue'[i] = queue[i]
      <4>1. m \in QueuedAudit /\ ~ IsEvent(m, d)
        BY <3>2 DEF QueuedAudit, IsEvent
      <4>2. queue \in Seq(QueuedAudit)
        BY DEF AuditInv, StateTypes
      <4>3. EventsIn(queue', d) = EventsIn(queue, d)
        BY <3>2, <4>1, <4>2, PlacesAfterOther
      <4>4. \A i \in EventsIn(queue, d) : queue'[i] = queue[i]
        BY <3>2, <4>2 DEF EventsIn
      <4> QED BY <4>3, <4>4
    <3> QED BY <1>4, <3>1, <3>2 DEF RecordResponseTransport
  <2> QED
    BY <2>1, <2>2, QuietKeepsView DEF Tracked, Recorded
<1>5. CASE Recv \/ Fill
  BY <1>5, ReceiveKeepsView
<1>6. CASE PersistOk
  BY <1>6, PersistMoves DEF Ledger!Next
<1>7. ASSUME NEW k \in Consumers, DeleteConsumer(k) PROVE Ledger!Next
  <2>1. RowsOf(k) \in SUBSET Calls
    BY DEF RowsOf
  <2> QED
    BY <1>7, <2>1, DeleteMoves DEF Ledger!Next
<1>8. ASSUME NEW p \in Providers, DeleteProvider(p) PROVE UNCHANGED LedgerView
  <2>1. UNCHANGED <<phase, event, queue, batch, consumers>>
    BY <1>8 DEF DeleteProvider
  <2>2. ASSUME NEW c \in Calls
        PROVE  /\ Recorded(c)' <=> Recorded(c)
               /\ Recorded(c) => api_calls'[c].status = api_calls[c].status
    BY <1>8, RowAfterDelete DEF AuditInv
  <2> QED
    BY <2>1, <2>2, QuietKeepsView DEF Tracked
<1>9. CASE UNCHANGED <<phase, event, queue, batch, api_calls>>
  BY <1>9, QuietKeepsView DEF Tracked, Recorded
<1>10. ASSUME ~ (\E p \in Providers : DeleteProvider(p)), ~ (\E k \in Consumers : DeleteConsumer(k))
       PROVE  \/ UNCHANGED <<phase, event, queue, batch, api_calls>>
              \/ \E c \in Calls : \/ \E k \in Consumers : Begin(c, k)
                                  \/ SendStep(c)
                                  \/ EditStep(c)
                                  \/ RecordResponseTransport(c)
              \/ Recv
              \/ Fill
              \/ PersistOk
  <2>1. CASE UNCHANGED <<phase, event, queue, batch, api_calls>>
    BY <2>1
  <2>2. CASE \E c \in Calls : CallNext(c)
    <3>1. ~ QuietStep \/ UNCHANGED <<phase, event, queue, batch, api_calls>>
      BY <2>2 DEF QuietStep, CallNext, Begin, SetProvider, FinishRelayed, FinishError, DropTracker,
                  TakeStream, FinishStream, DropBody, RecordResponseTransport
    <3>2. StepKind
      BY StepKinds DEF AuditInv
    <3> QED BY <3>1, <3>2 DEF StepKind
  <2> QED
    BY <1>10, <2>1, <2>2
       DEF Next, WriterNext, ConsumerNext, StopFilling, PersistErr, Retry, CreateConsumer,
           UpdateConsumer, RevokeConsumer, DeleteExpired, vars
<1> QED
  BY <1>1, <1>2, <1>3, <1>4, <1>5, <1>6, <1>7, <1>8, <1>9, <1>10

(***************************************************************************)
(* The pipeline implements the ledger: handlers, dropped futures, writer,  *)
(* retries and deletions settle every call that got a slot exactly once,   *)
(* and record it with the outcome it was settled with.                     *)
(***************************************************************************)
THEOREM PipelineImplementsLedger == Spec => ImplementsLedger
<1>1. Init => Ledger!Init
  <2> SUFFICES ASSUME Init PROVE Ledger!Init
    OBVIOUS
  <2>1. \A c \in Calls : LedgerView[c] = Ledger!Entry("none", None)
    BY InitAuditInv, EntryOf DEF AuditInv, Init, Ledger!Entry
  <2>2. LedgerView = [c \in Calls |-> LedgerView[c]]
    BY DEF LedgerView
  <2>3. LedgerView = [c \in Calls |-> Ledger!Entry("none", None)]
    BY <2>1, <2>2, Zenon
  <2> QED BY <2>3 DEF Ledger!Init
<1>2. TablesInv /\ TablesInv' /\ [Next]_vars => [Ledger!Next]_LedgerView
  BY LedgerStep DEF TablesInv
<1> QED
  BY <1>1, <1>2, TablesInvariant, PTL DEF Spec, ImplementsLedger, Ledger!Spec
=============================================================================
