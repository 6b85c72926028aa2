------------------------------ MODULE Exchange ------------------------------
(***************************************************************************)
(* One call on its way through the proxy, seen from its data: the body of  *)
(* the request is checked and rewritten (ImageRequest), the answer is      *)
(* relayed, whole or in chunks, and while it passes the audit event        *)
(* collects the tokens it reports (TokenUsage), its size and a preview.    *)
(* Which provider answers is the matter of Dispatch, what becomes of the   *)
(* event that of AuditPipeline.                                            *)
(*                                                                         *)
(* A body is a sequence of lines; a line has a number of bytes (its        *)
(* newline included), is of kind "data" (an SSE line with a JSON value),   *)
(* "json" (a JSON document) or "other", and has the counts and the images  *)
(* of its value.  Positions of bytes stand for the bytes.                  *)
(***************************************************************************)
EXTENDS TokenUsage, ImageRequest, FiniteSetsExt, SequencesExt

CONSTANTS
    Requests,             \* pairs of a path and the JSON object sent to it, or
                          \* None if the body is no JSON object
    Statuses,             \* status codes of upstreams
    Bodies,               \* bodies of upstreams
    Images,               \* results of image items
    ARCHIVE_BODY_LIMIT,   \* bytes of a preview (1 MiB in the code)
    PENDING_LIMIT,        \* bytes of an incomplete line (2 MiB in the code)
    MaxChunk              \* bound of the model: bytes of one chunk

\* The image items of a value, where None is an item without a result, are
\* done or are the output of the completed response.
Lines ==
    [bytes : Nat \ {0}, kind : {"data", "json", "other"}, report : Reports,
     done : Seq(Images \cup {None}), output : Seq(Images \cup {None})]

ASSUME ExchangeAssumption ==
    /\ \A r \in Requests : r[1] \in {"images", "responses", "compact"}
    /\ Statuses \subseteq Nat
    /\ \A b \in Bodies : b \in Seq(Lines)
    /\ ARCHIVE_BODY_LIMIT \in Nat
    /\ PENDING_LIMIT \in Nat
    /\ MaxChunk \in Nat

\* None is no answer and no event, no model and no image.
ASSUME NoneAssumption ==
    /\ None \notin [status : Nat, images : Seq(Images)]
    /\ None \notin [status : Nat, usage : Usage, error : BOOLEAN, bytes : Nat,
                    cost : I64 \cup {None}, preview : SUBSET Nat, truncated : BOOLEAN]
    /\ None \notin PricedModels \cup Images

\* Upstreams show an image once in an event of its own, and once in the
\* completed response, which comes last.
ASSUME UpstreamAssumption ==
    \A b \in Bodies : \A i, j \in DOMAIN b :
        /\ \A k \in DOMAIN b[i].done, l \in DOMAIN b[j].done :
               b[i].done[k] = b[j].done[l] => b[i].done[k] = None \/ (i = j /\ k = l)
        /\ \A k, l \in DOMAIN b[i].output :
               b[i].output[k] = b[i].output[l] => b[i].output[k] = None \/ k = l
        /\ i < j /\ b[i].output # << >> => b[j].done = << >>

VARIABLES
    phase,       \* of the call: idle, forwarded, reading, streaming, done
    audit,       \* "none" (no slot was free), "event", or "archive"
    request,     \* the client's path and object, until the answer begins
    forwarded,   \* what was sent upstream for it
    context,     \* CallContext, with the path
    status,      \* of the upstream's answer
    body,        \* of the upstream's answer
    received,    \* bytes of the body that arrived
    pending,     \* position after which the buffer of capture_sse begins
    usage,       \* StreamCompletion.usage
    preview,     \* StreamingPreview.body: the positions copied
    truncated,   \* StreamingPreview.truncated
    client,      \* the status and the images the client got
    event        \* the event that was settled and sent, or None

request_vars == <<audit, request, forwarded, context>>
stream_vars == <<received, pending, usage, preview, truncated>>
vars == <<phase, request_vars, status, body, stream_vars, client, event>>

Success(s) == s \in 200 .. 299

\* The position of the last byte of line i.
EndOf(b, i) ==
    LET End[j \in 0 .. Len(b)] == IF j = 0 THEN 0 ELSE End[j - 1] + b[j].bytes
    IN  End[i]

Total(b) == EndOf(b, Len(b))

Init ==
    /\ phase = "idle"
    /\ audit \in {"none", "event", "archive"}
    /\ request = None
    /\ forwarded = None
    /\ context = None
    /\ status = None
    /\ body = << >>
    /\ received = 0
    /\ pending = 0
    /\ usage = NoUsage
    /\ preview = {}
    /\ truncated = FALSE
    /\ client = None
    /\ event = None

-----------------------------------------------------------------------------
(***************************************************************************)
(* Settling the event.                                                     *)
(***************************************************************************)
body_preview(n) == [body |-> 1 .. Smaller(n, ARCHIVE_BODY_LIMIT), truncated |-> n > ARCHIVE_BODY_LIMIT]

\* What is archived of a body of n bytes that is at hand as a whole.
WholePreview(n) ==
    IF audit = "archive" THEN body_preview(n) ELSE [body |-> {}, truncated |-> FALSE]

Event(s, model, u, error, bytes, p) ==
    [status |-> s, usage |-> u, error |-> error, bytes |-> bytes,
     cost |-> cost_usd_nanos(model, u), preview |-> p.body, truncated |-> p.truncated]

\* settle and send: nothing is sent without an event, or when settle panics.
Settled(e) == event' = IF audit = "none" \/ e.cost = Panic THEN None ELSE e

\* handle_json on an error: the error is answered and settled, without a
\* model or usage.  The body of an error is the proxy's own and short.
FinishError(s) ==
    /\ phase' = "done"
    /\ client' = [status |-> s, images |-> << >>]
    /\ Settled(Event(s, None, NoUsage, TRUE, 0, [body |-> {}, truncated |-> FALSE]))

\* The client leaves before an answer begins: AuditTracker::drop.
DropTracker ==
    /\ phase \in {"forwarded", "reading"}
    /\ phase' = "done"
    /\ Settled(Event(499, None, NoUsage, TRUE, 0, [body |-> {}, truncated |-> TRUE]))
    /\ UNCHANGED <<request_vars, status, body, stream_vars, client>>

-----------------------------------------------------------------------------
(***************************************************************************)
(* The request.                                                            *)
(***************************************************************************)
\* The model and the stream flag, as far as they have the right type.
ContextOf(path, object) ==
    [path |-> path,
     model |-> IF Has(object, "model") /\ IsStr(object.model) THEN object.model[2] ELSE None,
     stream |-> Has(object, "stream") /\ object.stream = <<"bool", TRUE>>]

\* transform_request
Accepted(path, object) == object # None /\ (path = "images" => ImageAccepted(object))

Transformed(path, object) ==
    IF path = "images" THEN ImageCall(object) ELSE ResponsesCall(path, object)

Receive(path, object) ==
    /\ phase = "idle"
    /\ request' = <<path, object>>
    /\ IF Accepted(path, object)
       THEN /\ phase' = "forwarded"
            /\ forwarded' = Transformed(path, object)
            /\ context' = ContextOf(path, object)
            /\ UNCHANGED <<client, event>>
       ELSE /\ FinishError(400)
            /\ UNCHANGED <<forwarded, context>>
    /\ UNCHANGED <<audit, status, body, stream_vars>>

\* Nobody to send to, or no answer.
SendFails ==
    /\ phase = "forwarded"
    /\ \E s \in {500, 503} : FinishError(s)
    /\ UNCHANGED <<request_vars, status, body, stream_vars>>

-----------------------------------------------------------------------------
(***************************************************************************)
(* The answer.                                                             *)
(***************************************************************************)
\* Only a success is streamed; for images the answer is always read.
IsStream(s) == context.stream /\ Success(s) /\ context.path # "images"

Answer(s, b) ==
    /\ phase = "forwarded"
    /\ status' = s
    /\ body' = b
    /\ request' = None
    /\ forwarded' = None
    /\ IF IsStream(s)
       THEN /\ phase' = "streaming"
            /\ client' = [status |-> s, images |-> << >>]
       ELSE /\ phase' = "reading"
            /\ UNCHANGED client
    /\ UNCHANGED <<audit, context, stream_vars, event>>

\* into_bytes fails.
ReadFails ==
    /\ phase = "reading"
    /\ FinishError(500)
    /\ UNCHANGED <<request_vars, status, body, stream_vars>>

usage_from_bytes(b) ==
    IF Len(b) = 1 /\ b[1].kind = "json" THEN usage_from_value(b[1].report) ELSE NoUsage

\* relay_response, of an answer that is not streamed.
RelayWhole ==
    /\ phase = "reading"
    /\ context.path = "images" => ~Success(status)
    /\ phase' = "done"
    /\ LET e == Event(status, context.model, usage_from_bytes(body), ~Success(status),
                      Total(body), WholePreview(Total(body)))
       IN  /\ Settled(e)
           /\ client' = IF e.cost = Panic /\ audit # "none"
                        THEN None
                        ELSE [status |-> status, images |-> << >>]
    /\ UNCHANGED <<request_vars, status, body, stream_vars>>

AppendImages_Always(items, line) == items \o line.done \o line.output

\* One line of images_from_sse: of an event the item that is done is appended;
\* the output of the completed response counts only if there is no item yet.
AppendImages(items, line) ==
    LET done == items \o line.done
    IN  CASE line.kind # "data" -> items
          [] line.kind = "data" /\ done = << >> -> line.output
          [] line.kind = "data" /\ done # << >> -> done

\* filter_map: only an item with a result is an image.
AppendResult(images, item) == IF item = None THEN images ELSE Append(images, item)

\* images_from_sse
ImagesOf(b) == FoldLeft(AppendResult, << >>, FoldLeft(AppendImages, << >>, b))

\* The usage of some lines of b, merged into u; the order does not matter to
\* merge.
MergeLines(u, b, I) ==
    FoldSet(LAMBDA i, v : merge(v, usage_from_value(b[i].report)), u, I)

UsageOf(b) == MergeLines(NoUsage, b, {i \in DOMAIN b : b[i].kind = "data"})

\* image_response: the images go into an envelope, as long as their number
\* and one more.
RelayImages ==
    /\ phase = "reading"
    /\ context.path = "images" /\ Success(status)
    /\ IF ImagesOf(body) = << >>
       THEN FinishError(502)
       ELSE /\ phase' = "done"
            /\ client' = [status |-> 200, images |-> ImagesOf(body)]
            /\ Settled(Event(status, context.model, UsageOf(body), FALSE,
                             Len(ImagesOf(body)) + 1, WholePreview(Len(ImagesOf(body)) + 1)))
    /\ UNCHANGED <<request_vars, status, body, stream_vars>>

-----------------------------------------------------------------------------
(***************************************************************************)
(* A stream.                                                               *)
(***************************************************************************)
\* The lines that end with the n bytes that arrive.
Completed(n) == {i \in DOMAIN body : EndOf(body, i) \in received + 1 .. received + n}

\* Of these the ones whose beginning is still in the buffer.  (The rest of a
\* line whose beginning was cleared is taken not to look like a data line.)
Parsed(n) ==
    {i \in Completed(n) : body[i].kind = "data" /\ EndOf(body, i - 1) >= pending}

\* What is left in the buffer begins after the last complete line.
Drained(n) == Max({pending} \cup {EndOf(body, i) : i \in Completed(n)})

Cleared_EachChunk(n, start) == received + n

Cleared(n, start) == IF received + n - start > PENDING_LIMIT THEN received + n ELSE start

update_sse_usage(n) ==
    /\ usage' = MergeLines(usage, body, Parsed(n))
    /\ pending' = Cleared(n, Drained(n))

capture_WholeChunks(n) ==
    LET fits == Cardinality(preview) + n <= ARCHIVE_BODY_LIMIT
    IN  /\ preview' = IF fits THEN preview \cup (received + 1 .. received + n) ELSE preview
        /\ truncated' = (truncated \/ ~fits)

\* StreamingPreview::capture
capture(n) ==
    LET remaining == Larger(0, ARCHIVE_BODY_LIMIT - Cardinality(preview))
        copied == Smaller(remaining, n)
    IN  /\ preview' = preview \cup (received + 1 .. received + copied)
        /\ truncated' = (truncated \/ copied < n)

\* StreamCompletion::capture_sse
Chunk(n) ==
    /\ phase = "streaming"
    /\ received + n <= Total(body)
    /\ received' = received + n
    /\ IF audit = "none" THEN UNCHANGED <<pending, usage>> ELSE update_sse_usage(n)
    /\ IF audit = "archive" THEN capture(n) ELSE UNCHANGED <<preview, truncated>>
    /\ UNCHANGED <<phase, request_vars, status, body, client, event>>

StreamFailed_KeepsStatus(failed) ==
    Event(status, context.model, usage, failed, received,
          [body |-> preview, truncated |-> truncated \/ failed])

\* StreamCompletion::finish
FinishStream(failed) ==
    Event(IF failed THEN 502 ELSE status, context.model, usage, failed, received,
          [body |-> preview, truncated |-> truncated \/ failed])

StreamEnds ==
    /\ phase = "streaming"
    /\ \/ received = Total(body) /\ Settled(FinishStream(FALSE))
       \/ Settled(FinishStream(TRUE))
    /\ phase' = "done"
    /\ UNCHANGED <<request_vars, status, body, stream_vars, client>>

\* StreamCompletion::drop, when the client leaves.
CancelledStream ==
    Event(499, context.model, usage, TRUE, received, [body |-> preview, truncated |-> TRUE])

DropBody ==
    /\ phase = "streaming"
    /\ Settled(CancelledStream)
    /\ phase' = "done"
    /\ UNCHANGED <<request_vars, status, body, stream_vars, client>>

-----------------------------------------------------------------------------
Next ==
    \/ \E r \in Requests : Receive(r[1], r[2])
    \/ SendFails
    \/ \E s \in Statuses, b \in Bodies : Answer(s, b)
    \/ ReadFails
    \/ RelayWhole
    \/ RelayImages
    \/ \E n \in 1 .. MaxChunk : Chunk(n)
    \/ StreamEnds
    \/ DropBody
    \/ DropTracker

Spec == Init /\ [][Next]_vars

-----------------------------------------------------------------------------
\* The answer was streamed to the client.
Streamed == status # None /\ IsStream(status)

\* The types of the variables; a cost is an i64.
TypeOK ==
    /\ phase \in {"idle", "forwarded", "reading", "streaming", "done"}
    /\ audit \in {"none", "event", "archive"}
    /\ status \in Statuses \cup {None}
    /\ body \in Bodies \cup {<< >>}
    /\ received \in 0 .. Total(body)
    /\ pending \in 0 .. received
    /\ usage \in Usage
    /\ preview \subseteq 1 .. received
    /\ truncated \in BOOLEAN
    /\ event # None => event.cost = None \/ event.cost \in I64

\* The parameters of the tool, and what images are without being asked.
ImageParameters == {"model", "size", "quality", "background", "output_format",
                    "output_compression", "moderation"}

Implied == [n |-> <<"int", 1>>, stream |-> <<"bool", FALSE>>,
            response_format |-> <<"string", "b64_json">>]

ImageFieldsKept(object, call) ==
    /\ call.content.text = object.prompt
    /\ Has(object, "reference_images") => call.content.images = object.reference_images[2]
    /\ \A f \in DOMAIN object \cap ImageParameters : call.tool[f] = object[f]
    /\ \A f \in DOMAIN object \cap DOMAIN Implied : object[f] = Implied[f]

ResponsesFieldsKept(path, object, call) ==
    LET removed == IF path = "responses" THEN Stripped ELSE {}
        replaced == IF path = "responses" THEN {"store"} ELSE {}
    IN  /\ DOMAIN call = (DOMAIN object \ removed) \cup replaced \cup {"instructions"}
        /\ \A f \in DOMAIN object \ (removed \cup replaced) : call[f] = object[f]

(***************************************************************************)
(* transform_request, of an accepted image request: the prompt, the        *)
(* reference images and every parameter the client gave reach the tool     *)
(* with the client's value (not with the default that each is read with    *)
(* when it has another type than the one it is read as), and n, stream and *)
(* response_format, which are not sent, have the one value that the answer *)
(* will have.  Fields beside these are ignored.  A Responses request keeps *)
(* all of its fields but max_output_tokens and temperature, which are      *)
(* removed, and store, which is replaced; only instructions are added; a   *)
(* compact one keeps them all.                                             *)
(***************************************************************************)
FieldsAccountedFor ==
    phase = "forwarded" =>
        \/ request[1] = "images" /\ ImageFieldsKept(request[2], forwarded)
        \/ request[1] # "images" /\ ResponsesFieldsKept(request[1], request[2], forwarded)

LinesUpTo(limit) ==
    {i \in DOMAIN body : EndOf(body, i) <= received /\ body[i].kind = "data"
                         /\ body[i].bytes <= limit}

Highest(I, c) == Max({0} \cup {usage_from_value(body[i].report)[c] : i \in I})

(***************************************************************************)
(* capture_sse and update_sse_usage: however the stream is cut into        *)
(* chunks, each count is the highest of the complete lines that arrived so *)
(* far.  Only a line longer than the buffer may be missed.                 *)
(***************************************************************************)
UsageExact ==
    phase = "streaming" /\ audit # "none" =>
        \A c \in Counts : usage[c] \in Highest(LinesUpTo(PENDING_LIMIT + 1), c)
                                        .. Highest(LinesUpTo(Total(body)), c)

(***************************************************************************)
(* StreamingPreview and body_preview: the archived body is the beginning   *)
(* of what was relayed, as long as the limit allows; if it is not marked   *)
(* as truncated it is the whole of an answer that the client was given and *)
(* that came to its end.                                                   *)
(***************************************************************************)
ArchiveHonest ==
    event # None /\ audit = "archive" =>
        /\ event.preview = 1 .. Smaller(event.bytes, ARCHIVE_BODY_LIMIT)
        /\ ~event.truncated =>
               /\ event.bytes <= ARCHIVE_BODY_LIMIT
               /\ client # None
               /\ Streamed => event.status = status /\ event.bytes = Total(body)

(***************************************************************************)
(* settle: exactly a call without success has an error, and the status     *)
(* that is recorded is the one the client was given, with three            *)
(* exceptions: nothing was given (499); a streamed answer was cut off      *)
(* after it began (499 or 502); and images, which the client gets with a   *)
(* 200 while the status of the upstream, any success, is recorded.         *)
(***************************************************************************)
OutcomeRecorded ==
    event # None =>
        /\ event.error <=> ~Success(event.status)
        /\ \/ client = None /\ event.status = 499
           \/ client # None /\ event.status = client.status
           \/ client # None /\ Streamed /\ event.status \in {499, 502}
           \/ /\ client # None /\ client.images # << >> /\ client.status = 200
              /\ context.path = "images" /\ event.status = status

(***************************************************************************)
(* image_response: no image is delivered twice, although the stream shows  *)
(* each in an event of its own and again in the completed response, and a  *)
(* success has at least one.                                               *)
(***************************************************************************)
ImagesOnce ==
    client # None =>
        /\ \A i, j \in DOMAIN client.images : client.images[i] = client.images[j] => i = j
        /\ context # None /\ context.path = "images" /\ client.status = 200 => client.images # << >>

(***************************************************************************)
(* Whatever numbers the upstream reports, the event of a streamed answer,  *)
(* and of one with images, is settled: merging with zero keeps the second  *)
(* clamp of cost_usd_nanos from a negative bound.  Only a JSON document,   *)
(* whose usage is not merged, can go without an event.                     *)
(***************************************************************************)
StreamsSettled ==
    phase = "done" /\ audit # "none" /\ context # None =>
        (event = None => usage_from_bytes(body).input_tokens < 0)
            /\ (Streamed \/ (context.path = "images" /\ status # None /\ Success(status))
                    => event # None)

(***************************************************************************)
(* cost_usd_nanos, for every model of the table and the tokens of the      *)
(* call: each input token is priced exactly once, at one of the three      *)
(* rates, and at the cache rates no more of them than were reported.       *)
(***************************************************************************)
TokensPricedOnce ==
    event # None /\ event.usage.input_tokens >= 0 =>
        \A m \in PricedModels :
            LET u == event.usage
                r == rates(PricingOf(m), u.input_tokens)
            IN  \E cached \in 0 .. Smaller(u.input_tokens, Larger(0, u.cached_tokens)) :
                \E written \in 0 .. Smaller(u.input_tokens - cached, Larger(0, u.cache_write_tokens)) :
                    cost_usd_nanos(m, u) =
                        Saturating((u.input_tokens - cached - written) * r[1] + cached * r[2]
                                   + written * r[3] + Larger(0, u.output_tokens) * r[4])
=============================================================================
