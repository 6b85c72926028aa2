---------------------------- MODULE ImageRequest ----------------------------
(***************************************************************************)
(* What becomes of a client's JSON body: transform_request of proxy.rs and *)
(* the validation of image requests.  All of it is pure.                   *)
(*                                                                         *)
(* An object is a function from the names of the fields it has to values,  *)
(* a value is a tuple that begins with its JSON type.  Strings are told    *)
(* apart as far as the code looks into them: a plain string, a             *)
(* WIDTHxHEIGHT ("size"), a base64 data URL ("url": its media type and     *)
(* whether anything is encoded).                                           *)
(***************************************************************************)
EXTENDS Integers, Sequences

CONSTANTS
    MAX_REFERENCE_IMAGES,   \* 4 in the code
    image_host_model        \* of the configuration

ASSUME ImageAssumption == MAX_REFERENCE_IMAGES \in Nat

Has(object, field) == field \in DOMAIN object

\* Value::as_str, as_i64 and as_bool: is the value of that type?
IsStr(v) == v[1] \in {"string", "size", "url"}

IsInt(v) == v[1] = "int"

IsBool(v) == v[1] = "bool"

validate_enum(object, field, allowed) ==
    Has(object, field) =>
        /\ object[field][1] = "string"
        /\ object[field][2] \in allowed

\* The four sizes every model takes.
NamedSize(v) ==
    v \in {<<"string", "auto">>, <<"size", 1024, 1024>>, <<"size", 1536, 1024>>,
           <<"size", 1024, 1536>>}

\* Any other size is a WIDTHxHEIGHT for gpt-image-2.
validate_image_size(v, model) ==
    \/ NamedSize(v)
    \/ /\ model = <<"string", "gpt-image-2">>
       /\ v[1] = "size"
       /\ LET width == v[2]
              height == v[3]
              Longest == IF width >= height THEN width ELSE height
              Shortest == IF width >= height THEN height ELSE width
          IN  /\ width <= 3840 /\ height <= 3840
              /\ width % 16 = 0 /\ height % 16 = 0
              /\ width * height \in 655360 .. 8294400
              /\ Longest <= 3 * Shortest

validate_reference_image_url(v) ==
    /\ v[1] = "url"
    /\ v[2] \in {"image/png", "image/jpeg", "image/jpg", "image/webp", "image/gif"}
    /\ v[3] # ""

\* reference_image_inputs succeeds.
reference_images_valid(object) ==
    Has(object, "reference_images") =>
        /\ object.reference_images[1] = "array"
        /\ Len(object.reference_images[2]) <= MAX_REFERENCE_IMAGES
        /\ \A i \in DOMAIN object.reference_images[2] :
               validate_reference_image_url(object.reference_images[2][i])

\* reference_image_inputs, of a valid object.
reference_image_inputs(object) ==
    IF Has(object, "reference_images") THEN object.reference_images[2] ELSE << >>

\* object.get("model").and_then(Value::as_str)
ModelOf(object) == IF Has(object, "model") /\ IsStr(object.model) THEN object.model ELSE <<"none">>

ValidCompression_AnyNumber(object) ==
    Has(object, "output_compression") /\ IsInt(object.output_compression)
        => object.output_compression[2] \in 0 .. 100

ValidCompression(object) ==
    Has(object, "output_compression") =>
        /\ IsInt(object.output_compression)
        /\ object.output_compression[2] \in 0 .. 100

validate_image_request(object) ==
    /\ Has(object, "n") => object.n = <<"int", 1>>
    /\ Has(object, "stream") => object.stream = <<"bool", FALSE>>
    /\ Has(object, "response_format") => object.response_format = <<"string", "b64_json">>
    /\ Has(object, "model") => IsStr(object.model) /\ object.model # <<"string", "">>
    /\ Has(object, "size") =>
           IsStr(object.size) /\ validate_image_size(object.size, ModelOf(object))
    /\ validate_enum(object, "quality", {"auto", "low", "medium", "high"})
    /\ validate_enum(object, "background", {"auto", "opaque", "transparent"})
    /\ validate_enum(object, "output_format", {"png", "jpeg", "webp"})
    /\ validate_enum(object, "moderation", {"auto", "low"})
    /\ reference_images_valid(object)
    /\ ValidCompression(object)

\* get(field).and_then(as_str).unwrap_or(default)
StrOr(object, field, default) ==
    IF Has(object, field) /\ IsStr(object[field]) THEN object[field] ELSE default

\* get(field).and_then(as_u64).unwrap_or(default)
NatOr(object, field, default) ==
    IF Has(object, field) /\ IsInt(object[field]) /\ object[field][2] >= 0
    THEN object[field]
    ELSE <<"int", default>>

\* The Responses request an image request is turned into: the prompt and the
\* reference images are its content, the client's parameters those of the tool,
\* and everything else is the proxy's own.  (Left out: the fixed instructions and
\* the fixed tool_choice.)
ImageCall(object) ==
    [model |-> image_host_model,
     content |-> [text |-> object.prompt, images |-> reference_image_inputs(object)],
     tool |->
        [model |-> StrOr(object, "model", <<"string", "gpt-image-1">>),
         size |-> StrOr(object, "size", <<"size", 1024, 1024>>),
         quality |-> StrOr(object, "quality", <<"string", "auto">>),
         background |-> StrOr(object, "background", <<"string", "auto">>),
         output_format |-> StrOr(object, "output_format", <<"string", "png">>),
         output_compression |-> NatOr(object, "output_compression", 100),
         moderation |-> StrOr(object, "moderation", <<"string", "auto">>)],
     stream |-> <<"bool", TRUE>>,
     store |-> <<"bool", FALSE>>]

ImageAccepted(object) ==
    /\ validate_image_request(object)
    /\ Has(object, "prompt") /\ IsStr(object.prompt)

\* A Responses request passes with these changes, a compact one keeps what
\* it says about store, length and temperature.
Stripped == {"max_output_tokens", "temperature"}

ResponsesCall(path, object) ==
    LET kept == DOMAIN object \ (IF path = "compact" THEN {} ELSE Stripped)
        added == {"instructions"} \cup (IF path = "compact" THEN {} ELSE {"store"})
    IN  [f \in kept \cup added |->
            IF f = "store" /\ path # "compact" THEN <<"bool", FALSE>>
            ELSE IF Has(object, f) THEN object[f]
            ELSE <<"string", "">>]
=============================================================================
