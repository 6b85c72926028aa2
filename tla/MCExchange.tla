----------------------------- MODULE MCExchange -----------------------------
(***************************************************************************)
(* A small instance of Exchange.  The requests have every pair of fields   *)
(* with every kind of value the code tells apart; the lines of a stream    *)
(* are shorter than the buffer, as long, and longer, and report counts     *)
(* below, at and above the threshold, negative ones and more cached tokens *)
(* than tokens.                                                            *)
(***************************************************************************)
EXTENDS Exchange

Str(s) == <<"string", s>>
Number(n) == <<"int", n>>
Null == <<"null", "">>

ImageField ==
    [n |-> {Number(1), Number(2), Str("1")},
     stream |-> {<<"bool", TRUE>>, <<"bool", FALSE>>, Null},
     response_format |-> {Str("b64_json"), Str("url"), Null},
     model |-> {Str("gpt-image-2"), Str("gpt-image-1"), Str("gpt-5.6-sol"), Str(""), Null},
     size |-> {Str("auto"), Str("big"), Number(1024)}
              \cup {<<"size", d[1], d[2]>> : d \in {<<1024, 1024>>, <<2048, 1152>>, <<2064, 688>>,
                        <<2080, 688>>, <<3856, 1920>>, <<1000, 1000>>, <<512, 512>>}},
     quality |-> {Str("high"), Str("best"), Number(1)},
     background |-> {Str("opaque"), Str("red"), Null},
     output_format |-> {Str("webp"), Str("gif"), Number(0)},
     moderation |-> {Str("low"), Str("off"), Null},
     reference_images |->
         LET url(mime, data) == <<"url", mime, data>>
         IN  {<<"array", << >> >>, <<"array", <<url("image/png", "x"), url("image/gif", "y")>> >>,
              <<"array", <<url("image/png", "")>> >>, <<"array", <<url("text/html", "x")>> >>,
              <<"array", <<Number(7)>> >>, <<"array", [i \in 1 .. 3 |-> url("image/png", "x")]>>,
              Str("image")},
     output_compression |-> {Number(0), Number(100), Number(101), Number(-1), Str("50")},
     store |-> {<<"bool", TRUE>>},
     user |-> {Null}]

ResponsesField ==
    [model |-> {Str("gpt-5.6-sol"), Null},
     stream |-> {<<"bool", TRUE>>, Str("true")},
     store |-> {<<"bool", TRUE>>},
     instructions |-> {Str("be brief")},
     max_output_tokens |-> {Number(9)},
     temperature |-> {Number(0)}]

NoField == [f \in {} |-> Null]

\* The objects with one or two of the given fields, beside a fixed part.
Pairs(Field, fixed) ==
    UNION {{fixed @@ (f :> v) @@ (g :> w) : v \in Field[f], w \in Field[g]} :
             f \in DOMAIN Field, g \in DOMAIN Field}

MCRequests ==
    {<<"images", o>> : o \in {NoField} \cup Pairs(ImageField, "prompt" :> Str("p"))
                             \cup {("prompt" :> Number(5)), ("prompt" :> Str("p"))}}
    \cup {<<path, None>> : path \in {"images", "responses", "compact"}}
    \cup {<<path, o>> : path \in {"responses", "compact"}, o \in Pairs(ResponsesField, NoField)}

Line(bytes, kind, report, done, output) ==
    [bytes |-> bytes, kind |-> kind, report |-> report, done |-> done, output |-> output]

NoReport == [c \in Counts |-> None]
Report(i, o, c, w) ==
    [input_tokens |-> i, output_tokens |-> o, cached_tokens |-> c, cache_write_tokens |-> w]

\* Below the threshold, with more cached tokens than tokens; above it; at it.
Low == Report(2, 3, 5, 1)
High == Report(4, 1, 1, 2)
AtThreshold == Report(3, None, 2, 9)
Negative == Report(-1, -2, -1, 4)

StreamLines ==
    {Line(1, "other", NoReport, << >>, << >>),
     Line(2, "data", High, << >>, << >>),
     Line(4, "data", Low, << >>, << >>),
     Line(5, "data", Negative, << >>, << >>),
     Line(6, "data", AtThreshold, << >>, << >>)}

Documents ==
    {Line(n, kind, r, << >>, << >>) :
        n \in {4, 6}, kind \in {"json", "other"}, r \in {NoReport, Low, High, AtThreshold, Negative}}

\* Images that are done, with or without a result, and then the completed
\* response with none, one or two of them.
DoneLine(image) == Line(1, "data", NoReport, <<image>>, << >>)

DoneLines == {<< >>, <<DoneLine("i1")>>, <<DoneLine(None)>>, <<DoneLine("i1"), DoneLine("i2")>>}

CompletedLines ==
    {Line(1, "data", r, << >>, output) :
        r \in {Low, Negative}, output \in {<< >>, <<"i1">>, <<"i1", "i2">>, <<None>>}}

MCBodies ==
    UNION {[1 .. n -> StreamLines] : n \in 0 .. 2}
    \cup [1 .. 3 -> {line \in StreamLines : line.bytes \in {2, 4, 6}}]
    \cup {<<d>> : d \in Documents}
    \cup {Append(d, c) : d \in DoneLines, c \in CompletedLines}
=============================================================================
