----------------------------- MODULE MCRecords ------------------------------
(***************************************************************************)
(* What becomes a record: JSON from alphabets small enough that every rule *)
(* of its grammar is met and broken; batches of spans in the two           *)
(* transports, at and past every limit of the decoder; identifiers,        *)
(* records with every choice of optional fields, frames cut and flipped,   *)
(* and the schema; spans with every choice of up to three attributes,      *)
(* values to render, and lines of names and values; agent event lines with *)
(* every refusal and every choice of up to three further members, and the  *)
(* calendar.                                                               *)
(***************************************************************************)
EXTENDS Otlp, Questions

R == INSTANCE Record
S == INSTANCE Semconv
E == INSTANCE Envelope
J == INSTANCE Json

-----------------------------------------------------------------------------
Digits05 == {"0", "5"}
SomeInts == {<<"0">>} \cup {<<"5">> \o t : t \in SeqOf(Digits05, 3)}
SomeNumbers(ints, fracs, exps) ==
    [sign : {<<>>, <<"-">>}, int : ints, frac : fracs, esign : {<<>>, <<"+">>, <<"-">>}, exp : exps]
NumberSpellings ==
    {J!Spell(n) : n \in {x \in SomeNumbers(SomeInts, SeqOf(Digits05, 2), SeqOf(Digits05, 2)) : Len(J!Spell(x)) <= 4}}
Numerals == SomeNumbers({<<"0">>, <<"1">>, <<"5">>, <<"1", "5">>, <<"1", "5", "0">>, <<"5", "1", "1">>, <<"5", "1", "0">>, <<"1", "0", "0">>},
                        {<<>>, <<"0">>, <<"5">>, <<"0", "0">>}, {<<>>, <<"0">>, <<"1">>, <<"0", "1">>, <<"5">>, <<"5", "5">>})

JsonQuestions ==
    \/ Ask("document", SeqOf({"{", "}", "[", "]", ",", ":", "a"}, 5))
    \/ Ask("members", {<<"{">> \o s \o <<"}">> : s \in
               {FlattenSeq(t) : t \in SeqOf({<<"a", ":", "1">>, <<"b", ":", "sp", "1">>, <<",">>, <<"sp", ",">>}, 5)}})
    \/ Ask("numeral", Numerals)
    \/ Ask("scan", SeqOf({"-", "0", "5", ".", "e", "+"}, 4))
    \/ Ask("string", SeqOf({"q", "bs", "u", "n", "H", "L", "a"}, 5)
                             \cup {<<"bs", "u", "H">> \o t : t \in SeqOf({"bs", "u", "L", "H", "q"}, 4)})
    \/ Ask("text", SeqOf({<<"plain">>, <<"scalar">>, <<"pair">>, <<"escape", "q">>, <<"escape", "bs">>}, 3)
                           \X SeqOf({"q", "a"}, 1))
    \/ Ask("base64", SeqOf({-1, 0, 1, 16, 32, 63, 64}, 5))
    \/ Ask("hex", SeqOf({0, 9, 15, 16}, 5))
    \/ Ask("field", SeqOf(0..7, 4))

\* JSON: exactly the grammar, numbers that are what they say or nothing, text
\* that is never repaired, and one spelling of bytes.
JsonAgrees ==
    LET i == probe.input IN
    CASE probe.form \in {"document", "members"} -> J!DocumentAgrees(i, 2)
      [] probe.form = "numeral" -> J!NumberAgrees(i, 511, 40)
      [] probe.form = "scan"   -> J!ScanAgrees(i, NumberSpellings)
      [] probe.form = "string" -> J!StringAgrees(i)
      [] probe.form = "text"   -> J!TextAgrees(i[1], i[2])
      [] probe.form = "base64" -> J!Base64Agrees(i)
      [] probe.form = "hex"    -> J!HexAgrees(i, 4)
      [] probe.form = "field" -> J!VarintAgrees(i)
      [] OTHER -> TRUE

-----------------------------------------------------------------------------
Of(f, b) == [f |-> f, w |-> "bytes", b |-> b]
Num(f, w, b) == [f |-> f, w |-> w, b |-> b]
Word(len, x) == [len |-> len, s |-> <<"text", x>>]
SpanId(len, x) == [len |-> len, s |-> <<"id", x>>]
RECURSIVE NestedValue(_)
NestedValue(levels) ==
    CASE levels = <<>> -> <<Num(3, "varint", 7)>>
      [] levels # <<>> /\ levels[1] = "array" -> <<Of(5, <<Of(1, NestedValue(Tail(levels)))>>)>>
      [] OTHER -> <<Of(6, <<Of(1, <<Of(1, Word(1, "k")), Of(2, NestedValue(Tail(levels)))>>)>>)>>
AttrOf(value) == <<Of(1, Word(3, "key")), Of(2, value)>>
SpanOf(ids, rest) == <<Of(1, ids[1]), Of(2, ids[2]), Of(4, ids[3])>> \o rest
GoodIds(k) == <<SpanId(16, 1), SpanId(8, k), SpanId(8, k - 1)>>
BatchOf(resource, scopes) ==
    <<Of(1, <<Of(1, resource), Of(3, Word(1, "url"))>>
            \o [i \in DOMAIN scopes |->
                  Of(2, <<Of(1, <<Of(1, Word(1, "lib")), Of(2, Word(1, "v"))>>)>>
                          \o [j \in DOMAIN scopes[i] |-> Of(2, scopes[i][j])])])>>

DeepBatch(c, p) ==
    LET attr == AttrOf(NestedValue(c)) IN
    BatchOf(IF p = "resource" THEN <<Of(1, attr)>> ELSE <<>>,
            <<<<SpanOf(GoodIds(1), CASE p = "span" -> <<Of(9, attr)>>
                                     [] p = "event" -> <<Of(11, <<Num(1, "fixed64", 2), Of(3, attr)>>)>>
                                     [] OTHER -> <<>>)>>>>)
AnyValues ==
    <<<<>>, <<Of(1, Word(2, "x"))>>, <<Of(1, Word(9, "long"))>>, <<Num(2, "varint", 1)>>,
      <<Num(4, "fixed64", 5)>>, <<Of(7, SpanId(2, 3))>>, <<Num(3, "varint", 4), Of(7, SpanId(9, 3))>>,
      <<Num(3, "varint", 4), Of(1, Word(9, "long"))>>,
      <<Of(5, <<Of(1, <<Num(3, "varint", 1)>>), Of(1, <<Num(3, "varint", 2)>>), Of(1, <<>>)>>)>>,
      <<Of(6, <<Of(1, AttrOf(<<Num(2, "varint", 0)>>)), Of(1, AttrOf(<<>>)), Of(1, AttrOf(<<>>))>>)>>>>
RichBatch(v, w, k, e) ==
    BatchOf(<<Of(1, AttrOf(AnyValues[v]))>>,
            <<<<SpanOf(GoodIds(1),
                  <<Num(6, "varint", k), Num(7, "fixed64", 3), Of(9, AttrOf(AnyValues[v])),
                    Of(13, Word(1, "l")), Of(9, AttrOf(AnyValues[w])), Of(13, Word(1, "m"))>>
                  \o [i \in 1..e |-> Of(11, <<Of(2, Word(1, "e")), Of(3, AttrOf(AnyValues[w]))>>)]
                  \o <<Of(15, <<Of(2, Word(1, "bad")), Num(3, "varint", k)>>)>>)>>>>)
\* A span with the given ids, then m good ones, then n in a scope of their own.
IdBatch(ids, m, n) ==
    BatchOf(<<>>, <<<<SpanOf(ids, <<>>)>> \o [k \in 1..m |-> SpanOf(GoodIds(k), <<>>)],
                    [k \in 1..n |-> SpanOf(GoodIds(k + 3), <<>>)]>>)
SomeIds == {SpanId(16, 1), SpanId(8, 1), SpanId(8, 0), NoId, SpanId(5, 3)}
Fits(id, len) == id = NoId \/ id.len = len
OtlpLimits == [spans |-> 3, attributes |-> 2, key |-> 2, value |-> 4, events |-> 1, items |-> 2]

\* A line of two spans, and the line in which a member of the first is not what
\* its field is.
RichLine == InJson("Request", BatchOf(<<>>, <<<<
    SpanOf(GoodIds(3), <<Num(6, "varint", 2), Num(7, "fixed64", 3), Num(8, "fixed64", 3), Of(5, Word(1, "n")),
                         Of(9, AttrOf(<<Num(4, "fixed64", 5)>>)), Of(11, <<Num(1, "fixed64", 2)>>),
                         Of(15, <<Num(3, "varint", 1)>>)>>), SpanOf(GoodIds(8), <<>>)>>>>))
WithFault(k, bad) ==
    [RichLine EXCEPT !.v[1].v.v[1].v[3].v.v[1].v[2].v.v[1].v[k].v =
        CASE bad = "null" -> [t |-> "null", v |-> 0] [] bad = "object" -> [t |-> "object", v |-> <<>>]
          [] bad = "word" -> [t |-> "string", v |-> Word(3, "odd")]]

OtlpQuestions ==
    \/ Ask("deep", SeqOf({"array", "map"}, 5) \X {"resource", "span", "event"})
    \/ Ask("rich", (1..10) \X (1..10) \X {0, 2, 9} \X {0, 2})
    \/ Ask("spans", {<<ids, m, n>> \in (SomeIds \X SomeIds \X SomeIds) \X (0..2) \X (0..2) :
                           /\ ids[1] # SpanId(8, 0)
                           /\ \/ m + n < 3
                              \/ Fits(ids[1], 16) /\ Fits(ids[2], 8) /\ Fits(ids[3], 8)})
    \/ Ask("fault", ((1..10) \X {"null"}) \cup ((1..9) \X {"object"}) \cup ((1..3) \X {"word"}))

\* The two readers of traces: one batch, one meaning; and a fault in one span is
\* that span's, and counted.
OtlpAgrees ==
    LET i == probe.input IN
    CASE probe.form = "deep"  -> TransportsAgree(DeepBatch(i[1], i[2]), OtlpLimits)
      [] probe.form = "rich"  -> TransportsAgree(RichBatch(i[1], i[2], i[3], i[4]), OtlpLimits)
      [] probe.form = "spans"   -> TransportsAgree(IdBatch(i[1], i[2], i[3]), OtlpLimits)
      [] probe.form = "fault" -> FaultStaysLocal(RichLine, WithFault(i[1], i[2]), OtlpLimits)
      [] OTHER -> TRUE

-----------------------------------------------------------------------------
RecordQuestions ==
    \/ Ask("ids", {<<s>> \o t : s \in {"agent://", "user://", "a"}, t \in SeqOf({"a", "/", ":", "A"}, 5)})
    \/ Ask("record", {<<p, v>> : p \in {R!MayBeAbsent, {}} \cup {{a, b} : a, b \in R!MayBeAbsent}, v \in {1, 2}})
    \/ Ask("varint", SeqOf(0..7, 4))
    \/ Ask("frame", {<<n, v, c, f>> : n \in {0, 2, 5}, v \in {1, 2}, c \in 0..11, f \in 1..11})
    \/ Ask("header", {<<s, g, c, k>> : s \in {0, 7}, g \in {0, 4, 31}, c \in {1, 17}, k \in 0..10})
    \/ Ask("schema", {0})

\* The record: strict identifiers, bytes that three readers count alike, frames a
\* crash can only shorten, and a schema that keeps what it says of the types.
RecordAgrees ==
    CASE probe.form = "ids"    -> R!StrictAgrees(probe.input, 5)
      [] probe.form = "record" -> (probe.input[2] = 2 \/ "basis.delegation_proof" \notin probe.input[1])
                                     => R!RecordsRoundTrip(probe.input[1], probe.input[2])
      [] probe.form = "varint" -> R!VarintsAgree(probe.input)
      [] probe.form = "frame"  -> R!FramesAgree([i \in 1..probe.input[1] |-> i], probe.input[2],
                                              probe.input[3], probe.input[4])
      [] probe.form = "header" -> R!HeadersAgree(probe.input[1], probe.input[2], probe.input[3],
                                               probe.input[4])
      [] probe.form = "schema" -> R!SchemaHolds
      [] OTHER -> TRUE

-----------------------------------------------------------------------------
Leaves == {<<"empty">>, <<"int", 1>>, <<"double", 1>>, <<"bytes", <<1>>>>, <<"str", <<>>>>,
           <<"str", <<"n">>>>, <<"str", <<"N">>>>, <<"str", <<"b", "n">>>>, <<"str", <<"q">>>>,
           <<"array", <<>>>>}
SomeAttrs ==
    {<<"gen_ai.agent.id", <<"name", "a1", TRUE>>>>, <<"gen_ai.agent.id", <<"name", "A 1", FALSE>>>>,
     <<"gen_ai.agent.name", <<"name", "a2", TRUE>>>>,
     <<"gen_ai.request.model", <<"name", "m1", TRUE>>>>, <<"gen_ai.response.model", <<"name", "m2", TRUE>>>>,
     <<"gen_ai.request.temperature", <<"micro", 123456>>>>, <<"gen_ai.request.temperature", <<"micro", -1>>>>,
     <<"gen_ai.request.max_tokens", <<"int", 5>>>>, <<"gen_ai.request.max_tokens", <<"int", 10>>>>,
     <<"gen_ai.usage.input_tokens", <<"micro", 3000000>>>>,
     <<"gen_ai.input.messages", <<"array", <<<<"empty">>>>>>>>, <<"gen_ai.input.messages", <<"str", <<"a">>>>>>,
     <<"gen_ai.tool.definitions", <<"array", <<<<"map", <<<<"name", <<"name", "t1", TRUE>>>>>>>>>>>>>>,
     <<"error.type", <<"error", {"429", "timeout"}>>>>, <<"x", <<"name", "y", TRUE>>>>}
Spans ==
    {[trace |-> [len |-> 16, zero |-> z], id |-> i, parent |-> p, start |-> 1000, end |-> e,
      failed |-> f, attrs |-> <<<<S!OPERATION, <<"name", o, TRUE>>>>>>,
      events |-> <<<<<<"x", <<"int", 1>>>>, <<"error.type", <<"int", 2>>>>>>>>]
     : z \in BOOLEAN, i \in {0, 1}, p \in {0, 2}, e \in {0, 3000}, f \in BOOLEAN,
       o \in {"chat", "plan", "unheard"}}
SpanQuestions ==
    \/ Ask("span", {<<Spanned, t>> : Spanned \in {CHOOSE s \in Spans : s.id = 1 /\ ~s.trace.zero
                       /\ s.parent = 2 /\ s.failed /\ s.attrs[1][2][2] = "plan"}, t \in SeqOf(SomeAttrs, 3)})
    \/ Ask("span", {<<s, t>> : s \in Spans, t \in SeqOf(SomeAttrs, 1)})
    \/ Ask("render", {<<v, w>> : v, w \in Leaves \cup {<<"array", <<x>>>> : x \in Leaves}
                        \cup {<<"map", <<<<<<"a">>, x>>, <<<<"n">>, y>>>>>> : x, y \in {<<"int", 1>>, <<"empty">>}}
                        \cup {<<"map", <<<<<<"n">>, x>>, <<<<"a">>, y>>>>>> : x, y \in {<<"int", 1>>, <<"empty">>}}})
    \/ Ask("lines", {<<s, t>> : s, t \in SeqOf({<<k, v>> : k \in {<<"a">>, <<"a", "T", "a", "N", "a">>, <<"N">>},
                                               v \in {<<"a">>, <<"b", "n">>, <<"a", "N", "a", "T", "a">>, <<>>}}, 2)})

\* The mapper of spans: each attribute in one plane, one rendering for one value,
\* and lines nothing in them can forge.
SpanAgrees ==
    CASE probe.form = "span"   -> S!SpanIsWhole(<<<<"service.name", <<"name", "svc", TRUE>>>>>>,
                                      [probe.input[1] EXCEPT !.attrs = @ \o probe.input[2]])
      [] probe.form = "render" -> S!RenderAgrees(probe.input[1], probe.input[2])
      [] probe.form = "lines"  -> S!LinesAgree(probe.input[1], probe.input[2])
      [] OTHER -> TRUE

-----------------------------------------------------------------------------
Str(n, v) == [n |-> n, v |-> [t |-> "string", v |-> <<v>>]]
Agent(form, domain) == [n |-> "agent_id", v |-> [t |-> "string", v |-> <<form, domain>>]]
Thing(n) == [n |-> n, v |-> [t |-> "object", v |-> <<"a", "b">>]]
ProofOf(jkt, whole) ==
    [n |-> "delegation_proof", v |-> [t |-> "object", v |->
        <<[n |-> "jti", t |-> "string", v |-> <<"id", "segment">>],
          [n |-> "jkt", t |-> IF whole THEN "string" ELSE "null", v |-> <<"id", jkt>>],
          [n |-> "iss", t |-> "string", v |-> <<"id", "segment">>],
          [n |-> "exp", t |-> "u64", v |-> <<"n", "1">>]>>]]
Chain(links) == [n |-> "on_behalf_of", v |-> [t |-> "array", v |-> links]]

Plain(schema, agent, type, run, ts) ==
    <<Str("schema", schema), agent, Str("type", type), Str("run_id", run), Str("ts", ts)>>
Subjects ==
    {Agent("agent", "ours"), Agent("agent", "theirs"), Agent("claimed", "ours"),
     Agent("claimed", "theirs"), Agent("unidentified", "none"), Agent("bad", "none"), Thing("agent_id")}
Extras ==
    {Thing("data"), Thing("source"), Str("severity", "high"), Thing("severity"),
     Chain(<<>>), Chain(<<<<"principal", "u">>>>), Chain(<<<<"principal", "u">>, <<"number", "1">>>>),
     ProofOf("segment", TRUE)}
BadExtras == {Str("severity", "urgent"), ProofOf("base64url", TRUE), ProofOf("segment", FALSE)}
Good == Plain("v1.0", Agent("agent", "ours"), "tool_call", "run", "now")

EnvelopeQuestions ==
    \/ Ask("refusal", {Plain(s, a, k, r, t) : s \in {"v0.3", "v1.1"}, a \in Subjects,
                       k \in {"tool_call", "web_fetch", "policy_updated"}, r \in {"run", "bad"},
                       t \in {"now", "bad"}})
    \/ Ask("line", {Good \o x : x \in SeqOf(Extras \cup BadExtras, 3)})
    \/ Ask("readings", {<<>>})
    \/ Ask("civil", {<<y, mo, d>> : y \in {0, 1600, 1900, 1969, 1970, 1972, 1999, 2000, 2100},
                                    mo \in 1..12, d \in {1, 27, 28, 29, 30, 31}})
    \/ Ask("zone", {<<y, mo, d, h, z, m>> : y \in {1969, 1970, 2024}, mo \in {1, 2, 12}, d \in {1, 29, 31},
                        h \in {0, 23, 24}, z \in {"Z", "+"}, m \in {0, 90, 1439}})

\* The mapper of agent events: refusals that are true of the line, members kept in
\* one plane, readings that claim no more than happened, and times that are kept.
EnvelopeAgrees ==
    CASE probe.form = "refusal"  -> E!RefusalsAreTrue({"ours", "theirs"}, [object |-> TRUE, members |-> probe.input])
      [] probe.form = "line"     -> /\ E!MembersAreKept("ours", [object |-> TRUE, members |-> probe.input])
                                    /\ E!RefusalsAreTrue({"ours", "theirs"}, [object |-> TRUE, members |-> probe.input])
      [] probe.form = "readings" -> E!ReadingsAreSober
      [] probe.form = "civil"    -> E!CivilAgrees(probe.input[1], probe.input[2], probe.input[3])
      [] probe.form = "zone"     ->
           E!ZonesAgree([year |-> probe.input[1], month |-> probe.input[2], day |-> probe.input[3],
                       hour |-> probe.input[4], minute |-> 5, second |-> 7, dot |-> TRUE,
                       fraction |-> <<1, 2, 3, 9>>, zone |-> probe.input[5], oh |-> 0, om |-> 0], probe.input[6])
      [] OTHER -> TRUE
=============================================================================
