------------------------------ MODULE Semconv ------------------------------
(***************************************************************************)
(* The mapper from a GenAI span to a record: what becomes typed metadata,   *)
(* what becomes content of a class, and what is left over and written down  *)
(* on the erasable side.  A value is a tagged tuple; a text is a sequence   *)
(* of symbols when its bytes matter ("q" a quote, "b" a backslash, "N" a    *)
(* newline, "T" a tab) and a name otherwise.                                *)
(***************************************************************************)
EXTENDS Integers, Sequences, FiniteSets, SequencesExt, TLC

-----------------------------------------------------------------------------
(* One value, one rendering: the bytes are hashed.                          *)

Symbols == <<"N", "T", "q", "b", "n", "t", "a">>
RankOf(c) == SelectInSeq(Symbols, LAMBDA x : x = c)
TextBefore(s, t) ==
    LET d == {i \in 1..Len(s) : i > Len(t) \/ s[i] # t[i]} IN
    IF d = {} THEN Len(s) < Len(t)
    ELSE LET i == CHOOSE i \in d : \A j \in d : i <= j IN
         i <= Len(t) /\ RankOf(s[i]) < RankOf(t[i])

\* sort_by: by the key alone, and stable.
SortedBy(items, Before(_, _)) ==
    LET tagged == [i \in DOMAIN items |-> <<items[i], i>>]
        in(x, y) == Before(x[1][1], y[1][1]) \/ (~Before(y[1][1], x[1][1]) /\ x[2] < y[2])
        sorted == SortSeq(tagged, in)
    IN  [i \in DOMAIN items |-> sorted[i][1]]

EscapeField(text) ==
    FlattenSeq([i \in DOMAIN text |->
        CASE text[i] = "b" -> <<"b", "b">> [] text[i] = "N" -> <<"b", "n">>
          [] text[i] = "T" -> <<"b", "t">> [] OTHER -> <<text[i]>>])
PushLine(key, value) == EscapeField(key) \o <<"T">> \o EscapeField(value) \o <<"N">>
Lines(fields) == FlattenSeq([i \in DOMAIN fields |-> PushLine(fields[i][1], fields[i][2])])

Quoted(text) ==
    <<"q">> \o FlattenSeq([i \in DOMAIN text |->
        CASE text[i] = "q" -> <<"b", "q">> [] text[i] = "b" -> <<"b", "b">>
          [] text[i] = "N" -> <<"b", "n">> [] text[i] = "T" -> <<"b", "t">>
          [] OTHER -> <<text[i]>>]) \o <<"q">>
Joined(parts) ==
    FlattenSeq([i \in DOMAIN parts |-> IF i = 1 THEN parts[i] ELSE <<",">> \o parts[i]])

RECURSIVE Render(_)
Render(value) ==
    CASE value[1] = "empty" -> <<"null">>
      [] value[1] = "str"   -> Quoted(value[2])
      [] value[1] = "bool"  -> <<IF value[2] THEN "true" ELSE "false">>
      [] value[1] = "int"   -> <<ToString(value[2])>>
      [] value[1] = "double" -> <<ToString(value[2]), ".0">>
      [] value[1] = "bytes" -> <<"0x">> \o [i \in DOMAIN value[2] |-> ToString(value[2][i])]
      [] value[1] = "array" -> <<"[">> \o Joined([i \in DOMAIN value[2] |-> Render(value[2][i])])
                               \o <<"]">>
      [] value[1] = "map"   ->
           LET sorted == SortedBy(value[2], TextBefore) IN
           <<"{">> \o Joined([i \in DOMAIN sorted |->
                                Quoted(sorted[i][1]) \o <<":">> \o Render(sorted[i][2])])
           \o <<"}">>

\* Whether any part of a value arrived carrying nothing.
RECURSIVE HoldsNothing(_)
HoldsNothing(value) ==
    CASE value[1] = "empty" -> TRUE
      [] value[1] = "array" -> \E i \in DOMAIN value[2] : HoldsNothing(value[2][i])
      [] value[1] = "map"   -> \E i \in DOMAIN value[2] : HoldsNothing(value[2][i][2])
      [] OTHER -> FALSE

-----------------------------------------------------------------------------
(* The convention.                                                          *)

OPERATION == "gen_ai.operation.name"
Content ==
    << <<"gen_ai.input.messages", "prompt">>, <<"gen_ai.system_instructions", "prompt">>,
       <<"gen_ai.prompt.variable", "prompt">>, <<"gen_ai.output.messages", "completion">>,
       <<"gen_ai.tool.call.arguments", "arguments">>, <<"gen_ai.tool.definitions", "arguments">>,
       <<"gen_ai.tool.call.result", "result">>, <<"gen_ai.retrieval.documents", "document">>,
       <<"gen_ai.memory.records", "document">>, <<"gen_ai.retrieval.query.text", "prompt">>,
       <<"gen_ai.memory.query.text", "prompt">> >>
ContentKeys == {Content[i][1] : i \in DOMAIN Content}

\* The names in the order a sort has them.
KeyOrder ==
    <<"error.type", "gen_ai.agent.id", "gen_ai.agent.name", "gen_ai.input.messages",
      "gen_ai.operation.name", "gen_ai.output.messages", "gen_ai.request.max_tokens",
      "gen_ai.request.model", "gen_ai.request.temperature", "gen_ai.response.model",
      "gen_ai.tool.definitions", "gen_ai.usage.input_tokens", "gen_ai.usage.output_tokens", "x">>
KeyBefore(a, b) ==
    SelectInSeq(KeyOrder, LAMBDA k : k = a) < SelectInSeq(KeyOrder, LAMBDA k : k = b)

ModelOperations == {"chat", "generate_content", "text_completion", "embeddings"}
AgentOperations == {"invoke_agent", "invoke_workflow", "create_agent", "plan"}
MemoryOperations ==
    {"retrieval", "search_memory", "create_memory", "update_memory", "upsert_memory",
     "delete_memory", "create_memory_store", "delete_memory_store"}
EventTypeFor(operation, hasParent) ==
    CASE operation \in ModelOperations -> "model_call"
      [] operation = "execute_tool" -> "tool_call"
      [] operation \in AgentOperations -> IF hasParent THEN "delegation" ELSE "request_received"
      [] operation \in MemoryOperations -> "memory_access"
      [] OTHER -> "none"

\* error_code_for: the letters an error's name has in it, the first shape that fits.
ErrorShapes ==
    << <<"timeout", {"timeout", "timedout", "deadlineexceeded"}>>,
       <<"rate_limited", {"429", "ratelimit", "toomanyrequests"}>>,
       <<"unauthorized", {"401", "403", "unauthor", "authenticat", "forbidden", "permissiondenied"}>>,
       <<"budget_exceeded", {"quota", "budget", "insufficient"}>>,
       <<"malformed", {"400", "invalidrequest", "validation"}>> >>
ErrorCodeFor(has) ==
    LET fits == {i \in DOMAIN ErrorShapes : ErrorShapes[i][2] \cap has # {}} IN
    IF fits = {} THEN "upstream_error"
    ELSE ErrorShapes[CHOOSE i \in fits : \A j \in fits : i <= j][1]

-----------------------------------------------------------------------------
(* A span: [trace, id, parent, start, end, failed, attrs, events], an       *)
(* attribute <<key, value>>.  A name in a value is <<"name", text, token>>: *)
(* a string, and whether it is within an identifier's bounds.               *)

None == <<>>
AttrOf(attrs, key) ==
    LET i == SelectInSeq(attrs, LAMBDA a : a[1] = key) IN
    IF i = 0 THEN None ELSE <<attrs[i][2]>>
AsName(v) == IF v # None /\ v[1][1] = "name" THEN <<v[1][2]>> ELSE None
AsToken(v) == IF v # None /\ v[1][1] = "name" /\ v[1][3] THEN <<v[1][2]>> ELSE None
\* as_i64: a double that is exactly a whole number counts as one.
AsInt(v) ==
    IF v = None THEN None
    ELSE IF v[1][1] = "int" THEN <<v[1][2]>>
    ELSE IF v[1][1] = "micro" /\ v[1][2] % 1000000 = 0 THEN <<v[1][2] \div 1000000>> ELSE None
AsMicro(v) ==
    IF v = None THEN None
    ELSE IF v[1][1] = "micro" THEN <<v[1][2]>>
    ELSE IF v[1][1] = "int" THEN <<v[1][2] * 1000000>> ELSE None

U32(v, max) == IF v # None /\ v[1] \in 0..max THEN v ELSE None
MaxU32 == 9
MaxMilli == 65535

RunIdFrom(trace) == IF trace.len = 0 \/ trace.zero THEN None ELSE <<trace>>

\* What a step of the mapping read: the field, and the keys it used up.
Read(field, consumed) == [field |-> field, consumed |-> consumed]

AgentFrom(resource, attrs) ==
    LET id   == AsToken(AttrOf(attrs, "gen_ai.agent.id"))
        name == AsToken(AttrOf(attrs, "gen_ai.agent.name"))
        svc  == AsToken(AttrOf(resource, "service.name"))
    IN  CASE id # None   -> Read(id, {"gen_ai.agent.id"})
          [] name # None -> Read(name, {"gen_ai.agent.name"})
          [] OTHER       -> Read(IF svc # None THEN svc ELSE <<"unattributed">>, {})
ModelFrom(attrs) ==
    LET asked == AsToken(AttrOf(attrs, "gen_ai.request.model"))
        given == AsToken(AttrOf(attrs, "gen_ai.response.model"))
    IN  CASE asked # None -> Read(asked, {"gen_ai.request.model"})
          [] given # None -> Read(given, {"gen_ai.response.model"})
          [] OTHER        -> Read(None, {})
\* Out of range is left out; in range it is a whole number of thousandths.
TemperatureFrom(attrs) ==
    LET t == AsMicro(AttrOf(attrs, "gen_ai.request.temperature")) IN
    IF t # None /\ t[1] >= 0 /\ t[1] <= MaxMilli * 1000
    THEN Read(<<(t[1] + 500) \div 1000>>, {"gen_ai.request.temperature"}) ELSE Read(None, {})
NumberFrom(attrs, key) ==
    LET n == U32(AsInt(AttrOf(attrs, key)), MaxU32) IN
    Read(n, IF n = None THEN {} ELSE {key})
\* The hash of what was seen; nothing is claimed of a prompt that was cut.
PromptHashFrom(attrs) ==
    LET p == AttrOf(attrs, "gen_ai.input.messages") IN
    IF p = None \/ HoldsNothing(p[1]) THEN None ELSE <<Render(p[1])>>
\* Names only, each once.
ManifestFrom(attrs) ==
    LET d == AttrOf(attrs, "gen_ai.tool.definitions") IN
    IF d = None \/ d[1][1] # "array" THEN <<>>
    ELSE FoldLeft(LAMBDA out, item :
                    LET n == IF item[1] = "map" THEN AsToken(AttrOf(item[2], "name")) ELSE None IN
                    IF n = None \/ n[1] \in Range(out) THEN out ELSE Append(out, n[1]),
                  <<>>, d[1][2])

\* Only failure is asserted.
OutcomeFrom(span) ==
    IF ~span.failed THEN [verdict |-> None, error |-> None]
    ELSE LET e == AttrOf(span.attrs, "error.type") IN
         [verdict |-> <<"failed">>,
          error |-> <<IF e # None /\ e[1][1] = "error" THEN ErrorCodeFor(e[1][2]) ELSE "upstream_error">>]
LatencyMicros(span) ==
    IF span.start = 0 \/ span.end < span.start THEN None ELSE <<(span.end - span.start) \div 1000>>
\* An all-zero id is no name.
CorrelationFrom(span) ==
    IF span.id = 0 THEN None
    ELSE <<[id |-> span.id, parent |-> IF span.parent = 0 THEN None ELSE <<span.parent>>]>>

\* Every content attribute in a part of its class; then the text left over: the
\* span's own words, what nothing above accounted for, and the events.
LeftOver_ByKey(attrs, consumed) ==
    SelectSeq(attrs, LAMBDA a : a[1] \notin consumed \cup ContentKeys)
LeftOver(attrs, consumed) ==
    LET first(i) == \A j \in 1..i - 1 : attrs[j][1] # attrs[i][1]
        accounted(i) == attrs[i][1] \in ContentKeys \/ (first(i) /\ attrs[i][1] \in consumed)
        kept == SelectSeq([i \in DOMAIN attrs |-> i], LAMBDA i : ~accounted(i))
    IN  [k \in DOMAIN kept |-> attrs[kept[k]]]
ContentParts(attrs) ==
    FlattenSeq([c \in DOMAIN Content |->
        LET own == SelectSeq(attrs, LAMBDA a : a[1] = Content[c][1]) IN
        [k \in DOMAIN own |-> [class |-> Content[c][2], key |-> own[k][1], value |-> own[k][2]]]])
EventLines(events) ==
    FlattenSeq([i \in DOMAIN events |->
        << <<"event", i, "name">> >> \o
        LET sorted == SortedBy(events[i], KeyBefore) IN
        [k \in DOMAIN sorted |-> <<"event", i, sorted[k]>>]])
PayloadFrom(span, consumed) ==
    [parts |-> ContentParts(span.attrs),
     rest |-> SortedBy(LeftOver(span.attrs, consumed), KeyBefore),
     events |-> EventLines(span.events)]

Rejected(why) == [ok |-> FALSE, why |-> why]
MapSpan(resource, span) ==
    LET operation == AsName(AttrOf(span.attrs, OPERATION)) IN
    IF operation = None THEN Rejected("not_genai")
    ELSE LET event == EventTypeFor(operation[1], span.parent # 0) IN
         IF event = "none" THEN Rejected("unknown_operation")
         ELSE IF RunIdFrom(span.trace) = None THEN Rejected("no_run_id")
         ELSE LET agent == AgentFrom(resource, span.attrs)
                  model == ModelFrom(span.attrs)
                  heat  == TemperatureFrom(span.attrs)
                  most  == NumberFrom(span.attrs, "gen_ai.request.max_tokens")
                  in    == NumberFrom(span.attrs, "gen_ai.usage.input_tokens")
                  out   == NumberFrom(span.attrs, "gen_ai.usage.output_tokens")
                  consumed == {OPERATION} \cup agent.consumed \cup model.consumed \cup heat.consumed
                              \cup most.consumed \cup in.consumed \cup out.consumed
                  outcome == OutcomeFrom(span)
              IN  [ok |-> TRUE,
                   meta |-> [agent |-> agent.field, run |-> RunIdFrom(span.trace), event |-> event,
                             severity |-> IF span.failed THEN "error" ELSE "info",
                             model |-> model.field, temperature |-> heat.field, max |-> most.field,
                             prompt |-> PromptHashFrom(span.attrs), manifest |-> ManifestFrom(span.attrs),
                             verdict |-> outcome.verdict, error |-> outcome.error,
                             latency |-> LatencyMicros(span), tokensIn |-> in.field,
                             tokensOut |-> out.field],
                   payload |-> PayloadFrom(span, consumed),
                   correlation |-> CorrelationFrom(span)]

\* Report::lost: the refusals that cost a record.  Traffic that was never ours is
\* not a loss.
Losses == {"unknown_operation", "no_run_id", "no_agent", "not_the_caller"}

-----------------------------------------------------------------------------
(* What has to hold.                                                        *)

\* The metadata field that holds an attribute's value, if it does: of an operation's
\* name, the type of event it stands for and no more.
HeldByMeta(meta, attr, hasParent) ==
    LET k == attr[1]
        v == <<attr[2]>>
    IN  CASE k = OPERATION -> AsName(v) # None /\ meta.event = EventTypeFor(AsName(v)[1], hasParent)
          [] k \in {"gen_ai.agent.id", "gen_ai.agent.name"} -> AsToken(v) # None /\ meta.agent = AsToken(v)
          [] k \in {"gen_ai.request.model", "gen_ai.response.model"} ->
               AsToken(v) # None /\ meta.model = AsToken(v)
          [] k = "gen_ai.request.temperature" ->
               /\ meta.temperature # None /\ AsMicro(v) # None
               /\ meta.temperature[1] * 1000 - AsMicro(v)[1] \in -500..500
          [] k = "gen_ai.request.max_tokens" -> AsInt(v) # None /\ meta.max = AsInt(v)
          [] k = "gen_ai.usage.input_tokens" -> AsInt(v) # None /\ meta.tokensIn = AsInt(v)
          [] k = "gen_ai.usage.output_tokens" -> AsInt(v) # None /\ meta.tokensOut = AsInt(v)
          [] OTHER -> FALSE

\* Every attribute lands in exactly one plane: never both, where erasure could not
\* reach the copy, and never neither; content keeps its class; the order in which
\* attributes of different names arrive changes nothing; and a span that names an
\* operation is a record or a loss.
SpanIsWhole(resource, span) ==
    LET r == MapSpan(resource, span)
        a == span.attrs
        inMeta(i) == /\ \A j \in 1..i - 1 : a[j][1] # a[i][1]
                     /\ HeldByMeta(r.meta, a[i], span.parent # 0)
    IN  /\ ~r.ok => (r.why \in Losses <=> AsName(AttrOf(a, OPERATION)) # None)
        /\ r.ok =>
          /\ \A x \in Range(a) :
                Cardinality({i \in DOMAIN a : a[i] = x /\ ~inMeta(i)})
                = Cardinality({k \in DOMAIN r.payload.parts :
                                 <<r.payload.parts[k].key, r.payload.parts[k].value>> = x})
                  + Cardinality({k \in DOMAIN r.payload.rest : r.payload.rest[k] = x})
          /\ \A k \in DOMAIN r.payload.rest : r.payload.rest[k][1] \notin ContentKeys
          /\ r.meta.verdict \in {None, <<"failed">>}
          /\ Cardinality({a[i][1] : i \in DOMAIN a}) = Len(a) =>
                MapSpan(resource, [span EXCEPT !.attrs = Reverse(a)]) = r

\* Two values render alike only if they are alike, but for the order of a map.
RECURSIVE Canon(_)
Canon(value) ==
    CASE value[1] = "array" -> <<"array", [i \in DOMAIN value[2] |-> Canon(value[2][i])]>>
      [] value[1] = "map"   ->
           LET sorted == SortedBy(value[2], TextBefore) IN
           <<"map", [i \in DOMAIN sorted |-> <<sorted[i][1], Canon(sorted[i][2])>>]>>
      [] OTHER -> value
RenderAgrees(v, w) == Render(v) = Render(w) <=> Canon(v) = Canon(w)
\* No key and no value can be read as the end of its line.
LinesAgree(s, t) == Lines(s) = Lines(t) => s = t
=============================================================================
