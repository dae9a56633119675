-------------------------------- MODULE Otlp --------------------------------
(***************************************************************************)
(* The two readers of OpenTelemetry traces: protobuf on the wire and JSON   *)
(* in a file, and the claim that a batch means the same whichever way it    *)
(* came.  A wire message is a sequence of fields [f, w, b]: number, wire    *)
(* type, body.  A JSON value is [t, v]: its type and what is in it, an      *)
(* object being a sequence of members [n, v], a number <<x>>, or <<>> when   *)
(* it is none its field can hold.  Text and bytes are [len, s].            *)
(***************************************************************************)
EXTENDS Integers, Sequences, FiniteSets, SequencesExt, TLC

MAX_DEPTH == 16
TRACE_ID_BYTES == 16
SPAN_ID_BYTES == 8

NoText == [len |-> 0, s |-> <<"text", "">>]
NoId == [len |-> 0, s |-> <<"id", 0>>]
EmptyValue == <<"empty">>

NothingDropped == [spans |-> 0, attributes |-> 0, events |-> 0, oversize |-> 0, utf8 |-> 0]
PlainShape ==
    [unknown |-> 0, snake |-> 0, notTraces |-> 0, wrongSignal |-> 0, bare |-> 0, empty |-> 0,
     badIds |-> 0, badTypes |-> 0, badNumbers |-> 0, overflow |-> 0, nonfinite |-> 0,
     badBase64 |-> 0, multi |-> 0]

\* What every reader carries: the bounds, what they cost, what the shape was, how
\* many spans the batch has used, how deep it is, and whether it was refused.
Fresh(limits) ==
    [limits |-> limits, dropped |-> NothingDropped, shape |-> PlainShape, spans |-> 0,
     depth |-> 0, err |-> FALSE]
At(out, cx) == [out |-> out, cx |-> cx]
Refuse(a) == [a EXCEPT !.cx.err = TRUE]

\* One pass over a body; a refusal anywhere refuses the whole.
Pass(body, start, Take(_, _)) ==
    FoldLeft(LAMBDA a, i : IF a.cx.err THEN a ELSE Take(a, i), start, body)
\* What a message read one level down does to the one around it.
Into(a, r, Put(_, _)) ==
    IF r.cx.err THEN [a EXCEPT !.cx = r.cx] ELSE At(Put(a.out, r.out), r.cx)

-----------------------------------------------------------------------------
(* What the two readers share.                                             *)

SpanKindOf(v) == IF v \in 1..5 THEN v ELSE 0
StatusCodeOf(v) == IF v \in 1..2 THEN v ELSE 0
LossyString(text) == IF text.s[1] = "raw" THEN [text EXCEPT !.s = <<"text", "lossy">>] ELSE text
IsAbsent(id) == id.len = 0 \/ id.s = <<"id", 0>>
HasParent(span) == ~IsAbsent(span.parent)
OwnId(span) == IF IsAbsent(span.id) THEN <<>> ELSE <<span.id>>
KeyOf(text, cx) ==
    LossyString(IF text.len <= cx.limits.key THEN text ELSE [text EXCEPT !.len = cx.limits.key])

\* push_attr: the attribute past the bound is lost and counted.
PushAttr(attrs, attr, cx) ==
    IF Len(attrs) >= cx.limits.attributes
    THEN At(attrs, [cx EXCEPT !.dropped.attributes = @ + 1])
    ELSE At(Append(attrs, attr), cx)
SpanCount(resourceSpans) ==
    FoldLeft(LAMBDA n, r : FoldLeft(LAMBDA k, s : k + Len(s.spans), n, r.scopes), 0, resourceSpans)

BlankSpan ==
    [trace |-> NoId, id |-> NoId, parent |-> NoId, name |-> NoText, kind |-> 0, start |-> 0,
     end |-> 0, attributes |-> <<>>, events |-> <<>>, code |-> 0, message |-> NoText]
BlankEvent == [at |-> 0, name |-> NoText, attributes |-> <<>>]

-----------------------------------------------------------------------------
(* The wire.                                                               *)

Skip(a) == [a EXCEPT !.cx.shape.unknown = @ + 1]
\* Reader::nested: the depth is checked before the bytes are looked at.
Nested(a, item, Decode(_, _), Put(_, _)) ==
    IF a.cx.depth + 1 > MAX_DEPTH THEN Refuse(a)
    ELSE LET r == Decode(item.b, [a.cx EXCEPT !.depth = @ + 1])
         IN  Into(a, [r EXCEPT !.cx.depth = a.cx.depth], Put)
Is(item, field, wire) == item.f = field /\ item.w = wire

RECURSIVE WireAttr(_, _), WireValue(_, _), WireArray(_, _), WireKvlist(_, _)

WireAttr(body, cx) ==
    Pass(body, At([key |-> NoText, value |-> EmptyValue], cx), LAMBDA a, i :
        CASE Is(i, 1, "bytes") -> [a EXCEPT !.out.key = KeyOf(i.b, a.cx)]
          [] Is(i, 2, "bytes") -> Nested(a, i, WireValue, LAMBDA o, v : [o EXCEPT !.value = v])
          [] OTHER -> Skip(a))

\* A oneof: the last member wins, but bytes past the bound leave what was there
\* and a string past it leaves nothing.
WireValue(body, cx) ==
    Pass(body, At(EmptyValue, cx), LAMBDA a, i :
        CASE Is(i, 1, "bytes") ->
                IF i.b.len > a.cx.limits.value
                THEN At(EmptyValue, [a.cx EXCEPT !.dropped.oversize = @ + 1])
                ELSE IF i.b.s[1] = "raw"
                THEN At(<<"bytes", i.b>>, [a.cx EXCEPT !.dropped.utf8 = @ + 1])
                ELSE At(<<"str", i.b>>, a.cx)
          [] Is(i, 2, "varint") -> At(<<"bool", i.b # 0>>, a.cx)
          [] Is(i, 3, "varint") -> At(<<"int", i.b>>, a.cx)
          [] Is(i, 4, "fixed64") -> At(<<"double", i.b>>, a.cx)
          [] Is(i, 5, "bytes") -> Nested(a, i, WireArray, LAMBDA o, v : <<"array", v>>)
          [] Is(i, 6, "bytes") -> Nested(a, i, WireKvlist, LAMBDA o, v : <<"map", v>>)
          [] Is(i, 7, "bytes") ->
                IF i.b.len > a.cx.limits.value
                THEN [a EXCEPT !.cx.dropped.oversize = @ + 1]
                ELSE At(<<"bytes", i.b>>, a.cx)
          [] OTHER -> Skip(a))

WireArray(body, cx) ==
    Pass(body, At(<<>>, cx), LAMBDA a, i :
        IF ~Is(i, 1, "bytes") THEN Skip(a)
        ELSE IF Len(a.out) >= a.cx.limits.items
        THEN [a EXCEPT !.cx.dropped.attributes = @ + 1]
        ELSE Nested(a, i, WireValue, Append))

\* A repeated KeyValue under the given field number.
WireAttrs(a, item, attrs, Put(_, _)) ==
    LET pushed == Nested(At(attrs, a.cx), item, WireAttr, LAMBDA o, v : <<o, v>>)
    IN  IF pushed.cx.err THEN Refuse(a)
        ELSE Into(a, PushAttr(attrs, pushed.out[2], pushed.cx), Put)

WireKvlist(body, cx) ==
    Pass(body, At(<<>>, cx), LAMBDA a, i :
        IF Is(i, 1, "bytes") THEN WireAttrs(a, i, a.out, LAMBDA o, v : v) ELSE Skip(a))

WireResource(body, cx) == WireKvlist(body, cx)

WireScope(body, cx) ==
    Pass(body, At(<<NoText, NoText>>, cx), LAMBDA a, i :
        CASE Is(i, 1, "bytes") -> [a EXCEPT !.out[1] = LossyString(i.b)]
          [] Is(i, 2, "bytes") -> [a EXCEPT !.out[2] = LossyString(i.b)]
          [] OTHER -> Skip(a))

WireEvent(body, cx) ==
    Pass(body, At(BlankEvent, cx), LAMBDA a, i :
        CASE Is(i, 1, "fixed64") -> [a EXCEPT !.out.at = i.b]
          [] Is(i, 2, "bytes") -> [a EXCEPT !.out.name = LossyString(i.b)]
          [] Is(i, 3, "bytes") ->
                WireAttrs(a, i, a.out.attributes, LAMBDA o, v : [o EXCEPT !.attributes = v])
          [] OTHER -> Skip(a))

WireStatus(body, cx) ==
    Pass(body, At(<<0, NoText>>, cx), LAMBDA a, i :
        CASE Is(i, 2, "bytes") -> [a EXCEPT !.out[2] = LossyString(i.b)]
          [] Is(i, 3, "varint") -> [a EXCEPT !.out[1] = StatusCodeOf(i.b)]
          [] OTHER -> Skip(a))

WellFormedId(id, expected) == IsAbsent(id) \/ id.len = expected

\* One span or, when an id has a length OTLP does not define, none.
WireSpan(body, cx) ==
    LET read ==
          Pass(body, At(BlankSpan, cx), LAMBDA a, i :
            CASE Is(i, 1, "bytes") -> [a EXCEPT !.out.trace = i.b]
              [] Is(i, 2, "bytes") -> [a EXCEPT !.out.id = i.b]
              [] Is(i, 4, "bytes") -> [a EXCEPT !.out.parent = i.b]
              [] Is(i, 5, "bytes") -> [a EXCEPT !.out.name = LossyString(i.b)]
              [] Is(i, 6, "varint") -> [a EXCEPT !.out.kind = SpanKindOf(i.b)]
              [] Is(i, 7, "fixed64") -> [a EXCEPT !.out.start = i.b]
              [] Is(i, 8, "fixed64") -> [a EXCEPT !.out.end = i.b]
              [] Is(i, 9, "bytes") ->
                    WireAttrs(a, i, a.out.attributes, LAMBDA o, v : [o EXCEPT !.attributes = v])
              [] Is(i, 11, "bytes") ->
                    IF Len(a.out.events) >= a.cx.limits.events
                    THEN [a EXCEPT !.cx.dropped.events = @ + 1]
                    ELSE Nested(a, i, WireEvent, LAMBDA o, v : [o EXCEPT !.events = Append(@, v)])
              [] Is(i, 15, "bytes") ->
                    Nested(a, i, WireStatus, LAMBDA o, v : [o EXCEPT !.code = v[1], !.message = v[2]])
              [] OTHER -> Skip(a))
    IN  IF \/ read.cx.err
           \/ /\ WellFormedId(read.out.trace, TRACE_ID_BYTES)
              /\ WellFormedId(read.out.id, SPAN_ID_BYTES)
              /\ WellFormedId(read.out.parent, SPAN_ID_BYTES)
        THEN [read EXCEPT !.out = <<@>>]
        ELSE At(<<>>, [read.cx EXCEPT !.dropped.spans = @ + 1])

\* A span counts against the cap whether or not it survived.
WireScopeSpans(body, cx) ==
    Pass(body, At([scope |-> <<NoText, NoText>>, spans |-> <<>>], cx), LAMBDA a, i :
        CASE Is(i, 1, "bytes") -> Nested(a, i, WireScope, LAMBDA o, v : [o EXCEPT !.scope = v])
          [] Is(i, 2, "bytes") ->
                IF a.cx.spans >= a.cx.limits.spans
                THEN [a EXCEPT !.cx.dropped.spans = @ + 1]
                ELSE LET r == Nested(a, i, WireSpan, LAMBDA o, v : [o EXCEPT !.spans = @ \o v])
                     IN  [r EXCEPT !.cx.spans = @ + 1]
          [] OTHER -> Skip(a))

WireResourceSpans(body, cx) ==
    Pass(body, At([resource |-> <<>>, scopes |-> <<>>], cx), LAMBDA a, i :
        CASE Is(i, 1, "bytes") -> Nested(a, i, WireResource, LAMBDA o, v : [o EXCEPT !.resource = v])
          [] Is(i, 2, "bytes") ->
                Nested(a, i, WireScopeSpans, LAMBDA o, v : [o EXCEPT !.scopes = Append(@, v)])
          [] OTHER -> Skip(a))

DecodeTraceRequest(body, limits) ==
    Pass(body, At(<<>>, Fresh(limits)), LAMBDA a, i :
        IF Is(i, 1, "bytes") THEN Nested(a, i, WireResourceSpans, Append) ELSE Skip(a))

-----------------------------------------------------------------------------
(* JSON.                                                                   *)

Charge(a, what) == [a EXCEPT !.cx.shape[what] = @ + 1]
WrongType(a) == Charge(a, "badTypes")

\* Ctx::message: one message of OTLP, charged as the wire charges it.
Message(cx, Read(_)) ==
    IF cx.depth + 1 > MAX_DEPTH THEN Refuse(At(<<>>, cx))
    ELSE LET r == Read([cx EXCEPT !.depth = @ + 1]) IN [r EXCEPT !.cx.depth = cx.depth]

\* opens_object and what reads it; opens_array and what reads its elements.
Object(a, v, Decode(_, _), Put(_, _)) ==
    IF v.t # "object" THEN WrongType(a) ELSE Into(a, Decode(v.v, a.cx), Put)
Elements(a, v, Each(_, _)) == IF v.t # "array" THEN WrongType(a) ELSE Pass(v.v, a, Each)

\* The names a member has in the .proto file and never in OTLP/JSON.
SnakeCase == {"resource_spans", "trace_id", "span_id"}
\* An unknown member costs one, an array of them one for each element.
Unrecognised(a, m) ==
    LET named == IF m.n \in SnakeCase THEN Charge(a, "snake") ELSE a
    IN  [named EXCEPT !.cx.shape.unknown = @ + (IF m.v.t = "array" THEN Len(m.v.v) ELSE 1)]

StringMember(a, v, Put(_, _)) ==
    IF v.t = "string" THEN [a EXCEPT !.out = Put(@, v.v)] ELSE WrongType(a)
EnumMember(a, v, Put(_, _)) ==
    CASE v.t # "number" -> WrongType(a)
      [] v.v = <<>>     -> Charge(a, "badNumbers")
      [] OTHER          -> [a EXCEPT !.out = Put(@, v.v[1])]
\* A 64-bit field, as a number or as the text of one.
IntMember(a, v, Put(_, _)) ==
    CASE v.t = "number" /\ v.v # <<>> -> [a EXCEPT !.out = Put(@, v.v[1])]
      [] v.t = "string" /\ v.v.s[1] = "num" -> [a EXCEPT !.out = Put(@, v.v.s[2])]
      [] OTHER -> Charge(a, "badNumbers")
BoolMember(a, v, Put(_, _)) ==
    IF v.t = "bool" THEN [a EXCEPT !.out = Put(@, v.v)] ELSE WrongType(a)
\* A number that is finite, or one of the three words for one that is not.
DoubleMember(a, v, Put(_, _)) ==
    CASE v.t = "number" /\ v.v = <<>> -> Charge(a, "overflow")
      [] v.t = "number" -> [a EXCEPT !.out = Put(@, v.v[1])]
      [] v.t = "string" /\ v.v.s[1] = "word" ->
            Charge([a EXCEPT !.out = Put(@, v.v.s[2])], "nonfinite")
      [] OTHER -> WrongType(a)
BytesMember(a, v, Put(_, _)) ==
    CASE v.t # "string" -> WrongType(a)
      [] v.v.s[1] # "base64" -> Charge(a, "badBase64")
      [] v.v.s[2].len > a.cx.limits.value -> [a EXCEPT !.cx.dropped.oversize = @ + 1]
      [] OTHER -> [a EXCEPT !.out = Put(@, v.v.s[2])]
\* An id: hex of exactly the length, or empty; anything else costs the span.
IdMember(a, v, chars, Put(_, _)) ==
    LET lost == [a EXCEPT !.out.unreadable = TRUE] IN
    CASE v.t # "string" -> WrongType(lost)
      [] v.t = "string" /\ v.v.len = 0 -> [a EXCEPT !.out = Put(@, NoId)]
      [] v.t = "string" /\ v.v.len # 0 /\ (v.v.s[1] # "hex" \/ v.v.len # chars) ->
            Charge(lost, "badIds")
      [] OTHER -> [a EXCEPT !.out = Put(@, [len |-> chars \div 2, s |-> <<"id", v.v.s[2]>>])]

RECURSIVE JsonAttr(_, _), JsonValue(_, _), JsonArray(_, _), JsonKvlist(_, _), JsonKvlist_Uncharged(_, _)

\* key_values: a repeated KeyValue, bounded by push_attr.
KeyValues(a, v, Get(_), Put(_, _)) ==
    Elements(a, v, LAMBDA b, e :
        LET r == Object(At(<<>>, b.cx), e, JsonAttr, LAMBDA o, x : <<x>>) IN
        IF r.cx.err \/ r.out = <<>> THEN [b EXCEPT !.cx = r.cx]
        ELSE Into(b, PushAttr(Get(b.out), r.out[1], r.cx), Put))

JsonAttr(members, cx0) ==
    Message(cx0, LAMBDA cx :
        Pass(members, At([key |-> NoText, value |-> EmptyValue], cx), LAMBDA a, m :
            CASE m.n = "key" -> StringMember(a, m.v, LAMBDA o, x : [o EXCEPT !.key = KeyOf(x, cx)])
              [] m.n = "value" -> Object(a, m.v, JsonValue, LAMBDA o, x : [o EXCEPT !.value = x])
              [] OTHER -> Unrecognised(a, m)))

\* The members of the oneof that could be read; a second one is counted.
JsonValue(members, cx0) ==
    LET Set(o, x) == [assigned |-> TRUE, value |-> x, twice |-> o.assigned]
        Read(a, m) ==
            CASE m.n = "stringValue" ->
                    IF m.v.t = "string" /\ m.v.v.len > a.cx.limits.value
                    THEN [[a EXCEPT !.cx.dropped.oversize = @ + 1] EXCEPT !.out = Set(@, EmptyValue)]
                    ELSE StringMember(a, m.v, LAMBDA o, x : Set(o, <<"str", x>>))
              [] m.n = "boolValue" -> BoolMember(a, m.v, LAMBDA o, x : Set(o, <<"bool", x>>))
              [] m.n = "intValue" -> IntMember(a, m.v, LAMBDA o, x : Set(o, <<"int", x>>))
              [] m.n = "doubleValue" -> DoubleMember(a, m.v, LAMBDA o, x : Set(o, <<"double", x>>))
              [] m.n = "bytesValue" -> BytesMember(a, m.v, LAMBDA o, x : Set(o, <<"bytes", x>>))
              [] m.n = "arrayValue" -> Object(a, m.v, JsonArray, LAMBDA o, x : Set(o, <<"array", x>>))
              [] m.n = "kvlistValue" -> Object(a, m.v, JsonKvlist, LAMBDA o, x : Set(o, <<"map", x>>))
              [] OTHER -> Unrecognised(a, m)
        blank == [assigned |-> FALSE, value |-> EmptyValue, twice |-> FALSE]
    IN  Message(cx0, LAMBDA cx :
          LET all == Pass(members, At(blank, cx), LAMBDA a, m :
                        LET r == Read([a EXCEPT !.out.twice = FALSE], m) IN
                        IF ~r.cx.err /\ r.out.twice THEN Charge(r, "multi") ELSE r)
          IN  [all EXCEPT !.out = @.value])

JsonArray(members, cx0) ==
    Message(cx0, LAMBDA cx :
        Pass(members, At(<<>>, cx), LAMBDA a, m :
            IF m.n # "values" THEN Unrecognised(a, m)
            ELSE Elements(a, m.v, LAMBDA b, e :
                    IF Len(b.out) >= b.cx.limits.items
                    THEN [b EXCEPT !.cx.dropped.attributes = @ + 1]
                    ELSE Object(b, e, JsonValue, Append))))

\* A list of attributes read as part of the value that holds it.
JsonKvlist_Uncharged(members, cx0) ==
    Pass(members, At(<<>>, cx0), LAMBDA a, m :
        IF m.n # "values" THEN Unrecognised(a, m)
        ELSE KeyValues(a, m.v, LAMBDA o : o, LAMBDA o, x : x))

JsonKvlist(members, cx0) ==
    Message(cx0, LAMBDA cx :
        Pass(members, At(<<>>, cx), LAMBDA a, m :
            IF m.n # "values" THEN Unrecognised(a, m)
            ELSE KeyValues(a, m.v, LAMBDA o : o, LAMBDA o, x : x)))

JsonResource(members, cx0) ==
    Message(cx0, LAMBDA cx :
        Pass(members, At(<<>>, cx), LAMBDA a, m :
            IF m.n # "attributes" THEN Unrecognised(a, m)
            ELSE KeyValues(a, m.v, LAMBDA o : o, LAMBDA o, x : x)))

JsonScope(members, cx0) ==
    Message(cx0, LAMBDA cx :
        Pass(members, At(<<NoText, NoText>>, cx), LAMBDA a, m :
            CASE m.n = "name" -> StringMember(a, m.v, LAMBDA o, x : [o EXCEPT ![1] = x])
              [] m.n = "version" -> StringMember(a, m.v, LAMBDA o, x : [o EXCEPT ![2] = x])
              [] OTHER -> Unrecognised(a, m)))

JsonEvent(members, cx0) ==
    Message(cx0, LAMBDA cx :
        Pass(members, At(BlankEvent, cx), LAMBDA a, m :
            CASE m.n = "timeUnixNano" -> IntMember(a, m.v, LAMBDA o, x : [o EXCEPT !.at = x])
              [] m.n = "name" -> StringMember(a, m.v, LAMBDA o, x : [o EXCEPT !.name = x])
              [] m.n = "attributes" ->
                    KeyValues(a, m.v, LAMBDA o : o.attributes, LAMBDA o, x : [o EXCEPT !.attributes = x])
              [] OTHER -> Unrecognised(a, m)))

JsonStatus(members, cx0) ==
    Message(cx0, LAMBDA cx :
        Pass(members, At(<<0, NoText>>, cx), LAMBDA a, m :
            CASE m.n = "message" -> StringMember(a, m.v, LAMBDA o, x : [o EXCEPT ![2] = x])
              [] m.n = "code" -> EnumMember(a, m.v, LAMBDA o, x : [o EXCEPT ![1] = StatusCodeOf(x)])
              [] OTHER -> Unrecognised(a, m)))

\* One span or, when the text of an id could not be read, none.
JsonSpan(members, cx0) ==
    LET Read(a, m) ==
          CASE m.n = "traceId" ->
                  IdMember(a, m.v, 2 * TRACE_ID_BYTES, LAMBDA o, x : [o EXCEPT !.span.trace = x])
            [] m.n = "spanId" ->
                  IdMember(a, m.v, 2 * SPAN_ID_BYTES, LAMBDA o, x : [o EXCEPT !.span.id = x])
            [] m.n = "parentSpanId" ->
                  IdMember(a, m.v, 2 * SPAN_ID_BYTES, LAMBDA o, x : [o EXCEPT !.span.parent = x])
            [] m.n = "name" -> StringMember(a, m.v, LAMBDA o, x : [o EXCEPT !.span.name = x])
            [] m.n = "kind" -> EnumMember(a, m.v, LAMBDA o, x : [o EXCEPT !.span.kind = SpanKindOf(x)])
            [] m.n = "startTimeUnixNano" -> IntMember(a, m.v, LAMBDA o, x : [o EXCEPT !.span.start = x])
            [] m.n = "endTimeUnixNano" -> IntMember(a, m.v, LAMBDA o, x : [o EXCEPT !.span.end = x])
            [] m.n = "attributes" ->
                  KeyValues(a, m.v, LAMBDA o : o.span.attributes,
                            LAMBDA o, x : [o EXCEPT !.span.attributes = x])
            [] m.n = "events" ->
                  Elements(a, m.v, LAMBDA b, e :
                      IF Len(b.out.span.events) >= b.cx.limits.events
                      THEN [b EXCEPT !.cx.dropped.events = @ + 1]
                      ELSE Object(b, e, JsonEvent, LAMBDA o, x : [o EXCEPT !.span.events = Append(@, x)]))
            [] m.n = "status" ->
                  Object(a, m.v, JsonStatus, LAMBDA o, x : [o EXCEPT !.span.code = x[1], !.span.message = x[2]])
            [] OTHER -> Unrecognised(a, m)
    IN  Message(cx0, LAMBDA cx :
          LET read == Pass(members, At([span |-> BlankSpan, unreadable |-> FALSE], cx), Read) IN
          IF ~read.cx.err /\ read.out.unreadable
          THEN At(<<>>, [read.cx EXCEPT !.dropped.spans = @ + 1])
          ELSE [read EXCEPT !.out = <<@.span>>])

\* A span counts against the cap when it was kept.
JsonScopeSpans(members, cx0) ==
    Message(cx0, LAMBDA cx :
        Pass(members, At([scope |-> <<NoText, NoText>>, spans |-> <<>>], cx), LAMBDA a, m :
            CASE m.n = "scope" -> Object(a, m.v, JsonScope, LAMBDA o, x : [o EXCEPT !.scope = x])
              [] m.n = "spans" ->
                    Elements(a, m.v, LAMBDA b, e :
                        IF b.cx.spans >= b.cx.limits.spans
                        THEN [b EXCEPT !.cx.dropped.spans = @ + 1]
                        ELSE LET r == Object(b, e, JsonSpan, LAMBDA o, x : [o EXCEPT !.spans = @ \o x])
                             IN  [r EXCEPT !.cx.spans = @ + Len(r.out.spans) - Len(b.out.spans)])
              [] OTHER -> Unrecognised(a, m)))

ResourceSpansMembers == {"resource", "scopeSpans"}
\* resource_spans_member, wherever the two members appear.
ResourceSpansMember(a, m) ==
    IF m.n = "resource"
    THEN Object(a, m.v, JsonResource, LAMBDA o, x : [o EXCEPT !.resource = x])
    ELSE Elements(a, m.v, LAMBDA b, e :
            Object(b, e, JsonScopeSpans, LAMBDA o, x : [o EXCEPT !.scopes = Append(@, x)]))

JsonResourceSpans(members, cx0) ==
    Message(cx0, LAMBDA cx :
        Pass(members, At([resource |-> <<>>, scopes |-> <<>>], cx), LAMBDA a, m :
            IF m.n \in ResourceSpansMembers THEN ResourceSpansMember(a, m) ELSE Unrecognised(a, m)))

\* What a line was, said once the whole of it has been seen.
Classified(cx, top, names, spans) ==
    LET ours == names \cap ({"resourceSpans"} \cup ResourceSpansMembers)
        what == CASE top.t # "object" -> "notTraces"
                  [] top.t = "object" /\ ours # {} /\ spans > 0 -> "none"
                  [] top.t = "object" /\ (names = {} \/ (ours # {} /\ spans = 0)) -> "empty"
                  [] OTHER -> IF names \cap {"resourceMetrics", "resourceLogs"} # {}
                              THEN "wrongSignal" ELSE "notTraces"
    IN  IF what = "none" THEN cx ELSE [cx EXCEPT !.shape[what] = @ + 1]

\* One line: the envelope, the bare dialect, both, another signal, or neither.
DecodeTracesData(top, limits) ==
    LET members == IF top.t = "object" THEN top.v ELSE <<>>
        names   == {members[i].n : i \in DOMAIN members}
        start   == At([all |-> <<>>, bare |-> [resource |-> <<>>, scopes |-> <<>>]], Fresh(limits))
        read    ==
          Pass(members, start, LAMBDA a, m :
            CASE m.n = "resourceSpans" ->
                    Elements(a, m.v, LAMBDA b, e :
                        Object(b, e, JsonResourceSpans, LAMBDA o, x : [o EXCEPT !.all = Append(@, x)]))
              [] m.n \in ResourceSpansMembers ->
                    LET r == ResourceSpansMember(At(a.out.bare, a.cx), m)
                    IN  Into(a, r, LAMBDA o, x : [o EXCEPT !.bare = x])
              [] OTHER -> Unrecognised(a, m))
        bare    == names \cap ResourceSpansMembers # {}
        out     == read.out.all \o (IF bare THEN <<read.out.bare>> ELSE <<>>)
        counted == IF bare THEN [read.cx EXCEPT !.shape.bare = @ + 1] ELSE read.cx
    IN  At(out, Classified(counted, top, names, SpanCount(out)))

-----------------------------------------------------------------------------
(* The proto3 mapping from fields to members: how an emitter spells in JSON *)
(* the message it would have put on the wire.                              *)

Spelling ==
    [Request |-> (1 :> <<"resourceSpans", "many", "ResourceSpans">>),
     ResourceSpans |-> (1 :> <<"resource", "one", "Resource">>) @@ (2 :> <<"scopeSpans", "many", "ScopeSpans">>)
                       @@ (3 :> <<"schemaUrl", "one", "text">>),
     Resource |-> (1 :> <<"attributes", "many", "KeyValue">>),
     ScopeSpans |-> (1 :> <<"scope", "one", "Scope">>) @@ (2 :> <<"spans", "many", "Span">>),
     Scope |-> (1 :> <<"name", "one", "text">>) @@ (2 :> <<"version", "one", "text">>),
     Span |-> (1 :> <<"traceId", "one", "id">>) @@ (2 :> <<"spanId", "one", "id">>)
              @@ (3 :> <<"traceState", "one", "text">>)
              @@ (4 :> <<"parentSpanId", "one", "id">>) @@ (5 :> <<"name", "one", "text">>)
              @@ (6 :> <<"kind", "one", "number">>) @@ (7 :> <<"startTimeUnixNano", "one", "decimal">>)
              @@ (8 :> <<"endTimeUnixNano", "one", "decimal">>) @@ (9 :> <<"attributes", "many", "KeyValue">>)
              @@ (11 :> <<"events", "many", "Event">>) @@ (13 :> <<"links", "many", "text">>)
              @@ (15 :> <<"status", "one", "Status">>),
     Event |-> (1 :> <<"timeUnixNano", "one", "decimal">>) @@ (2 :> <<"name", "one", "text">>)
               @@ (3 :> <<"attributes", "many", "KeyValue">>),
     Status |-> (2 :> <<"message", "one", "text">>) @@ (3 :> <<"code", "one", "number">>),
     KeyValue |-> (1 :> <<"key", "one", "text">>) @@ (2 :> <<"value", "one", "AnyValue">>),
     AnyValue |-> (1 :> <<"stringValue", "one", "text">>) @@ (2 :> <<"boolValue", "one", "bool">>)
                  @@ (3 :> <<"intValue", "one", "decimal">>) @@ (4 :> <<"doubleValue", "one", "number">>)
                  @@ (5 :> <<"arrayValue", "one", "ArrayValue">>) @@ (6 :> <<"kvlistValue", "one", "KeyValueList">>)
                  @@ (7 :> <<"bytesValue", "one", "base64">>),
     ArrayValue |-> (1 :> <<"values", "many", "AnyValue">>),
     KeyValueList |-> (1 :> <<"values", "many", "KeyValue">>)]

RECURSIVE InJson(_, _)
InJson(type, b) ==
    CASE type = "text"    -> [t |-> "string", v |-> b]
      [] type = "id"      -> [t |-> "string", v |-> IF b.len = 0 THEN NoText
                                                    ELSE [len |-> 2 * b.len, s |-> <<"hex", b.s[2]>>]]
      [] type = "number"  -> [t |-> "number", v |-> <<b>>]
      [] type = "decimal" -> [t |-> "string", v |-> [len |-> 1, s |-> <<"num", b>>]]
      [] type = "bool"    -> [t |-> "bool", v |-> b # 0]
      [] type = "base64"  -> [t |-> "string", v |-> [len |-> 4, s |-> <<"base64", b>>]]
      [] OTHER ->
          LET here   == SelectSeq([i \in DOMAIN b |-> i], LAMBDA i : \A j \in 1..(i - 1) : b[j].f # b[i].f)
              Same(i) == SelectSeq(b, LAMBDA x : x.f = b[i].f)
              Member(i) ==
                LET how == Spelling[type][b[i].f] IN
                [n |-> how[1],
                 v |-> IF how[2] = "one" THEN InJson(how[3], b[i].b)
                       ELSE [t |-> "array", v |-> [k \in DOMAIN Same(i) |-> InJson(how[3], Same(i)[k].b)]]]
          IN  [t |-> "object", v |-> [k \in DOMAIN here |-> Member(here[k])]]

-----------------------------------------------------------------------------
Told(r) == [refused |-> r.cx.err, request |-> IF r.cx.err THEN <<>> ELSE r.out,
            dropped |-> IF r.cx.err THEN NothingDropped ELSE r.cx.dropped,
            unknown |-> IF r.cx.err THEN 0 ELSE r.cx.shape.unknown]

\* A batch is the same request, with the same losses counted, whichever way it
\* was sent (otlpjson.rs: "two transports that disagree about which lines become
\* records are two stores").
TransportsAgree(batch, limits) ==
    Told(DecodeTraceRequest(batch, limits)) = Told(DecodeTracesData(InJson("Request", batch), limits))

\* A line with one member written as something its field is not is still read: its
\* other spans are what they were, and what was lost is counted somewhere.
FaultStaysLocal(line, faulty, limits) ==
    LET before == DecodeTracesData(line, limits)
        after  == DecodeTracesData(faulty, limits)
        SpansOf(r) == FlattenSeq([i \in DOMAIN r.out |->
                        FlattenSeq([j \in DOMAIN r.out[i].scopes |-> r.out[i].scopes[j].spans])])
        Count(shape) == shape.badTypes + shape.badNumbers + shape.badIds + shape.badBase64 + shape.overflow
    IN  /\ ~after.cx.err
        /\ Count(after.cx.shape) > Count(before.cx.shape)
        /\ Cardinality(ToSet(SpansOf(before)) \ ToSet(SpansOf(after))) <= 1
        \* no span that named a parent becomes a root, and none changes its name
        /\ \A s \in ToSet(SpansOf(after)) :
              \E o \in ToSet(SpansOf(before)) :
                  OwnId(s) = OwnId(o) /\ HasParent(s) = HasParent(o) /\ s.trace = o.trace
=============================================================================
