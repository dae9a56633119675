------------------------------- MODULE Record -------------------------------
(***************************************************************************)
(* The decision record: the identifiers it is made of, the schema that says *)
(* which plane each field lives in, and its bytes, written by the journal,  *)
(* read back by the journal and walked past by the offline verifier.  The   *)
(* body carries no tags, so the three have to count the same fields in the  *)
(* same order.  Bytes are scaled down: a group of a varint holds two bits   *)
(* and a number five, as seven and sixty four in the code.                  *)
(***************************************************************************)
EXTENDS Integers, Sequences, FiniteSets, SequencesExt

-----------------------------------------------------------------------------
(* Identifiers: a text is a sequence of symbols.                           *)

SegmentChars == {"a", "0", ".", "-"}
UriChars == SegmentChars \cup {"/", ":", "agent://", "user://"}

\* check: the bound before the characters, both before anything is kept.
Check(text, max, allowed) ==
    /\ text # <<>>
    /\ Len(text) <= max
    /\ \A i \in DOMAIN text : text[i] \in allowed

\* The identifier types: longest, and of what.
IdTypes ==
    [AgentId |-> <<255, "uri">>, PrincipalId |-> <<255, "uri">>, RunId |-> <<64, "segment">>,
     PolicyVersion |-> <<64, "segment">>, TokenId |-> <<128, "segment">>,
     KeyThumbprint |-> <<128, "segment">>, IssuerId |-> <<255, "uri">>,
     ModelId |-> <<128, "model">>, ToolName |-> <<64, "segment">>, TenantId |-> <<64, "segment">>]

\* A scheme, a trust domain and a path, in that order and none of them empty.
StrictShape(text, schemes) ==
    /\ text # <<>> /\ text[1] \in schemes
    /\ LET rest == Tail(text)
           cut  == SelectInSeq(rest, LAMBDA c : c = "/")
       IN  cut > 1 /\ cut < Len(rest)
AgentParseStrict(text, max) == Check(text, max, UriChars) /\ StrictShape(text, {"agent://"})
PrincipalParseStrict(text, max) ==
    Check(text, max, UriChars) /\ StrictShape(text, {"agent://", "user://"})

\* What the strict parsers promise, said of the parts: a scheme, a domain that no
\* longer name can be mistaken for, and something after it.
StrictAgrees(text, max) ==
    LET parts(schemes) ==
          \E cut \in 3..Len(text) - 1 :
             /\ text[1] \in schemes /\ text[cut] = "/"
             /\ \A i \in 2..cut - 1 : text[i] \in UriChars \ {"/"}
             /\ \A i \in cut + 1..Len(text) : text[i] \in UriChars
    IN  /\ AgentParseStrict(text, max) <=> (Len(text) <= max /\ parts({"agent://"}))
        /\ PrincipalParseStrict(text, max) <=> (Len(text) <= max /\ parts({"agent://", "user://"}))

-----------------------------------------------------------------------------
(* Closed vocabularies, and the codes that stand for them on disk.         *)

EventType ==
    <<"request_received", "model_call", "tool_call", "policy_decision", "budget_check",
      "memory_access", "delegation", "run_completed", "erasure", "store_event",
      "notification_dispatched", "identity_finding">>
Severity == <<"debug", "info", "notice", "warning", "error", "critical">>
Verdict == <<"allowed", "denied", "held", "failed", "not_applicable">>
ErrorCode ==
    <<"none", "timeout", "rate_limited", "unauthorized", "budget_exceeded", "policy_denied",
      "upstream_error", "malformed", "internal">>
PayloadClass ==
    <<"prompt", "completion", "tool_arguments", "tool_result", "document", "diagnostic">>
Algorithms ==
    [hash |-> <<"sha384">>, signature |-> <<"es256", "es384", "ml-dsa-65", "slh-dsa">>,
     kem |-> <<"x25519-ml-kem-768">>]

\* A code is given once and never moved: es384 came last and has the last code.
Codes ==
    [event_type |-> EventType, severity |-> Severity, verdict |-> Verdict,
     error |-> ErrorCode, class |-> PayloadClass, hash |-> Algorithms.hash,
     signature |-> <<"es256", "ml-dsa-65", "slh-dsa", "es384">>, kem |-> Algorithms.kem]

-----------------------------------------------------------------------------
(* The schema.                                                             *)

PROVABLE_DIMENSIONS == <<"id", "recorded_at", "agent_id", "run_id", "event_type">>

FieldOf(path, kind, more) ==
    [path |-> path, kind |-> kind, optional |-> "opt" \in more, repeated |-> "rep" \in more,
     plane |-> IF "payload" \in more THEN "payload" ELSE "metadata",
     pii |-> IF "payload" \in more THEN "possible"
             ELSE IF "operator" \in more THEN "operator" ELSE "never",
     provable |-> "prov" \in more]
Token(max, chars) == <<"token", max, chars>>
Enum(values) == <<"enum", Range(values)>>
Plain(name) == <<name>>

WhoFields ==
    <<FieldOf("id", Token(32, "hex"), {"prov"}),
      FieldOf("tenant", Token(64, "segment"), {"operator"}),
      FieldOf("shard", Plain("u16"), {}),
      FieldOf("agent_id", Token(255, "uri"), {"operator", "prov"}),
      FieldOf("run_id", Token(64, "segment"), {"operator", "prov"}),
      FieldOf("parent_run_id", Token(64, "segment"), {"opt", "operator"}),
      FieldOf("on_behalf_of", Token(255, "uri"), {"opt", "rep", "operator"}),
      FieldOf("occurred_at", Plain("time"), {}),
      FieldOf("decided_at", Plain("time"), {"opt"}),
      FieldOf("recorded_at", Plain("time"), {"prov"}),
      FieldOf("knowledge_as_of", Plain("time"), {"opt"}),
      FieldOf("clock_skew_nanos", Plain("u64"), {"opt"})>>
WhyFields ==
    <<FieldOf("event_type", Enum(EventType), {"prov"}),
      FieldOf("severity", Enum(Severity), {}),
      FieldOf("basis.policy_version", Token(64, "segment"), {"opt", "operator"}),
      FieldOf("basis.budget_remaining_micros", Plain("i64"), {"opt"}),
      FieldOf("basis.memory_ref", Plain("hash"), {"opt"}),
      FieldOf("basis.model", Token(128, "model"), {"opt", "operator"}),
      FieldOf("basis.temperature_milli", Plain("u16"), {"opt"}),
      FieldOf("basis.max_tokens", Plain("u32"), {"opt"}),
      FieldOf("basis.prompt_hash", Plain("hash"), {"opt"}),
      FieldOf("basis.tool_manifest", Token(64, "segment"), {"opt", "rep", "operator"}),
      FieldOf("basis.identity_chain", Token(255, "uri"), {"opt", "rep", "operator"}),
      FieldOf("caused_by", Token(32, "hex"), {"opt", "rep"})>>
HowFields ==
    <<FieldOf("outcome.verdict", Enum(Verdict), {"opt"}),
      FieldOf("outcome.error", Enum(ErrorCode), {"opt"}),
      FieldOf("outcome.latency_micros", Plain("u64"), {"opt"}),
      FieldOf("outcome.tokens_in", Plain("u32"), {"opt"}),
      FieldOf("outcome.tokens_out", Plain("u32"), {"opt"}),
      FieldOf("outcome.cost_micros", Plain("i64"), {"opt"}),
      FieldOf("payload.hash", Plain("hash"), {"opt"}),
      FieldOf("payload.size_bytes", Plain("u64"), {"opt"}),
      FieldOf("payload.class", Enum(PayloadClass), {"opt"}),
      FieldOf("payload.key_id", Plain("hash"), {"opt"}),
      FieldOf("payload.content", Plain("bytes"), {"opt", "payload"}),
      FieldOf("payload.unmapped", Plain("text"), {"opt", "payload"})>>
ChainFields ==
    <<FieldOf("seq", Plain("u64"), {}),
      FieldOf("prev_hash", Plain("hash"), {}),
      FieldOf("segment_id", Plain("u64"), {}),
      FieldOf("algorithms.hash", Enum(Algorithms.hash), {}),
      FieldOf("algorithms.signature", Enum(Algorithms.signature), {}),
      FieldOf("algorithms.kem", Enum(Algorithms.kem), {}),
      FieldOf("mapper", Plain("u16"), {}),
      FieldOf("basis.delegation_proof.jti", Token(128, "segment"), {"opt", "operator"}),
      FieldOf("basis.delegation_proof.jkt", Token(128, "segment"), {"opt", "operator"}),
      FieldOf("basis.delegation_proof.iss", Token(255, "uri"), {"opt"}),
      FieldOf("basis.delegation_proof.exp", Plain("time"), {"opt"})>>

Fields == WhoFields \o WhyFields \o HowFields \o ChainFields
V2_ADDED == 4
FieldsV1 == SubSeq(Fields, 1, Len(Fields) - V2_ADDED)

IsUnbounded(kind) == kind[1] \in {"text", "bytes"}

\* Every way a schema breaks its own rules.
Violations(fields) ==
    {f \in Range(fields) :
        \/ f.plane = "payload" /\ f.pii # "possible"
        \/ /\ f.plane = "metadata"
           /\ \/ IsUnbounded(f.kind)
              \/ f.pii = "possible"
              \/ f.pii = "operator" /\ f.kind[1] # "token"
              \/ f.kind[1] = "token" /\ f.kind[2] = 0
              \/ f.kind[1] = "enum" /\ f.kind[2] = {}
        \/ f.provable /\ f.plane # "metadata"}
ProvableFields(fields) == {f.path : f \in {g \in Range(fields) : g.provable}}

-----------------------------------------------------------------------------
(* Numbers and texts as bytes.                                             *)

GROUP == 4
MAX_GROUPS == 3
U64 == 0..31
U32Max == 15
U16Max == 7
MAX_BODY == 20
HASH_BYTES == 1
ID_BYTES == 2

Varint[v \in 0..255] == IF v < GROUP THEN <<v>> ELSE <<(v % GROUP) + GROUP>> \o Varint[v \div GROUP]
ZigZag(v) == IF v >= 0 THEN 2 * v ELSE -2 * v - 1
UnZigZag(u) == IF u % 2 = 0 THEN u \div 2 ELSE -((u + 1) \div 2)

PutPrim(shape, v) ==
    CASE shape \in {"u64", "u32", "u16"} -> Varint[v]
      [] shape = "i64" -> Varint[ZigZag(v)]
      [] shape = "str" -> Varint[Len(v)] \o v
      [] shape \in {"hash", "id"} -> v
      [] shape = "code" -> <<v>>

Bad == [ok |-> FALSE]
Got(v, at) == [ok |-> TRUE, v |-> v, at |-> at]
Slice(b, at, n) == IF at + n - 1 > Len(b) THEN Bad ELSE Got(SubSeq(b, at, at + n - 1), at + n)

\* How many groups the number at a place has, its last byte included; 0 if it
\* never ends.
Groups(b, at) ==
    LET last == {i \in at..Len(b) : b[i] < GROUP} IN
    IF last = {} THEN 0 ELSE (CHOOSE i \in last : \A j \in last : i <= j) - at + 1
ValueOf(b, at, n) == FoldLeft(LAMBDA a, k : a + (b[at + k - 1] % GROUP) * GROUP ^ (k - 1), 0,
                              [k \in 1..n |-> k])

\* The journal's reader: one spelling for each number, and no number too wide.
CanonicalVarint(b, at) ==
    LET n == Groups(b, at) IN
    IF \/ n = 0
       \/ n > MAX_GROUPS
       \/ n = MAX_GROUPS /\ b[at + n - 1] > 1
       \/ n > 1 /\ b[at + n - 1] = 0
    THEN Bad ELSE Got(ValueOf(b, at, n), at + n)
\* The verifier's reader takes any spelling, and lets the bits above the width go.
LaxVarint(b, at) ==
    LET n == Groups(b, at) IN
    IF n = 0 \/ n > MAX_GROUPS THEN Bad ELSE Got(ValueOf(b, at, n) % (2 * GROUP * GROUP), at + n)

\* Why a number could not be read: the bytes ran out before they were wrong.
VarintFault(b, at) ==
    IF /\ Groups(b, at) = 0
       /\ Len(b) - at < MAX_GROUPS
       /\ Len(b) - at + 1 = MAX_GROUPS => b[Len(b)] % GROUP <= 1
    THEN "truncated" ELSE "varint"

GetNumber(b, at, most) ==
    LET r == CanonicalVarint(b, at) IN IF r.ok /\ r.v <= most THEN r ELSE Bad
\* The bytes an identifier may have; the two left stand for every other, those that
\* are no UTF-8 included.
IdBytes == 0..5
\* Every string of a record is an identifier, and is parsed as one again.
GetStr(b, at) ==
    LET n    == CanonicalVarint(b, at)
        text == IF ~n.ok \/ n.v > MAX_BODY THEN Bad ELSE Slice(b, n.at, n.v)
    IN  IF text.ok /\ Check(text.v, MAX_BODY, IdBytes) THEN text ELSE Bad
GetPrim(shape, codes, b, at) ==
    CASE shape = "u64"  -> CanonicalVarint(b, at)
      [] shape = "u32"  -> GetNumber(b, at, U32Max)
      [] shape = "u16"  -> GetNumber(b, at, U16Max)
      [] shape = "i64"  -> LET r == CanonicalVarint(b, at) IN
                           IF r.ok THEN Got(UnZigZag(r.v), r.at) ELSE Bad
      [] shape = "str"  -> GetStr(b, at)
      [] shape = "hash" -> Slice(b, at, HASH_BYTES)
      [] shape = "id"   -> Slice(b, at, ID_BYTES)
      [] shape = "code" -> LET r == Slice(b, at, 1) IN
                           IF r.ok /\ r.v[1] \in 1..codes THEN Got(r.v[1], r.at) ELSE Bad

-----------------------------------------------------------------------------
(* The order of a record's fields, as the writer has it.  A field holds one *)
(* item, at most one, or any number of them; an item is a few primitives.   *)

One(p, s) == [p |-> p, how |-> "one", s |-> <<s>>, codes |-> 0]
Opt(p, s) == [p |-> p, how |-> "opt", s |-> <<s>>, codes |-> 0]
Many(p, s) == [p |-> p, how |-> "seq", s |-> <<s>>, codes |-> 0]
Coded(f, codes) == [f EXCEPT !.codes = Len(codes)]
OptGroup(p, shapes, codes) == [p |-> p, how |-> "opt", s |-> shapes, codes |-> codes]

HeadLayout ==
    <<One("id", "id"), One("tenant", "str"), One("shard", "u16"), One("agent_id", "str"),
      One("run_id", "str"), Opt("parent_run_id", "str"), Many("on_behalf_of", "str"),
      One("occurred_at", "u64"), Opt("decided_at", "u64"), One("recorded_at", "u64"),
      Opt("knowledge_as_of", "u64"), Opt("clock_skew_nanos", "u64"),
      Coded(One("event_type", "code"), Codes.event_type), Coded(One("severity", "code"), Codes.severity)>>
BasisLayout ==
    <<Opt("basis.policy_version", "str"), Opt("basis.budget_remaining_micros", "i64"),
      Opt("basis.memory_ref", "hash"), Opt("basis.model", "str"),
      Opt("basis.temperature_milli", "u16"), Opt("basis.max_tokens", "u32"),
      Opt("basis.prompt_hash", "hash"), Many("basis.tool_manifest", "str"),
      Many("basis.identity_chain", "str"), Many("caused_by", "id")>>
OutcomeLayout ==
    <<Coded(Opt("outcome.verdict", "code"), Codes.verdict), Coded(Opt("outcome.error", "code"), Codes.error),
      Opt("outcome.latency_micros", "u64"), Opt("outcome.tokens_in", "u32"),
      Opt("outcome.tokens_out", "u32"), Opt("outcome.cost_micros", "i64"),
      OptGroup("payload", <<"hash", "u64", "code", "hash">>, Len(PayloadClass)),
      One("seq", "u64"), One("prev_hash", "hash"), One("segment_id", "u64"),
      Coded(One("algorithms.hash", "code"), Codes.hash),
      Coded(One("algorithms.signature", "code"), Codes.signature),
      Coded(One("algorithms.kem", "code"), Codes.kem), One("mapper", "u16")>>
ProofLayout == <<OptGroup("basis.delegation_proof", <<"str", "str", "str", "u64">>, 0)>>

LayoutV1 == HeadLayout \o BasisLayout \o OutcomeLayout
LayoutAt(version) == IF version >= 2 THEN LayoutV1 \o ProofLayout ELSE LayoutV1

PutItem(f, item) == FlattenSeq([i \in DOMAIN f.s |-> PutPrim(f.s[i], item[i])])
PutField(f, items) ==
    (IF f.how = "one" THEN <<>> ELSE IF f.how = "opt" THEN <<Len(items)>> ELSE Varint[Len(items)])
    \o FlattenSeq([i \in DOMAIN items |-> PutItem(f, items[i])])

\* encode_record, with what a record has in each field: a sequence of items.
EncodeRecord(rec, version) ==
    FlattenSeq([i \in DOMAIN LayoutAt(version) |-> PutField(LayoutAt(version)[i], rec[i])])

GetItem(f, b, at) ==
    FoldLeft(LAMBDA r, shape :
                IF ~r.ok THEN r
                ELSE LET g == GetPrim(shape, f.codes, b, r.at) IN
                     IF g.ok THEN Got(Append(r.v, g.v), g.at) ELSE Bad,
             Got(<<>>, at), f.s)
HowMany(f, b, at) ==
    CASE f.how = "one" -> Got(1, at)
      [] f.how = "opt" -> LET r == Slice(b, at, 1) IN
                          IF r.ok /\ r.v[1] \in {0, 1} THEN Got(r.v[1], r.at) ELSE Bad
      [] f.how = "seq" -> GetNumber(b, at, MAX_BODY)
GetField(f, b, at) ==
    LET n == HowMany(f, b, at) IN
    IF ~n.ok THEN Bad
    ELSE FoldLeft(LAMBDA r, k :
                     IF ~r.ok THEN r
                     ELSE LET g == GetItem(f, b, r.at) IN
                          IF g.ok THEN Got(Append(r.v, g.v), g.at) ELSE Bad,
                  Got(<<>>, n.at), [k \in 1..n.v |-> k])

\* decode_record_at: every field of the version, and not a byte after them.
DecodeRecordAt(b, version) ==
    LET r == FoldLeft(LAMBDA a, f :
                         IF ~a.ok THEN a
                         ELSE LET g == GetField(f, b, a.at) IN
                              IF g.ok THEN Got(Append(a.v, g.v), g.at) ELSE Bad,
                      Got(<<>>, 1), LayoutAt(version))
    IN  IF r.ok /\ r.at = Len(b) + 1 THEN r ELSE Bad

-----------------------------------------------------------------------------
(* The verifier's walk: five fields and the sequence number, and every      *)
(* other one passed over by its shape.                                      *)

WalkPrim(shape, b, at) ==
    CASE shape \in {"u64", "u32", "u16", "i64"} -> LaxVarint(b, at)
      [] shape = "str"  -> LET n == LaxVarint(b, at) IN IF n.ok THEN Slice(b, n.at, n.v) ELSE Bad
      [] shape = "hash" -> Slice(b, at, HASH_BYTES)
      [] shape = "id"   -> Slice(b, at, ID_BYTES)
      [] shape = "code" -> LET r == Slice(b, at, 1) IN IF r.ok THEN Got(r.v[1], r.at) ELSE Bad

WalkLayout_SkewAlwaysThere ==
    << <<"one", "id">>, <<"one", "str">>, <<"one", "u64">>, <<"one", "str">>, <<"one", "str">>,
       <<"opt", "str">>, <<"seq", "str">>, <<"one", "u64">>, <<"opt", "u64">>, <<"one", "u64">>,
       <<"opt", "u64">>, <<"one", "u64">>, <<"one", "code">>, <<"one", "code">>,
       <<"opt", "str">>, <<"opt", "i64">>, <<"opt", "hash">>, <<"opt", "str">>, <<"opt", "u64">>,
       <<"opt", "u64">>, <<"opt", "hash">>, <<"seq", "str">>, <<"seq", "str">>, <<"seq", "id">>,
       <<"opt", "code">>, <<"opt", "code">>, <<"opt", "u64">>, <<"opt", "u64">>, <<"opt", "u64">>,
       <<"opt", "i64">>, <<"opt", "hash", "u64", "code", "hash">>, <<"one", "u64">> >>
WalkLayout ==
    << <<"one", "id">>, <<"one", "str">>, <<"one", "u64">>, <<"one", "str">>, <<"one", "str">>,
       <<"opt", "str">>, <<"seq", "str">>, <<"one", "u64">>, <<"opt", "u64">>, <<"one", "u64">>,
       <<"opt", "u64">>, <<"opt", "u64">>, <<"one", "code">>, <<"one", "code">>,
       <<"opt", "str">>, <<"opt", "i64">>, <<"opt", "hash">>, <<"opt", "str">>, <<"opt", "u64">>,
       <<"opt", "u64">>, <<"opt", "hash">>, <<"seq", "str">>, <<"seq", "str">>, <<"seq", "id">>,
       <<"opt", "code">>, <<"opt", "code">>, <<"opt", "u64">>, <<"opt", "u64">>, <<"opt", "u64">>,
       <<"opt", "i64">>, <<"opt", "hash", "u64", "code", "hash">>, <<"one", "u64">> >>

WalkItem(shapes, b, at) ==
    FoldLeft(LAMBDA r, shape :
                IF ~r.ok THEN r
                ELSE LET g == WalkPrim(shape, b, r.at) IN
                     IF g.ok THEN Got(Append(r.v, g.v), g.at) ELSE Bad,
             Got(<<>>, at), shapes)
\* An opt byte other than one is an absent field to this reader.
WalkMany(how, b, at) ==
    CASE how = "one" -> Got(1, at)
      [] how = "opt" -> LET r == Slice(b, at, 1) IN
                        IF r.ok THEN Got(IF r.v[1] = 1 THEN 1 ELSE 0, r.at) ELSE Bad
      [] how = "seq" -> LaxVarint(b, at)
WalkField(row, b, at) ==
    LET n == WalkMany(row[1], b, at) IN
    IF ~n.ok THEN Bad
    ELSE FoldLeft(LAMBDA r, k :
                     IF ~r.ok THEN r
                     ELSE LET g == WalkItem(Tail(row), b, r.at) IN
                          IF g.ok THEN Got(Append(r.v, g.v), g.at) ELSE Bad,
                  Got(<<>>, n.at), [k \in 1..n.v |-> k])
WalkFields(b) ==
    FoldLeft(LAMBDA a, row :
                IF ~a.ok THEN a
                ELSE LET g == WalkField(row, b, a.at) IN
                     IF g.ok THEN Got(Append(a.v, g.v), g.at) ELSE Bad,
             Got(<<>>, 1), WalkLayout)

-----------------------------------------------------------------------------
(* Frames and segment headers.  A check over bytes is a function of them;   *)
(* here it is their sum, which every single changed byte changes.           *)

FRAME_MAGIC == 7
FRAME_VERSION == 2
OLDEST_FRAME_VERSION == 1
SEGMENT_MAGIC == <<6, 6>>
FORMAT_VERSION == 1
Crc32(b) == <<FoldLeft(LAMBDA a, x : a + x, 0, b) % 97>>

EncodeFrameAt(body, link, version) ==
    LET out == <<FRAME_MAGIC, version>> \o Varint[Len(body)] \o body \o link IN out \o Crc32(out)

Fault(why) == [ok |-> FALSE, why |-> why]
DecodeFrame(b) ==
    IF Len(b) < 2 THEN Fault(IF b # <<>> /\ b[1] # FRAME_MAGIC THEN "magic" ELSE "truncated")
    ELSE IF b[1] # FRAME_MAGIC THEN Fault("magic")
    ELSE IF b[2] \notin OLDEST_FRAME_VERSION..FRAME_VERSION THEN Fault("version")
    ELSE LET n == CanonicalVarint(b, 3) IN
         IF ~n.ok THEN Fault(VarintFault(b, 3))
         ELSE IF n.v > MAX_BODY THEN Fault("large")
         ELSE LET bodyEnd == n.at + n.v
                  linkEnd == bodyEnd + HASH_BYTES
              IN  IF Len(b) < linkEnd THEN Fault("truncated")
                  ELSE IF Crc32(SubSeq(b, 1, linkEnd - 1)) # <<b[linkEnd]>> THEN Fault("crc")
                  ELSE [ok |-> TRUE, version |-> b[2], body |-> SubSeq(b, n.at, bodyEnd - 1),
                        link |-> SubSeq(b, bodyEnd, linkEnd - 1), len |-> linkEnd]

EncodeSegmentHeader(shard, segment, created) ==
    LET out == SEGMENT_MAGIC \o Varint[FORMAT_VERSION] \o Varint[shard] \o Varint[segment]
               \o Varint[created]
    IN  out \o Crc32(out)
DecodeSegmentHeader(b) ==
    IF Len(b) < 2 THEN Fault("truncated")
    ELSE IF SubSeq(b, 1, 2) # SEGMENT_MAGIC THEN Fault("magic")
    ELSE LET version == GetNumber(b, 3, U16Max) IN
         IF ~version.ok THEN Fault(IF CanonicalVarint(b, 3).ok THEN "truncated" ELSE VarintFault(b, 3))
         ELSE IF version.v # FORMAT_VERSION THEN Fault("version")
         ELSE LET shard == GetNumber(b, version.at, U16Max)
                  segment == IF shard.ok THEN CanonicalVarint(b, shard.at) ELSE Bad
                  created == IF segment.ok THEN CanonicalVarint(b, segment.at) ELSE Bad
              IN  IF ~shard.ok
                  THEN Fault(IF CanonicalVarint(b, version.at).ok THEN "truncated"
                             ELSE VarintFault(b, version.at))
                  ELSE IF ~segment.ok THEN Fault(VarintFault(b, shard.at))
                  ELSE IF ~created.ok THEN Fault(VarintFault(b, segment.at))
                  ELSE IF Len(b) < created.at THEN Fault("truncated")
                  ELSE IF Crc32(SubSeq(b, 1, created.at - 1)) # <<b[created.at]>> THEN Fault("crc")
                  ELSE [ok |-> TRUE, shard |-> shard.v, segment |-> segment.v,
                        created |-> created.v, len |-> created.at]

-----------------------------------------------------------------------------
(* What has to hold.                                                       *)

Sample(shape) ==
    CASE shape = "u64" -> 17 [] shape = "u32" -> 9 [] shape = "u16" -> 6 [] shape = "i64" -> -9
      [] shape = "str" -> <<1, 5>> [] shape = "hash" -> <<6>> [] shape = "id" -> <<2, 7>>
      [] shape = "code" -> 1
ItemOf(f) == [i \in DOMAIN f.s |-> Sample(f.s[i])]
\* The record that has just the optional fields named, and two of what may repeat.
RecordWith(present, version) ==
    [i \in DOMAIN LayoutAt(version) |->
        LET f == LayoutAt(version)[i] IN
        IF f.how = "one" THEN <<ItemOf(f)>>
        ELSE IF f.p \notin present THEN <<>>
        ELSE IF f.how = "opt" THEN <<ItemOf(f)>> ELSE <<ItemOf(f), ItemOf(f)>>]
MayBeAbsent == {f.p : f \in {g \in Range(LayoutAt(2)) : g.how # "one"}}
PlaceOf(path) == CHOOSE i \in DOMAIN LayoutAt(2) : LayoutAt(2)[i].p = path

\* A record reads back as it was written, under its own version and no other, and
\* the verifier, counting past the fields it has no opinion of, finds the same.
RecordsRoundTrip(present, version) ==
    LET rec == RecordWith(present, version)
        b   == EncodeRecord(rec, version)
    IN  /\ DecodeRecordAt(b, version) = Got(rec, Len(b) + 1)
        /\ ~DecodeRecordAt(b, 3 - version).ok
        /\ LET w == WalkFields(b) IN
           /\ w.ok
           /\ \A p \in {"id", "agent_id", "run_id", "recorded_at", "event_type", "seq"} :
                 w.v[PlaceOf(p)] = rec[PlaceOf(p)]

\* One spelling: bytes the journal takes as a number are the bytes it writes for
\* it, and the verifier reads the same number out of them.
VarintsAgree(b) ==
    LET r == CanonicalVarint(b, 1) IN
    r.ok => /\ r.v \in U64
            /\ Varint[r.v] = SubSeq(b, 1, r.at - 1)
            /\ LaxVarint(b, 1) = r
            /\ ZigZag(UnZigZag(r.v)) = r.v

\* A frame cut anywhere is short, not something else; one changed byte is refused;
\* and what is read is what was framed, whatever follows it.
FramesAgree(body, version, cut, flip) ==
    LET b == EncodeFrameAt(body, <<3>>, version) IN
    /\ DecodeFrame(b \o <<9>>) =
         [ok |-> TRUE, version |-> version, body |-> body, link |-> <<3>>, len |-> Len(b)]
    /\ cut < Len(b) => DecodeFrame(SubSeq(b, 1, cut)) = Fault("truncated")
    /\ flip \in DOMAIN b => ~DecodeFrame([b EXCEPT ![flip] = (@ + 1) % 8]).ok

HeadersAgree(shard, segment, created, cut) ==
    LET b == EncodeSegmentHeader(shard, segment, created) IN
    /\ DecodeSegmentHeader(b \o <<1>>) =
         [ok |-> TRUE, shard |-> shard, segment |-> segment, created |-> created, len |-> Len(b)]
    /\ cut < Len(b) => DecodeSegmentHeader(SubSeq(b, 1, cut)) = Fault("truncated")

\* The published schema is the one the types enforce: no content in metadata, the
\* bounds of the identifiers, the vocabularies of the codes, the dimensions a
\* proof covers, and a first version that is the second with nothing changed.
TypeOfPath(path) ==
    CASE path = "tenant" -> "TenantId" [] path = "agent_id" -> "AgentId"
      [] path \in {"run_id", "parent_run_id"} -> "RunId"
      [] path \in {"on_behalf_of", "basis.identity_chain"} -> "PrincipalId"
      [] path = "basis.policy_version" -> "PolicyVersion" [] path = "basis.model" -> "ModelId"
      [] path = "basis.tool_manifest" -> "ToolName"
      [] path = "basis.delegation_proof.jti" -> "TokenId"
      [] path = "basis.delegation_proof.jkt" -> "KeyThumbprint"
      [] path = "basis.delegation_proof.iss" -> "IssuerId"
      [] OTHER -> "none"
SchemaHolds ==
    /\ Violations(Fields) = {}
    /\ Cardinality({f.path : f \in Range(Fields)}) = Len(Fields)
    /\ ProvableFields(Fields) = Range(PROVABLE_DIMENSIONS)
    /\ ProvableFields(FieldsV1) = ProvableFields(Fields)
    /\ \A f \in Range(Fields) : TypeOfPath(f.path) # "none" =>
          f.kind = <<"token">> \o IdTypes[TypeOfPath(f.path)]
    /\ \A k \in {"hash", "signature", "kem"} :
          /\ Range(Codes[k]) = Range(Algorithms[k])
          /\ Len(Codes[k]) = Len(Algorithms[k])
    /\ \A f \in Range(LayoutAt(2)) : Len(f.s) = 1 =>
          \E g \in Range(Fields) :
             /\ g.path = f.p
             /\ g.repeated <=> f.how = "seq"
             /\ g.optional <=> f.how # "one"
             /\ f.s[1] = "code" => Cardinality(g.kind[2]) = f.codes
    /\ ~\E f \in Range(FieldsV1) : TypeOfPath(f.path) \in {"TokenId", "KeyThumbprint", "IssuerId"}
=============================================================================
