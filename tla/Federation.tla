----------------------------- MODULE Federation -----------------------------
(***************************************************************************)
(* Reading several nodes as one: records on their way between two of them, *)
(* the stream a peer answers with, and the rule that says what the merged  *)
(* answer may claim.  Everything that arrives is somebody else's; a peer   *)
(* that did not answer in full has to show in the result.                  *)
(***************************************************************************)
EXTENDS Integers, Sequences, FiniteSets, SequencesExt

CONSTANT ExpHalf      \* 2^63: the first instant a signed field cannot hold

R == INSTANCE Record

Got(x) == [ok |-> TRUE, value |-> x, why |-> <<>>]
Refuse(why, field) == [ok |-> FALSE, value |-> <<>>, why |-> <<why, field>>]

-----------------------------------------------------------------------------
(* The wire's own enumerations: the number is the place, from one; zero is  *)
(* what an absent field reads as and stands for nothing.                    *)

WireEventType ==
    <<"request_received", "model_call", "tool_call", "policy_decision", "budget_check",
      "memory_access", "delegation", "run_completed", "erasure", "store_event",
      "notification_dispatched", "identity_finding">>
WireSeverity == <<"debug", "info", "notice", "warning", "error", "critical">>
WireVerdict == <<"allowed", "denied", "held", "failed", "not_applicable">>
WireErrorCode ==
    <<"none", "timeout", "rate_limited", "unauthorized", "budget_exceeded", "policy_denied",
      "upstream_error", "malformed", "internal">>
WirePayloadClass ==
    <<"prompt", "completion", "tool_arguments", "tool_result", "document", "diagnostic">>
WireHashAlg == <<"sha384">>
WireSigAlg == <<"es256", "es384", "ml-dsa-65", "slh-dsa">>
WireKemAlg == <<"x25519-ml-kem-768">>

WireEnums ==
    [event_type |-> WireEventType, severity |-> WireSeverity, verdict |-> WireVerdict,
     error |-> WireErrorCode, class |-> WirePayloadClass, hash_alg |-> WireHashAlg,
     sig_alg |-> WireSigAlg, kem_alg |-> WireKemAlg]
RecordEnums ==
    [event_type |-> R!EventType, severity |-> R!Severity, verdict |-> R!Verdict,
     error |-> R!ErrorCode, class |-> R!PayloadClass, hash_alg |-> R!Algorithms.hash,
     sig_alg |-> R!Algorithms.signature, kem_alg |-> R!Algorithms.kem]

-----------------------------------------------------------------------------
(* One value.  Bytes travel as <<bytes, how many>>; a text is one that the *)
(* strict parser takes, one that only the lax parser takes, or neither.    *)

HASH_BYTES == 48
ID_BYTES == 16
U16 == 65536
Texts == {"strict", "lax", "bad"}

ToField(kind, v) ==
    CASE kind = "hash" -> <<v, HASH_BYTES>>
      [] kind = "id" -> <<v, ID_BYTES>>
      [] kind = "exp" -> IF v >= ExpHalf THEN v - 2 * ExpHalf ELSE v
      [] kind \in DOMAIN WireEnums -> CHOOSE i \in DOMAIN WireEnums[kind] : WireEnums[kind][i] = v
      [] OTHER -> v

HashFromWire(x, field) == IF x[2] = HASH_BYTES THEN Got(x[1]) ELSE Refuse("BadLength", field)
IdFromWire(x, field) == IF x[2] = ID_BYTES THEN Got(x[1]) ELSE Refuse("BadLength", field)
Ident(x, allowed, field) == IF x \in allowed THEN Got(x) ELSE Refuse("BadIdentifier", field)
NarrowU16(x, field) == IF x < U16 THEN Got(x) ELSE Refuse("OutOfRange", field)

FromField(kind, x, field) ==
    CASE kind = "hash" -> HashFromWire(x, field)
      [] kind = "id" -> IdFromWire(x, field)
      [] kind = "ident" -> Ident(x, {"strict", "lax"}, field)
      [] kind = "agent" -> Ident(x, {"strict"}, field)
      [] kind = "u16" -> NarrowU16(x, field)
      [] kind = "exp" -> Got(IF x < 0 THEN 0 ELSE x)
      [] kind \in DOMAIN WireEnums ->
            IF x \in DOMAIN WireEnums[kind] THEN Got(WireEnums[kind][x])
            ELSE Refuse("UnknownEnum", field)
      [] OTHER -> Got(x)

-----------------------------------------------------------------------------
(* A record, field by field in the order the decoder asks.  Every field is *)
(* a sequence: one value, none or one, or any number.                      *)

Row(name, kind, shape, group) == [name |-> name, kind |-> kind, shape |-> shape, group |-> group]

WireFields ==
    <<Row("id", "id", "one", "record"), Row("tenant", "ident", "one", "record"),
      Row("shard", "u16", "one", "record"), Row("agent_id", "agent", "one", "record"),
      Row("run_id", "ident", "one", "record"), Row("parent_run_id", "ident", "opt", "record"),
      Row("on_behalf_of", "ident", "many", "record"), Row("occurred_at", "copy", "one", "record"),
      Row("decided_at", "copy", "opt", "record"), Row("recorded_at", "copy", "one", "record"),
      Row("knowledge_as_of", "copy", "opt", "record"), Row("clock_skew_nanos", "copy", "opt", "record"),
      Row("event_type", "event_type", "one", "record"), Row("severity", "severity", "one", "record"),
      Row("policy_version", "ident", "opt", "basis"), Row("budget_remaining", "copy", "opt", "basis"),
      Row("memory_ref", "hash", "opt", "basis"), Row("model", "ident", "opt", "basis"),
      Row("temperature_milli", "u16", "opt", "basis"), Row("max_tokens", "copy", "opt", "basis"),
      Row("prompt_hash", "hash", "opt", "basis"), Row("tool_manifest", "ident", "many", "basis"),
      Row("identity_chain", "ident", "many", "basis"),
      Row("jti", "ident", "one", "proof"), Row("jkt", "ident", "one", "proof"),
      Row("iss", "ident", "one", "proof"), Row("exp", "exp", "one", "proof"),
      Row("caused_by", "id", "many", "record"),
      Row("verdict", "verdict", "opt", "outcome"), Row("error", "error", "opt", "outcome"),
      Row("latency", "copy", "opt", "outcome"), Row("tokens_in", "copy", "opt", "outcome"),
      Row("tokens_out", "copy", "opt", "outcome"), Row("cost", "copy", "opt", "outcome"),
      Row("payload_hash", "hash", "one", "payload"), Row("size_bytes", "copy", "one", "payload"),
      Row("class", "class", "one", "payload"), Row("key_id", "hash", "one", "payload"),
      Row("seq", "copy", "one", "record"), Row("prev_hash", "hash", "one", "record"),
      Row("segment_id", "copy", "one", "record"), Row("hash_alg", "hash_alg", "one", "algorithms"),
      Row("signature", "sig_alg", "one", "algorithms"), Row("kem", "kem_alg", "one", "algorithms"),
      Row("mapper", "u16", "one", "record")>>

FieldNames == {WireFields[i].name : i \in DOMAIN WireFields}
RowOf(name) == WireFields[CHOOSE i \in DOMAIN WireFields : WireFields[i].name = name]
Required == <<"basis", "outcome", "algorithms">>
OptionalGroups == {"proof", "payload"}

\* An optional group is there when its one-valued fields are.
GroupsOf(record) ==
    Range(Required) \cup {"record"}
        \cup {g \in OptionalGroups : \E f \in FieldNames : RowOf(f).group = g /\ record[f] # <<>>}

ToWire(record) ==
    [groups |-> GroupsOf(record),
     fields |-> [f \in FieldNames |->
                   [i \in DOMAIN record[f] |-> ToField(RowOf(f).kind, record[f][i])]]]

\* The groups that have to be there first, then the fields in order; the first
\* that will not do is the answer.
FromWire(wire) ==
    LET missing == SelectSeq(Required, LAMBDA g : g \notin wire.groups)
        readBack(f) ==
            [i \in DOMAIN wire.fields[f] |-> FromField(RowOf(f).kind, wire.fields[f][i], f)]
        refused(row) == \E i \in DOMAIN wire.fields[row.name] : ~readBack(row.name)[i].ok
        bad == SelectSeq(WireFields, refused)
    IN  IF missing # <<>> THEN Refuse("MissingField", Head(missing))
        ELSE IF bad # <<>>
        THEN LET read == readBack(Head(bad).name)
             IN  read[CHOOSE i \in DOMAIN read : ~read[i].ok]
        ELSE Got([f \in FieldNames |-> [i \in DOMAIN wire.fields[f] |-> readBack(f)[i].value]])

-----------------------------------------------------------------------------
(* What a served answer says of itself, on the wire and off it.            *)

Incompleteness ==
    <<"PredicateOffProvableDimensions", "SegmentUnavailable", "ProofNotAttempted",
      "PeerSetUnattested", "UpstreamPeerIncomplete">>
Reasons == Range(Incompleteness) \cup {"UnknownToThisVersion"}

IncompletenessToWire(reason) ==
    IF reason \in Range(Incompleteness)
    THEN CHOOSE i \in DOMAIN Incompleteness : Incompleteness[i] = reason
    ELSE 0
IncompletenessFromWire(code) ==
    IF code \in DOMAIN Incompleteness THEN Incompleteness[code] ELSE "UnknownToThisVersion"

Statuses == <<"full", "partial", "none">>
Served(status, reasons) == [status |-> status, reasons |-> reasons]
TrailerFor(served) ==
    [status |-> CHOOSE i \in DOMAIN Statuses : Statuses[i] = served.status,
     reasons |-> IF served.status = "full" THEN <<>>
                 ELSE [i \in DOMAIN served.reasons |-> IncompletenessToWire(served.reasons[i])]]

\* The status decides; of the reasons the first is kept.
ProofFromTrailer(trailer) ==
    LET first == IF trailer.reasons = <<>> THEN "UnknownToThisVersion"
                 ELSE IncompletenessFromWire(trailer.reasons[1])
    IN  IF trailer.status \notin DOMAIN Statuses THEN Refuse("Malformed", "proof")
        ELSE Got([status |-> Statuses[trailer.status],
                  reason |-> IF Statuses[trailer.status] = "partial" THEN first ELSE ""])

-----------------------------------------------------------------------------
(* The stream: records, then a trailer, then the end of it.                *)

NoTrailer == [status |-> 0, reasons |-> <<>>]
NoRow == [at |-> 0, id |-> 0, agent |-> "bad"]
RecordChunk(row) == [body |-> "record", row |-> row, trailer |-> NoTrailer]
TrailerChunk(trailer) == [body |-> "trailer", row |-> NoRow, trailer |-> trailer]
EmptyChunk == [body |-> "none", row |-> NoRow, trailer |-> NoTrailer]

\* Whatever is asked: the predicate is not applied on this side.
PeerQuery(chunks, predicate) == [chunks |-> chunks, end |-> "clean"]
Serve(rows, served) ==
    Append([i \in DOMAIN rows |-> RecordChunk(rows[i])], TrailerChunk(TrailerFor(served)))

\* The handshake takes only the name that was asked for; the answer is counted
\* under it.
Connect(expected, certified) ==
    IF certified = expected THEN Got(expected) ELSE Refuse("Unreachable", expected)

Trailers(chunks) == SelectSeq(chunks, LAMBDA c : c.body = "trailer")
ChunkRefused(chunks, i) ==
    \/ chunks[i].body = "none"
    \/ chunks[i].body = "record"
       /\ \/ Trailers(SubSeq(chunks, 1, i - 1)) # <<>>
          \/ ~FromField("agent", chunks[i].row.agent, "agent_id").ok
    \/ chunks[i].body = "trailer" /\ ~ProofFromTrailer(chunks[i].trailer).ok

RowsOf(chunks) ==
    LET records == SelectSeq(chunks, LAMBDA c : c.body = "record")
    IN  [i \in DOMAIN records |-> records[i].row]
ReadChunks(stream, proofOf(_)) ==
    LET chunks == stream.chunks
    IN  CASE \E i \in DOMAIN chunks : ChunkRefused(chunks, i) -> Refuse("Malformed", "chunk")
          [] stream.end # "clean" -> Refuse("Unreachable", "stream")
          [] OTHER -> proofOf(chunks)
QueryRecords_NoTrailer(stream) ==
    ReadChunks(stream, LAMBDA chunks :
        Got([rows |-> RowsOf(chunks),
             proof |-> IF Trailers(chunks) = <<>> THEN [status |-> "full", reason |-> ""]
                       ELSE ProofFromTrailer(Last(Trailers(chunks)).trailer).value]))
QueryRecords(stream) ==
    ReadChunks(stream, LAMBDA chunks :
        IF Trailers(chunks) = <<>> THEN Refuse("Truncated", "stream")
        ELSE Got([rows |-> RowsOf(chunks),
                  proof |-> ProofFromTrailer(Last(Trailers(chunks)).trailer).value]))

-----------------------------------------------------------------------------
(* The registry: the names of the peers, and whether anybody signed them.  *)

NameBefore(a, b) ==
    \/ Len(a) < Len(b) /\ SubSeq(b, 1, Len(a)) = a
    \/ \E i \in DOMAIN a \cap DOMAIN b :
          a[i] < b[i] /\ SubSeq(a, 1, i - 1) = SubSeq(b, 1, i - 1)
SortedNames(peers) == SetToSortSeq(Range(peers), NameBefore)
Attested(version, peers, verified) ==
    [version |-> version, peers |-> SortedNames(peers), attested |-> verified]
SigningBytes(version, peers) ==
    LET sorted == SortedNames(peers)
    IN  <<version, Len(sorted)>>
        \o FlattenSeq([i \in DOMAIN sorted |-> <<Len(sorted[i])>> \o sorted[i]])

-----------------------------------------------------------------------------
(* The rule.                                                               *)

Earlier(a, b) == a.at < b.at \/ (a.at = b.at /\ a.id < b.id)
Compose(registry, answers) ==
    LET answered == {answers[i].peer : i \in DOMAIN answers}
        silent == SelectSeq(registry.peers, LAMBDA p : p \notin answered)
        strangers == SelectSeq(answers, LAMBDA a : a.peer \notin Range(registry.peers))
        short == SelectSeq(answers, LAMBDA a : a.response.proof.status # "full")
        reasons == {<<~registry.attested, "unattested">>, <<silent # <<>>, "silent">>,
                    <<strangers # <<>>, "unlisted">>, <<short # <<>>, "incomplete">>}
    IN  [rows |-> SortSeq(FlattenSeq([i \in DOMAIN answers |-> answers[i].response.rows]), Earlier),
         downgraded |-> {r[2] : r \in {r \in reasons : r[1]}},
         registry_version |-> registry.version,
         silent |-> silent,
         unexpected |-> [i \in DOMAIN strangers |-> strangers[i].peer]]

\* The peers that could be dialled, under the names their certificates carry.
Connected(dialled) ==
    LET reached == SelectSeq(dialled, LAMBDA d : Connect(d.name, d.certified).ok)
    IN  [i \in DOMAIN reached |-> [name |-> Connect(reached[i].name, reached[i].certified).value,
                                   stream |-> reached[i].stream]]

\* Ask each in turn; one that fails is left out, and its name goes with the failures.
FanOut(registry, peers) ==
    LET replies == [i \in DOMAIN peers |-> QueryRecords(peers[i].stream)]
        ok == {i \in DOMAIN peers : replies[i].ok}
        order == SetToSortSeq(ok, <)
        failed == SetToSortSeq(DOMAIN peers \ ok, <)
    IN  [answer |-> Compose(registry, [k \in DOMAIN order |->
                        [peer |-> peers[order[k]].name, response |-> replies[order[k]].value]]),
         failures |-> [k \in DOMAIN failed |-> <<peers[failed[k]].name, replies[failed[k]].why[1]>>]]

-----------------------------------------------------------------------------
(* What the pieces are for, said without them.                             *)

\* The two sides mean the same variants by the same words, so no record changes
\* its meaning between two nodes.
EnumsAgree ==
    \A kind \in DOMAIN WireEnums :
        /\ Range(WireEnums[kind]) = Range(RecordEnums[kind])
        /\ Len(WireEnums[kind]) = Cardinality(Range(WireEnums[kind]))

\* A record of ours that a peer takes is the record we sent, and the only record
\* of ours a peer refuses is one whose agent was read with the lax parser.  The one
\* value that changes is an expiry past the signed range, which arrives as zero.
Travels(record) ==
    LET arrived == FromWire(ToWire(record))
        far == record["exp"] # <<>> /\ record["exp"][1] >= ExpHalf
    IN  /\ arrived.ok <=> record["agent_id"][1] = "strict"
        /\ arrived.ok => arrived.value = IF far THEN [record EXCEPT !["exp"] = <<0>>] ELSE record

\* Whatever a peer sends, what is taken from it is a record this node could have
\* made, and sending it on says the same thing but for an expiry before the epoch.
Lawful(kind, v) ==
    CASE kind = "agent" -> v = "strict"
      [] kind = "ident" -> v \in {"strict", "lax"}
      [] kind = "u16" -> v \in 0..U16 - 1
      [] kind = "exp" -> v \in 0..ExpHalf - 1
      [] kind \in DOMAIN RecordEnums -> v \in Range(RecordEnums[kind])
      [] OTHER -> TRUE
TakesOnlyRecords(wire) ==
    LET arrived == FromWire(wire)
        before == wire.fields["exp"] # <<>> /\ wire.fields["exp"][1] < 0
        kept == IF before THEN [wire EXCEPT !.fields["exp"] = <<0>>] ELSE wire
    IN  arrived.ok =>
            /\ \A f \in FieldNames : \A i \in DOMAIN arrived.value[f] :
                  Lawful(RowOf(f).kind, arrived.value[f][i])
            /\ ToWire(arrived.value) = kept

\* An answer is records, one by one legal, and then at least one trailer, all of
\* them readable, and then the end; the last trailer is the one that counts.
WholeAnswer(stream) ==
    /\ stream.end = "clean"
    /\ \E n \in 0..Len(stream.chunks) - 1 : \A i \in DOMAIN stream.chunks :
          IF i <= n THEN stream.chunks[i].body = "record" /\ stream.chunks[i].row.agent = "strict"
          ELSE stream.chunks[i].body = "trailer" /\ stream.chunks[i].trailer.status \in 1..3
FullAnswer(stream) == WholeAnswer(stream) /\ Last(stream.chunks).trailer.status = 1
StreamAgrees(stream) ==
    LET reply == QueryRecords(stream)
    IN  /\ reply.ok <=> WholeAnswer(stream)
        /\ reply.ok => /\ reply.value.rows = RowsOf(stream.chunks)
                       /\ reply.value.proof.status = "full" <=> FullAnswer(stream)

\* What a peer served arrives as it was served, or not at all: no cut of the stream
\* reads as an answer, and no reason is lost without being named as unknown.
ServedArrives(rows, served) ==
    LET chunks == Serve(rows, served)
        cut(k, end) == QueryRecords([chunks |-> SubSeq(chunks, 1, k), end |-> end])
        whole == QueryRecords(PeerQuery(chunks, "any"))
    IN  /\ \A k \in 0..Len(chunks) - 1 : \A end \in {"clean", "error"} : ~cut(k, end).ok
        /\ whole.ok <=> \A i \in DOMAIN rows : rows[i].agent = "strict"
        /\ whole.ok => /\ whole.value.rows = rows
                       /\ whole.value.proof.status = served.status
                       /\ served.status = "partial" =>
                            whole.value.proof.reason =
                                IF served.reasons = <<>> THEN "UnknownToThisVersion"
                                ELSE served.reasons[1]

\* Signing covers who the peers are and nothing else: neither the order nor a
\* repetition of a name, and never two different sets by the same bytes.
SigningAgrees(v1, peers1, v2, peers2) ==
    SigningBytes(v1, peers1) = SigningBytes(v2, peers2)
        <=> (v1 = v2 /\ Range(peers1) = Range(peers2))

\* The merged answer is complete if and only if the set was signed for, every peer
\* in it answered, nobody else did, and each of them said its own was complete.
\* A node under another's name is no answer of that other.  The rows are those of
\* the peers that answered, in order of time.
FullIffEverybodyAnswered(version, listed, verified, dialled) ==
    LET out == FanOut(Attested(version, listed, verified), Connected(dialled))
        peers == SelectSeq(dialled, LAMBDA d : d.certified = d.name)
        names == {peers[i].name : i \in DOMAIN peers}
        answered == {peers[i].name : i \in {i \in DOMAIN peers : WholeAnswer(peers[i].stream)}}
        rows == UNION {Range(RowsOf(peers[i].stream.chunks)) :
                          i \in {i \in DOMAIN peers : WholeAnswer(peers[i].stream)}}
    IN  /\ out.answer.downgraded = {} <=>
             /\ verified
             /\ answered = Range(listed)
             /\ \A i \in DOMAIN peers :
                   WholeAnswer(peers[i].stream) => FullAnswer(peers[i].stream)
        /\ Range(out.answer.silent) = Range(listed) \ answered
        /\ Range(out.answer.unexpected) = answered \ Range(listed)
        /\ {f[1] : f \in Range(out.failures)} \cup answered = names
        /\ Range(out.answer.rows) = rows
        /\ \A i \in 1..Len(out.answer.rows) - 1 : ~Earlier(out.answer.rows[i + 1], out.answer.rows[i])

=============================================================================
